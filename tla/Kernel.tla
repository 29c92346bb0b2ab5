------------------------------- MODULE Kernel -------------------------------
(***************************************************************************)
(* The kernel core: capability engine and scheduler composed through the   *)
(* system calls of kernel/syscall.c, from the last part of the boot path   *)
(* (kernel/main.c) on.                                                     *)
(*                                                                         *)
(* A ring-3 task has a capability table and an address space of its own.   *)
(* Boot gives it a console and a network endpoint; no system call creates, *)
(* derives, frees or revokes a capability.  SYS_CAP_SEND and SYS_CAP_RECV  *)
(* pass user addresses to cap_send and cap_recv, which park the caller     *)
(* with sched_block or wake the parked task with sched_unblock.            *)
(***************************************************************************)
EXTENDS Cap, Sched

ASSUME KernelAssumption ==
  /\ Tables = UserTasks
  /\ Callers = Tasks
  /\ TABLE_SIZE > 1

kernelVars == <<capVars, schedVars>>

KernelInit == CapInit /\ SchedInit

\* Boot: console capability in slot 0, then network capability in slot 1.
BootCapabilities(t, i) ==
  /\ sched_current = NoTask /\ run_queue = <<>>
  /\ ~Occupied(t, i) /\ (i = 1 => Occupied(t, 0))
  /\ cap_endpoint_create(t, i, {"SEND", "RECV"})
  /\ UNCHANGED schedVars

\* Boot: then the run queue is filled and started.  Boot goes on when the
\* endpoint pool is exhausted.
BootScheduler ==
  /\ Eps \subseteq ep_pool_used \/ \A t \in Tables, i \in {0, 1} : Occupied(t, i)
  /\ sched_start \/ \E t \in Tasks : sched_add(t)
  /\ UNCHANGED capVars

\* Mutant: the caller is marked BLOCKED and goes on running.
MarksBlocked(t, i, right, partner) ==
  LET err == cap_lookup(t, i, "ENDPOINT", {right})
      ep == Endpoint(t, i) IN
  /\ state' = IF err = "OK" /\ ep.state = "IDLE" THEN [state EXCEPT ![t] = "BLOCKED"]
              ELSE IF err = "OK" /\ ep.state = partner
              THEN sched_unblock(ep.parked_task_id) ELSE state
  /\ UNCHANGED <<ticks, ctx, run_queue, current_idx, sched_current, in_service>>

\* What cap_send and cap_recv do to the scheduler: park the current task on
\* an idle endpoint, wake the task parked on a waiting one.
Scheduled(t, i, right, partner) ==
  LET err == cap_lookup(t, i, "ENDPOINT", {right})
      ep == Endpoint(t, i) IN
  IF err = "OK" /\ ep.state = "IDLE" THEN sched_block(t)
  ELSE /\ state' = IF err = "OK" /\ ep.state = partner
                   THEN sched_unblock(ep.parked_task_id) ELSE state
       /\ UNCHANGED <<ticks, ctx, run_queue, current_idx, sched_current, in_service>>

\* Mutant: the sender is parked as task 0.
SendAnonymously(t, i, buf) ==
  /\ sched_current = t
  /\ cap_send(t, i, buf, 0)
  /\ Scheduled(t, i, "SEND", "RECV_WAITING")

SYS_CAP_SEND(t, i, buf) ==
  /\ sched_current = t
  /\ cap_send(t, i, buf, t)
  /\ Scheduled(t, i, "SEND", "RECV_WAITING")

SYS_CAP_RECV(t, i, buf) ==
  /\ sched_current = t
  /\ cap_recv(t, i, buf, t)
  /\ Scheduled(t, i, "RECV", "SEND_WAITING")

SYS_YIELD(t) == Yield(t) /\ UNCHANGED capVars

\* Mutant: the task's endpoints go back to the pool, not revoked.
ExitFreesEndpoints(t) ==
  /\ Exit(t)
  /\ ep_pool_used' = ep_pool_used \ {slots[t][i].object : i \in Slots}
  /\ UNCHANGED <<slots, ep_pool, mem, ret>>

SYS_EXIT(t) == Exit(t) /\ UNCHANGED capVars

\* The running program writes one of its message buffers.
UserWrite(t, buf, m) == /\ sched_current = t
                        /\ WriteBuf(t, buf, m)
                        /\ UNCHANGED schedVars

Timer == sched_tick /\ UNCHANGED capVars

KernelNext ==
  \/ \E t \in Tables, i \in {0, 1} : BootCapabilities(t, i)
  \/ BootScheduler
  \/ Timer
  \/ \E t \in UserTasks :
       \/ SYS_YIELD(t)
       \/ SYS_EXIT(t)
       \/ \E i \in Idx, b \in Addrs : SYS_CAP_SEND(t, i, b) \/ SYS_CAP_RECV(t, i, b)
       \/ \E b \in Bufs, m \in Msgs : UserWrite(t, b, m)

KernelSpec == KernelInit /\ [][KernelNext]_kernelVars

----------------------------------------------------------------------------
(* Properties.                                                              *)

\* The composition only makes capability steps the engine allows: whatever
\* holds of Cap, its refinement of CapAuthority too, holds here.
ImplementsCap == CapSpec

\* The composition only makes scheduling steps the scheduler allows: the
\* invariants of Sched hold here.
ImplementsSched == SchedSpec

\* A message address is dereferenced only in the address space it comes
\* from: the task parked on an endpoint is the owner of the one table whose
\* slots refer to the endpoint, so whoever completes the rendezvous in
\* cap_send or cap_recv runs on that task's page tables.
ParkedInOwnSpace ==
  \A t \in Tables, i \in Slots :
    Occupied(t, i) /\ Endpoint(t, i).state # "IDLE"
    => Endpoint(t, i).parked_task_id = t

\* Synchronous IPC (cap.h: "M6: sender task blocks", "M6: receiver task
\* blocks"): a task parked on an endpoint does not run until the rendezvous.
ParkedTaskWaits ==
  \A e \in Eps : ep_pool[e].state # "IDLE"
                 => sched_current # ep_pool[e].parked_task_id
=============================================================================
