------------------------------- MODULE Sched -------------------------------
(***************************************************************************)
(* The round-robin scheduler (kernel/sched.c), the context switch          *)
(* (kernel/task.asm) and the timer interrupt that drives it                *)
(* (kernel/pit.c, kernel/irq.c).                                           *)
(*                                                                         *)
(* One core.  System calls and interrupt handlers run with interrupts off, *)
(* so a kernel path is atomic up to task_switch; the task switched to then *)
(* resumes the kernel path it was suspended in and leaves the kernel.  A   *)
(* step of this module is one kernel entry together with the part of the   *)
(* resumed path that runs before the next instruction of a user program or *)
(* of the idle loop.  ctx[t] says in which call task t is suspended.       *)
(*                                                                         *)
(* irq_handler acknowledges the interrupt after its callback returns.  A   *)
(* tick that switches tasks is acknowledged only when the preempted task   *)
(* runs again: until then IRQ0 stays in service and the interrupt          *)
(* controller delivers neither the timer nor the keyboard.                 *)
(***************************************************************************)
EXTENDS Integers, Sequences

CONSTANTS
  UserTasks,  \* ids of the ring-3 tasks
  QUANTUM,    \* PIT ticks of a time slice (10)
  NoTask      \* sched_current before sched_start: the null pointer

ASSUME SchedAssumption ==
  /\ UserTasks \subseteq Nat \ {0}
  /\ QUANTUM \in Nat \ {0}
  /\ NoTask \notin Nat

Idle == 0                        \* task_create_kernel is given id 0
Tasks == {Idle} \cup UserTasks

VARIABLES
  state,          \* task->state
  ticks,          \* task->ticks: PIT ticks left in the slice
  ctx,            \* where the task's kernel stack is suspended
  run_queue,      \* run_queue[0 .. queue_count - 1]
  current_idx,    \* index of the current task in run_queue
  sched_current,  \* the current task, NoTask before sched_start
  in_service      \* IRQ0 is in service: raised, not yet acknowledged

schedVars == <<state, ticks, ctx, run_queue, current_idx, sched_current, in_service>>

States == {"READY", "RUNNING", "BLOCKED", "DEAD"}
Suspended == {"fresh", "start", "tick", "yield", "block", "exit"}

----------------------------------------------------------------------------

\* task_create_kernel and task_create_user have run; sched_init has run.
SchedInit ==
  /\ state = [t \in Tasks |-> "READY"]
  /\ ticks = [t \in Tasks |-> QUANTUM]
  /\ ctx = [t \in Tasks |-> IF t = Idle THEN "exec" ELSE "fresh"]
  /\ run_queue = <<>>
  /\ current_idx = 0
  /\ sched_current = NoTask
  /\ in_service = FALSE

\* The boot path adds the kernel task first, and each task once.
sched_add(t) ==
  /\ sched_current = NoTask
  /\ IF run_queue = <<>> THEN t = Idle
     ELSE \A k \in DOMAIN run_queue : run_queue[k] # t
  /\ run_queue' = Append(run_queue, t)
  /\ UNCHANGED <<state, ticks, ctx, current_idx, sched_current, in_service>>

\* run_queue[(current_idx + i) % queue_count]
AtOffset(i) == run_queue[((current_idx + i) % Len(run_queue)) + 1]

\* Mutant: the queue is searched backwards.
ScansBack(st) ==
  LET R == {i \in 1 .. Len(run_queue) - 1 : st[AtOffset(i)] = "READY"} IN
  IF R = {} THEN sched_current
  ELSE AtOffset(CHOOSE i \in R : \A j \in R : i >= j)

\* The first READY task after the current one, given the states st; the
\* current task when there is none.
next_ready(st) ==
  LET R == {i \in 1 .. Len(run_queue) : st[AtOffset(i)] = "READY"} IN
  IF R = {} THEN sched_current
  ELSE AtOffset(CHOOSE i \in R : \A j \in R : i <= j)

idx_of(t) ==
  CHOOSE k \in 0 .. Len(run_queue) - 1 : run_queue[k + 1] = t

\* Mutant: the acknowledgement is skipped when the handler resumes.
NeverAcknowledged(next, held) == held

\* After the switch, IRQ0 is in service if the path that switched holds it
\* and the resumed task is not inside the timer interrupt: a task resumed
\* there returns through irq_handler, which acknowledges.
Acknowledged(next, held) == held /\ ctx[next] # "tick"

\* Mutant: the old task is not made READY.
KeepsState(st, tk, next, why, held) ==
  /\ current_idx' = idx_of(next)
  /\ sched_current' = next
  /\ state' = [st EXCEPT ![next] = "RUNNING"]
  /\ ticks' = [tk EXCEPT ![next] = QUANTUM]
  /\ ctx' = [ctx EXCEPT ![sched_current] = why, ![next] = "exec"]
  /\ in_service' = Acknowledged(next, held)
  /\ UNCHANGED run_queue

\* What sched_tick and sched_yield do once they have chosen next; st and tk
\* are the task states and ticks at that point.  The old task is made READY
\* whatever its state was.
Switch(st, tk, next, why, held) ==
  /\ current_idx' = idx_of(next)
  /\ sched_current' = next
  /\ state' = [st EXCEPT ![sched_current] = "READY", ![next] = "RUNNING"]
  /\ ticks' = [tk EXCEPT ![next] = QUANTUM]
  /\ ctx' = [ctx EXCEPT ![sched_current] = why, ![next] = "exec"]
  /\ in_service' = Acknowledged(next, held)
  /\ UNCHANGED run_queue

\* The kernel task becomes current and hands over to the first user task;
\* without one it goes on to the idle loop.
sched_start ==
  /\ sched_current = NoTask /\ run_queue # <<>>
  /\ UNCHANGED <<run_queue, in_service>>
  /\ IF Len(run_queue) > 1 /\ state[run_queue[2]] = "READY"
     THEN /\ sched_current' = run_queue[2]
          /\ current_idx' = 1
          /\ state' = [state EXCEPT ![run_queue[1]] = "READY",
                                    ![run_queue[2]] = "RUNNING"]
          /\ ticks' = [ticks EXCEPT ![run_queue[2]] = QUANTUM]
          /\ ctx' = [ctx EXCEPT ![run_queue[1]] = "start",
                                ![run_queue[2]] = "exec"]
     ELSE /\ sched_current' = run_queue[1]
          /\ current_idx' = 0
          /\ state' = [state EXCEPT ![run_queue[1]] = "RUNNING"]
          /\ UNCHANGED <<ticks, ctx>>

\* Mutant: a call before the slice is used up is ignored.
YieldsWhenSpent(st, why) ==
  IF ticks[sched_current] > 0 THEN UNCHANGED schedVars
  ELSE Switch(st, ticks, next_ready(st), why, in_service)

\* sched_yield with the task states st, called from the path named why.
sched_yield(st, why) ==
  LET next == next_ready(st) IN
  IF next = sched_current
  THEN /\ state' = st
       /\ UNCHANGED <<ticks, ctx, run_queue, current_idx, sched_current, in_service>>
  ELSE Switch(st, ticks, next, why, in_service)

\* Task t blocks itself, as cap_send and cap_recv do.
sched_block(t) == sched_yield([state EXCEPT ![t] = "BLOCKED"], "block")

\* The table of task states after sched_unblock(t); 0 means no task.
sched_unblock(t) ==
  IF t # 0 /\ state[t] = "BLOCKED" THEN [state EXCEPT ![t] = "READY"] ELSE state

\* A timer interrupt that reaches the processor: pit_callback, sched_tick
\* and, when the handler returns without a switch, the acknowledgement.
sched_tick ==
  LET left == IF ticks[sched_current] > 0 THEN ticks[sched_current] - 1 ELSE 0
      next == next_ready(state) IN
  /\ sched_current # NoTask /\ ~in_service
  /\ \/ /\ left > 0
        /\ ticks' = [ticks EXCEPT ![sched_current] = left]
        /\ UNCHANGED <<state, ctx, run_queue, current_idx, sched_current, in_service>>
     \/ /\ left = 0 /\ next = sched_current
        /\ ticks' = [ticks EXCEPT ![sched_current] = QUANTUM]
        /\ UNCHANGED <<state, ctx, run_queue, current_idx, sched_current, in_service>>
     \/ /\ left = 0 /\ next # sched_current
        /\ Switch(state, [ticks EXCEPT ![sched_current] = 0], next, "tick", TRUE)

\* SYS_YIELD
Yield(t) == sched_current = t /\ sched_yield(state, "yield")

\* SYS_EXIT: the task is marked DEAD and yields.
Exit(t) == /\ sched_current = t
           /\ sched_yield([state EXCEPT ![t] = "DEAD"], "exit")

\* A system call that parks its caller on an endpoint.
Block(t) == sched_current = t /\ sched_block(t)

\* A system call that completes a rendezvous with a parked task.
Unblock(t, u) == /\ sched_current = t
                 /\ state' = sched_unblock(u)
                 /\ UNCHANGED <<ticks, ctx, run_queue, current_idx, sched_current, in_service>>

Syscall(t) == Yield(t) \/ Exit(t) \/ Block(t) \/ \E u \in Tasks : Unblock(t, u)

SchedNext ==
  \/ \E t \in Tasks : sched_add(t)
  \/ sched_start
  \/ sched_tick
  \/ \E t \in UserTasks : Syscall(t)

SchedSpec == SchedInit /\ [][SchedNext]_schedVars

\* The timer is periodic, so an interrupt that stays deliverable is
\* delivered; the boot path runs to its end; the user programs (user/bin)
\* poll for input and yield.
FairSchedSpec == /\ SchedSpec
                 /\ WF_schedVars(sched_start) /\ WF_schedVars(sched_tick)
                 /\ \A t \in UserTasks : WF_schedVars(Yield(t))

----------------------------------------------------------------------------
(* Properties.                                                              *)

\* Every variable has its type, and the current index points into the queue.
SchedTypeOK ==
  /\ state \in [Tasks -> States]
  /\ ticks \in [Tasks -> 0 .. QUANTUM]
  /\ ctx \in [Tasks -> Suspended \cup {"exec"}]
  /\ run_queue \in Seq(Tasks)
  /\ sched_current \in Tasks \cup {NoTask}
  /\ current_idx \in Nat
  /\ in_service \in BOOLEAN

\* Exactly the current task is RUNNING, it is the one the queue index points
\* at, its context is the one on the processor, and every other task is
\* READY with a saved context.  In particular no task is BLOCKED or DEAD
\* between two steps: sched_yield makes the task that blocked or exited
\* READY again.
OneRunning ==
  sched_current # NoTask =>
    /\ current_idx < Len(run_queue)
    /\ run_queue[current_idx + 1] = sched_current
    /\ \A t \in Tasks : /\ state[t] = IF t = sched_current THEN "RUNNING" ELSE "READY"
                        /\ ctx[t] = "exec" <=> t = sched_current

\* IRQ0 is in service exactly while a preempted task is suspended in
\* sched_tick, and there is never more than one: the acknowledgement owed
\* (irq.c, after the handler) is sent when that very task runs again, and
\* until then there is no timer interrupt that could preempt anyone.
InServiceOwner ==
  /\ in_service <=> \E t \in Tasks : ctx[t] = "tick"
  /\ \A t, u \in Tasks : ctx[t] = "tick" /\ ctx[u] = "tick" => t = u

\* Strict rotation: every switch is to the next task of the queue.  Nobody
\* is skipped, neither a task that called sched_block nor one that exited.
StrictRotation ==
  [][sched_current # NoTask /\ sched_current' # sched_current
     => current_idx' = (current_idx + 1) % Len(run_queue)]_schedVars

\* If a preemption is still to be acknowledged while user tasks run, then it
\* is acknowledged or the idle task is reached: user tasks that yield pass
\* the processor round.
AckOrIdle == in_service ~> (~in_service \/ sched_current = Idle)

\* Round robin (sched.h: "When a task's ticks reach zero, the next READY task
\* runs"): every task of the queue runs again and again.
RoundRobin ==
  \A t \in Tasks :
    (sched_current # NoTask /\ \E k \in DOMAIN run_queue : run_queue[k] = t)
    ~> sched_current = t
=============================================================================
