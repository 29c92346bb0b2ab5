---------------------------- MODULE Kernel_proofs ----------------------------
(* Proofs about the composed kernel core: it implements both components,    *)
(* and a parked message address is only used in its own address space.      *)
EXTENDS Kernel, Cap_proofs, Sched_proofs

\* What a step of the kernel does to the capability engine.
LEMMA KernelCapStep == [KernelNext]_kernelVars => [CapNext]_capVars
<1> SUFFICES ASSUME [KernelNext]_kernelVars PROVE CapNext \/ UNCHANGED capVars
  OBVIOUS
<1>1. CASE UNCHANGED kernelVars
  BY <1>1 DEF kernelVars
<1>2. ASSUME NEW t \in Tables, NEW i \in {0, 1}, BootCapabilities(t, i) PROVE CapNext
  <2>1. i \in Idx /\ {"SEND", "RECV"} \in SUBSET Rights
    BY CapAssumption, KernelAssumption DEF Idx
  <2>2. QED BY <1>2, <2>1 DEF BootCapabilities, CapNext
<1>3. CASE BootScheduler \/ Timer
  BY <1>3 DEF BootScheduler, Timer
<1>4. ASSUME NEW t \in UserTasks, SYS_YIELD(t) \/ SYS_EXIT(t) PROVE UNCHANGED capVars
  BY <1>4 DEF SYS_YIELD, SYS_EXIT
<1>5. ASSUME NEW t \in UserTasks, NEW i \in Idx, NEW b \in Addrs,
             SYS_CAP_SEND(t, i, b) \/ SYS_CAP_RECV(t, i, b)
      PROVE  CapNext
  <2>1. t \in Tables /\ t \in Callers
    BY KernelAssumption DEF Tasks
  <2>2. QED BY <1>5, <2>1 DEF SYS_CAP_SEND, SYS_CAP_RECV, CapNext
<1>6. ASSUME NEW t \in UserTasks, NEW b \in Bufs, NEW m \in Msgs, UserWrite(t, b, m)
      PROVE  CapNext
  <2>1. t \in Tables /\ 0 \in Idx
    BY KernelAssumption, CapAssumption DEF Idx
  <2>2. QED BY <1>6, <2>1 DEF UserWrite, CapNext
<1>7. QED BY <1>1, <1>2, <1>3, <1>4, <1>5, <1>6 DEF KernelNext

\* The kernel core implements the capability engine (ImplementsCap), so every
\* theorem about CapSpec, the refinement of CapAuthority too, holds of it.
THEOREM KernelImplementsCap == KernelSpec => ImplementsCap
<1>1. KernelInit => CapInit BY DEF KernelInit
<1>2. QED BY <1>1, KernelCapStep, PTL DEF KernelSpec, ImplementsCap, CapSpec

\* cap_send and cap_recv park the caller, wake the parked task, or leave the
\* scheduler alone.
LEMMA ScheduledStep ==
  ASSUME CapInv, NEW t \in UserTasks, NEW i \in Idx, sched_current = t,
         NEW right, NEW partner, Scheduled(t, i, right, partner)
  PROVE  SchedNext \/ UNCHANGED schedVars
<1> DEFINE err == cap_lookup(t, i, "ENDPOINT", {right})
           ep == Endpoint(t, i)
<1>1. CASE err = "OK" /\ ep.state = "IDLE"
  <2>1. Block(t)
    BY <1>1 DEF Scheduled, Block
  <2>2. QED BY <2>1 DEF Syscall, SchedNext
<1>2. CASE err = "OK" /\ ep.state # "IDLE" /\ ep.state = partner
  <2>1. ep.parked_task_id \in Tasks
    <3>1. t \in Tables BY KernelAssumption
    <3>2. i \in Slots /\ Occupied(t, i)
      BY <1>2 DEF cap_lookup
    <3>3. slots[t][i].object \in Eps
      BY <3>1, <3>2 DEF CapInv, CapTypeOK, SlotsBehind
    <3>4. ep \in EndpointType
      BY <3>3 DEF Endpoint, CapInv, CapTypeOK
    <3>5. QED BY <3>4, KernelAssumption DEF EndpointType
  <2>2. Unblock(t, ep.parked_task_id)
    BY <1>2 DEF Scheduled, Unblock
  <2>3. QED BY <2>1, <2>2 DEF Syscall, SchedNext
<1>3. CASE ~(err = "OK" /\ ep.state = "IDLE") /\ ~(err = "OK" /\ ep.state = partner)
  BY <1>3 DEF Scheduled, schedVars
<1>4. QED BY <1>1, <1>2, <1>3

LEMMA KernelSchedStep == CapInv /\ [KernelNext]_kernelVars => [SchedNext]_schedVars
<1> SUFFICES ASSUME CapInv, [KernelNext]_kernelVars
             PROVE  SchedNext \/ UNCHANGED schedVars
  OBVIOUS
<1>1. CASE UNCHANGED kernelVars
  BY <1>1 DEF kernelVars
<1>2. ASSUME NEW t \in Tables, NEW i \in {0, 1}, BootCapabilities(t, i)
      PROVE  UNCHANGED schedVars
  BY <1>2 DEF BootCapabilities
<1>3. CASE BootScheduler
  BY <1>3 DEF BootScheduler, SchedNext
<1>4. CASE Timer
  BY <1>4 DEF Timer, SchedNext
<1>5. ASSUME NEW t \in UserTasks, SYS_YIELD(t) \/ SYS_EXIT(t) PROVE SchedNext
  BY <1>5 DEF SYS_YIELD, SYS_EXIT, Syscall, SchedNext
<1>6. ASSUME NEW t \in UserTasks, NEW i \in Idx, NEW b \in Addrs,
             SYS_CAP_SEND(t, i, b) \/ SYS_CAP_RECV(t, i, b)
      PROVE  SchedNext \/ UNCHANGED schedVars
  BY <1>6, ScheduledStep DEF SYS_CAP_SEND, SYS_CAP_RECV
<1>7. ASSUME NEW t \in UserTasks, NEW b \in Bufs, NEW m \in Msgs, UserWrite(t, b, m)
      PROVE  UNCHANGED schedVars
  BY <1>7 DEF UserWrite
<1>8. QED BY <1>1, <1>2, <1>3, <1>4, <1>5, <1>6, <1>7 DEF KernelNext

\* The kernel core implements the scheduler (ImplementsSched), so the
\* theorems about SchedSpec hold of it: the system calls reach the scheduler
\* only through its own operations.
THEOREM KernelImplementsSched == KernelSpec => ImplementsSched
<1>1. KernelInit => SchedInit BY DEF KernelInit
<1>2. KernelSpec => []CapInv
  BY KernelImplementsCap, CapInvariant, PTL DEF ImplementsCap
<1>3. QED BY <1>1, <1>2, KernelSchedStep, PTL DEF KernelSpec, ImplementsSched, SchedSpec

----------------------------------------------------------------------------
(* Where a message address is used.                                         *)

\* A step that leaves the slots alone and changes only an endpoint that a
\* task holds, parking at most that task there.
LEMMA OwnSpaceUpdate ==
  ASSUME CapInv, ParkedInOwnSpace, UNCHANGED slots,
         NEW t \in Tables, NEW i \in Slots, Occupied(t, i), NEW ep,
         ep_pool' = [ep_pool EXCEPT ![slots[t][i].object] = ep],
         ep.state = "IDLE" \/ ep.parked_task_id = t
  PROVE  ParkedInOwnSpace'
<1> SUFFICES ASSUME NEW u \in Tables, NEW j \in Slots, Occupied(u, j)',
                    Endpoint(u, j)'.state # "IDLE"
             PROVE  Endpoint(u, j)'.parked_task_id = u
  BY DEF ParkedInOwnSpace
<1> DEFINE e == slots[t][i].object
           f == slots[u][j].object
<1>1. Occupied(u, j)
  BY DEF Occupied
<1>2. e \in Eps /\ f \in Eps /\ ep_pool \in [Eps -> EndpointType]
  BY <1>1 DEF CapInv, CapTypeOK, SlotsBehind
<1>3. Endpoint(u, j)' = IF f = e THEN ep ELSE ep_pool[f]
  BY <1>2 DEF Endpoint
<1>4. CASE f = e
  <2>1. u = t BY <1>1, <1>4 DEF CapInv, Isolation
  <2>2. QED BY <1>3, <1>4, <2>1
<1>5. CASE f # e
  BY <1>1, <1>3, <1>5 DEF ParkedInOwnSpace, Endpoint
<1>6. QED BY <1>4, <1>5

LEMMA IpcOwnSpace ==
  ASSUME CapInv, ParkedInOwnSpace, NEW t \in UserTasks, NEW i \in Idx, NEW b \in Addrs,
         cap_send(t, i, b, t) \/ cap_recv(t, i, b, t)
  PROVE  ParkedInOwnSpace'
<1> DEFINE e == slots[t][i].object
<1>0. t \in Tables /\ UNCHANGED slots
  BY KernelAssumption DEF cap_send, cap_recv
<1>1. CASE UNCHANGED ep_pool
  BY <1>0, <1>1 DEF ParkedInOwnSpace, Occupied, Endpoint
<1>2. CASE ep_pool' # ep_pool
  <2>1. /\ \/ cap_lookup(t, i, "ENDPOINT", {"SEND"}) = "OK"
           \/ cap_lookup(t, i, "ENDPOINT", {"RECV"}) = "OK"
        /\ \/ Rendezvous(e)
           \/ Park(e, "SEND_WAITING", b, t)
           \/ Park(e, "RECV_WAITING", b, t)
    BY <1>2 DEF cap_send, cap_recv
  <2>2. i \in Slots /\ Occupied(t, i)
    BY <2>1 DEF cap_lookup
  <2>3. ASSUME NEW w, Park(e, w, b, t) PROVE ParkedInOwnSpace'
    <3> DEFINE ep == [generation |-> ep_pool[e].generation, state |-> w,
                      pending_msg |-> b, parked_task_id |-> t]
    <3>1. ep_pool' = [ep_pool EXCEPT ![slots[t][i].object] = ep]
      BY <2>3 DEF Park
    <3>2. ep.parked_task_id = t
      OBVIOUS
    <3> HIDE DEF ep
    <3>3. QED BY <1>0, <2>2, <3>1, <3>2, OwnSpaceUpdate
  <2>4. CASE Rendezvous(e)
    <3> DEFINE ep == [generation |-> ep_pool[e].generation, state |-> "IDLE",
                      pending_msg |-> NULL, parked_task_id |-> 0]
    <3>1. ep_pool' = [ep_pool EXCEPT ![slots[t][i].object] = ep]
      BY <2>4 DEF Rendezvous
    <3>2. ep.state = "IDLE"
      OBVIOUS
    <3> HIDE DEF ep
    <3>3. QED BY <1>0, <2>2, <3>1, <3>2, OwnSpaceUpdate
  <2>5. QED BY <2>1, <2>3, <2>4
<1>3. QED BY <1>1, <1>2

\* A new endpoint is idle, and no slot referred to it before.
LEMMA CreateOwnSpace ==
  ASSUME CapInv, ParkedInOwnSpace, NEW t \in Tables, NEW i \in Idx,
         NEW r \in SUBSET Rights, cap_endpoint_create(t, i, r)
  PROVE  ParkedInOwnSpace'
<1>1. CASE UNCHANGED <<slots, ep_pool>>
  BY <1>1 DEF ParkedInOwnSpace, Occupied, Endpoint
<1>2. ASSUME NEW e \in Eps, i \in Slots, ep_pool_alloc(e),
             ep_pool' = [ep_pool EXCEPT ![e] = endpoint_init],
             slots' = [slots EXCEPT ![t][i] =
                         [type |-> "ENDPOINT", rights |-> r,
                          generation |-> 0, object |-> e]]
      PROVE  ParkedInOwnSpace'
  <2> DEFINE s == [type |-> "ENDPOINT", rights |-> r, generation |-> 0, object |-> e]
  <2>1. s \in SlotType
    BY CapAssumption DEF SlotType
  <2>2. \A u \in Tables, j \in Slots :
          slots'[u][j] = IF u = t /\ j = i THEN s ELSE slots[u][j]
    BY <1>2, <2>1, SlotUpdate DEF CapInv
  <2>3. /\ ep_pool'[e].state = "IDLE"
        /\ \A f \in Eps \ {e} : ep_pool'[f] = ep_pool[f]
    BY <1>2 DEF CapInv, CapTypeOK, endpoint_init
  <2>4. ASSUME NEW u \in Tables, NEW j \in Slots, Occupied(u, j)',
               Endpoint(u, j)'.state # "IDLE"
        PROVE  Endpoint(u, j)'.parked_task_id = u
    <3>1. slots'[u][j].object # e
      BY <2>3, <2>4 DEF Endpoint
    <3>2. slots'[u][j] = slots[u][j]
      BY <2>2, <3>1
    <3>3. Occupied(u, j)
      BY <2>4, <3>2 DEF Occupied
    <3>4. slots[u][j].object \in Eps
      BY <3>3 DEF CapInv, CapTypeOK, SlotsBehind
    <3>5. Endpoint(u, j)' = Endpoint(u, j)
      BY <2>3, <3>1, <3>2, <3>4 DEF Endpoint
    <3>6. QED BY <2>4, <3>3, <3>5 DEF ParkedInOwnSpace
  <2>5. QED BY <2>4 DEF ParkedInOwnSpace
<1>3. QED BY <1>1, <1>2 DEF cap_endpoint_create

LEMMA OwnSpaceNext ==
  CapInv /\ ParkedInOwnSpace /\ [KernelNext]_kernelVars => ParkedInOwnSpace'
<1> SUFFICES ASSUME CapInv, ParkedInOwnSpace, [KernelNext]_kernelVars
             PROVE  ParkedInOwnSpace'
  OBVIOUS
<1>1. CASE UNCHANGED <<slots, ep_pool>>
  BY <1>1 DEF ParkedInOwnSpace, Occupied, Endpoint
<1>2. ASSUME NEW t \in Tables, NEW i \in {0, 1}, BootCapabilities(t, i)
      PROVE  ParkedInOwnSpace'
  <2>1. i \in Idx /\ {"SEND", "RECV"} \in SUBSET Rights
    BY CapAssumption, KernelAssumption DEF Idx
  <2>2. QED BY <1>2, <2>1, CreateOwnSpace DEF BootCapabilities
<1>3. ASSUME NEW t \in UserTasks, NEW i \in Idx, NEW b \in Addrs,
             SYS_CAP_SEND(t, i, b) \/ SYS_CAP_RECV(t, i, b)
      PROVE  ParkedInOwnSpace'
  BY <1>3, IpcOwnSpace DEF SYS_CAP_SEND, SYS_CAP_RECV
<1>4. ASSUME NEW t \in UserTasks, NEW b \in Bufs, NEW m \in Msgs, UserWrite(t, b, m)
      PROVE  UNCHANGED <<slots, ep_pool>>
  BY <1>4 DEF UserWrite, WriteBuf
<1>5. ASSUME NEW t \in UserTasks, SYS_YIELD(t) \/ SYS_EXIT(t)
      PROVE  UNCHANGED <<slots, ep_pool>>
  BY <1>5 DEF SYS_YIELD, SYS_EXIT, capVars
<1>6. BootScheduler \/ Timer \/ UNCHANGED kernelVars => UNCHANGED <<slots, ep_pool>>
  BY DEF BootScheduler, Timer, kernelVars, capVars
<1>7. QED BY <1>1, <1>2, <1>3, <1>4, <1>5, <1>6 DEF KernelNext

\* The address a parked task left in its endpoint is dereferenced only while
\* that task's own page tables are loaded (ParkedInOwnSpace), for any number
\* of tasks: isolation of capability tables is what makes the raw user
\* pointer in pending_msg safe.
THEOREM KernelParkedInOwnSpace == KernelSpec => []ParkedInOwnSpace
<1>1. KernelInit => ParkedInOwnSpace
  BY DEF KernelInit, CapInit, ParkedInOwnSpace, Occupied, NullSlot
<1>2. KernelSpec => []CapInv
  BY KernelImplementsCap, CapInvariant, PTL DEF ImplementsCap
<1>3. QED BY <1>1, <1>2, OwnSpaceNext, PTL DEF KernelSpec
=============================================================================
