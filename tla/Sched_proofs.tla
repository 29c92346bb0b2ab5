---------------------------- MODULE Sched_proofs ----------------------------
(* Proofs about the scheduler, for every set of user tasks and every        *)
(* quantum.                                                                 *)
EXTENDS Sched, TLAPS

\* The boot path queues a task at most once, the idle task first.
QueueOK ==
  /\ \A j, k \in 1 .. Len(run_queue) : run_queue[j] = run_queue[k] => j = k
  /\ run_queue # <<>> => run_queue[1] = Idle

\* Until sched_start no task has run.
NotStarted ==
  sched_current = NoTask =>
    /\ \A t \in Tasks : /\ state[t] = "READY"
                        /\ ctx[t] = IF t = Idle THEN "exec" ELSE "fresh"

SchedInv == SchedTypeOK /\ QueueOK /\ NotStarted /\ OneRunning /\ InServiceOwner

LEMMA TasksNat == Tasks \subseteq Nat /\ NoTask \notin Tasks /\ Idle \in Tasks
<1>1. \A t \in UserTasks : t \in Nat
  BY SchedAssumption
<1>2. ASSUME NEW t \in Tasks PROVE t \in Nat
  <2>1. CASE t = Idle
    BY <2>1 DEF Idle
  <2>2. CASE t \in UserTasks
    BY <1>1, <2>2, Zenon
  <2>3. QED BY <2>1, <2>2 DEF Tasks
<1>3. QED BY <1>2, SchedAssumption DEF Tasks

LEMMA SchedInitInv == SchedInit => SchedInv
<1> SUFFICES ASSUME SchedInit PROVE SchedInv
  OBVIOUS
<1> USE TasksNat DEF SchedInit
<1>1. SchedTypeOK
  <2>1. /\ state \in [Tasks -> States]
        /\ ctx \in [Tasks -> Suspended \cup {"exec"}]
    BY DEF States, Suspended
  <2>2. ticks \in [Tasks -> 0 .. QUANTUM]
    BY SchedAssumption
  <2>3. run_queue \in Seq(Tasks) /\ current_idx \in Nat
    OBVIOUS
  <2>4. sched_current \in Tasks \cup {NoTask}
    BY Zenon
  <2>5. in_service \in BOOLEAN
    OBVIOUS
  <2>6. QED BY <2>1, <2>2, <2>3, <2>4, <2>5 DEF SchedTypeOK
<1>2. QueueOK /\ NotStarted /\ OneRunning
  BY DEF QueueOK, NotStarted, OneRunning
<1>3. InServiceOwner
  BY DEF InServiceOwner
<1>4. QED BY <1>1, <1>2, <1>3 DEF SchedInv

LEMMA ModNext ==
  ASSUME NEW n \in Nat, NEW c \in Nat, c < n
  PROVE  (c + 1) % n = IF c + 1 = n THEN 0 ELSE c + 1
  OBVIOUS

\* The queue position after the current one.
Succ == IF current_idx + 1 = Len(run_queue) THEN 0 ELSE current_idx + 1

LEMMA Successor ==
  ASSUME SchedInv, sched_current # NoTask
  PROVE  /\ Succ \in 0 .. Len(run_queue) - 1
         /\ (current_idx + 1) % Len(run_queue) = Succ
         /\ AtOffset(1) = run_queue[Succ + 1]
         /\ AtOffset(1) \in Tasks
         /\ sched_current \in Tasks
         /\ Len(run_queue) > 1 => AtOffset(1) # sched_current
         /\ Len(run_queue) = 1 => AtOffset(1) = sched_current
<1>1. /\ run_queue \in Seq(Tasks) /\ Len(run_queue) \in Nat
      /\ current_idx \in Nat /\ current_idx < Len(run_queue)
      /\ run_queue[current_idx + 1] = sched_current
  BY DEF SchedInv, SchedTypeOK, OneRunning
<1>2. (current_idx + 1) % Len(run_queue) = Succ
  BY <1>1, ModNext DEF Succ
<1>3. Succ \in 0 .. Len(run_queue) - 1
  BY <1>1 DEF Succ
<1>4. AtOffset(1) = run_queue[Succ + 1]
  BY <1>2 DEF AtOffset
<1>5. AtOffset(1) \in Tasks /\ sched_current \in Tasks
  BY <1>1, <1>3, <1>4
<1>6. Len(run_queue) > 1 => AtOffset(1) # sched_current
  <2>1. Len(run_queue) > 1 => Succ # current_idx
    BY <1>1 DEF Succ
  <2>2. QED BY <1>1, <1>3, <1>4, <2>1 DEF SchedInv, QueueOK
<1>7. Len(run_queue) = 1 => AtOffset(1) = sched_current
  BY <1>1, <1>4 DEF Succ
<1>8. QED BY <1>2, <1>3, <1>4, <1>5, <1>6, <1>7

\* With another task in the queue the search of next_ready stops at once.
LEMMA NextReady ==
  ASSUME SchedInv, sched_current # NoTask, NEW st, Len(run_queue) > 1,
         \A t \in Tasks \ {sched_current} : st[t] = "READY"
  PROVE  next_ready(st) = AtOffset(1)
<1> DEFINE R == {i \in 1 .. Len(run_queue) : st[AtOffset(i)] = "READY"}
           least == CHOOSE i \in R : \A j \in R : i <= j
<1>1. 1 \in 1 .. Len(run_queue)
  BY DEF SchedInv, SchedTypeOK
<1>2. 1 \in R
  BY <1>1, Successor
<1>3. \A j \in R : 1 <= j
  BY DEF SchedInv, SchedTypeOK
<1>4. least \in R /\ least <= 1
  BY <1>2, <1>3
<1>5. least = 1
  BY <1>3, <1>4 DEF SchedInv, SchedTypeOK
<1>6. next_ready(st) = AtOffset(least)
  BY <1>2 DEF next_ready
<1>7. QED BY <1>5, <1>6

\* Alone in the queue, the idle task finds nobody else.
LEMMA NextAlone ==
  ASSUME SchedInv, sched_current # NoTask, Len(run_queue) = 1
  PROVE  next_ready(state) = sched_current
<1>1. AtOffset(1) = sched_current /\ sched_current \in Tasks
  BY Successor
<1>2. state[sched_current] = "RUNNING"
  BY <1>1 DEF SchedInv, OneRunning
<1>3. {i \in 1 .. Len(run_queue) : state[AtOffset(i)] = "READY"} = {}
  BY <1>1, <1>2
<1>4. QED BY <1>3 DEF next_ready

LEMMA IdxOf ==
  ASSUME SchedInv, sched_current # NoTask
  PROVE  idx_of(AtOffset(1)) = Succ
<1>1. Succ \in 0 .. Len(run_queue) - 1 /\ run_queue[Succ + 1] = AtOffset(1)
  BY Successor
<1>2. ASSUME NEW k \in 0 .. Len(run_queue) - 1, run_queue[k + 1] = AtOffset(1)
      PROVE  k = Succ
  <2>1. k + 1 = Succ + 1
    BY <1>1, <1>2 DEF SchedInv, QueueOK, SchedTypeOK
  <2>2. QED BY <1>1, <1>2, <2>1
<1>3. QED BY <1>1, <1>2 DEF idx_of

\* A switch to the next task of the queue, whoever asked for it.
LEMMA SwitchInv ==
  ASSUME SchedInv, sched_current # NoTask, Len(run_queue) > 1,
         NEW st \in [Tasks -> States],
         \A t \in Tasks \ {sched_current} : st[t] = "READY",
         NEW why \in Suspended \ {"fresh"}, NEW held \in BOOLEAN,
         IF why = "tick" THEN held /\ ~in_service ELSE held <=> in_service,
         NEW tk \in [Tasks -> 0 .. QUANTUM],
         Switch(st, tk, AtOffset(1), why, held)
  PROVE  SchedInv' /\ current_idx' = (current_idx + 1) % Len(run_queue)
<1> DEFINE next == AtOffset(1)
<1>0. /\ next \in Tasks /\ sched_current \in Tasks /\ next # sched_current
      /\ Succ \in 0 .. Len(run_queue) - 1 /\ run_queue[Succ + 1] = next
      /\ current_idx' = Succ
  BY Successor, IdxOf DEF Switch
<1> HIDE DEF next
<1>1. /\ sched_current' = next /\ UNCHANGED run_queue
      /\ state' = [st EXCEPT ![sched_current] = "READY", ![next] = "RUNNING"]
      /\ ticks' = [tk EXCEPT ![next] = QUANTUM]
      /\ ctx' = [ctx EXCEPT ![sched_current] = why, ![next] = "exec"]
      /\ in_service' = (held /\ ctx[next] # "tick")
  BY DEF Switch, next, Acknowledged
<1>2. SchedTypeOK'
  <2>1. state' \in [Tasks -> States] /\ ticks' \in [Tasks -> 0 .. QUANTUM]
    BY <1>0, <1>1, SchedAssumption DEF SchedInv, SchedTypeOK, States
  <2>2. ctx' \in [Tasks -> Suspended \cup {"exec"}]
    BY <1>0, <1>1 DEF SchedInv, SchedTypeOK
  <2>3. run_queue' \in Seq(Tasks) /\ sched_current' \in Tasks \cup {NoTask}
    BY <1>0, <1>1 DEF SchedInv, SchedTypeOK
  <2>4. current_idx' \in Nat
    BY <1>0 DEF SchedInv, SchedTypeOK
  <2>5. in_service' \in BOOLEAN
    BY <1>1
  <2>6. QED BY <2>1, <2>2, <2>3, <2>4, <2>5 DEF SchedTypeOK
<1>3. QueueOK'
  BY <1>1 DEF SchedInv, QueueOK
<1>4. NotStarted'
  BY <1>0, <1>1, TasksNat DEF NotStarted
<1>5. OneRunning'
  <2>1. current_idx' < Len(run_queue') /\ run_queue'[current_idx' + 1] = sched_current'
    BY <1>0, <1>1 DEF SchedInv, SchedTypeOK
  <2>2. ASSUME NEW t \in Tasks
        PROVE  /\ state'[t] = IF t = next THEN "RUNNING" ELSE "READY"
               /\ ctx'[t] = "exec" <=> t = next
    BY <1>0, <1>1 DEF SchedInv, SchedTypeOK, OneRunning, Suspended
  <2>3. QED BY <1>1, <2>1, <2>2 DEF OneRunning
<1>6. InServiceOwner'
  <2>1. \A t \in Tasks : ctx'[t] = IF t = next THEN "exec"
                                   ELSE IF t = sched_current THEN why ELSE ctx[t]
    BY <1>0, <1>1 DEF SchedInv, SchedTypeOK
  <2>2. ctx[sched_current] = "exec"
    BY <1>0 DEF SchedInv, OneRunning
  <2>3. CASE why = "tick"
    <3>1. \A t \in Tasks : ctx[t] # "tick"
      BY <2>3 DEF SchedInv, InServiceOwner
    <3>2. in_service' = TRUE
      BY <1>0, <1>1, <2>3, <3>1
    <3>3. \A t \in Tasks : ctx'[t] = "tick" <=> t = sched_current
      BY <1>0, <2>1, <2>3, <3>1
    <3>4. QED BY <1>0, <3>2, <3>3 DEF InServiceOwner
  <2>4. CASE why # "tick"
    <3>1. \A t \in Tasks : ctx'[t] = "tick" <=> (ctx[t] = "tick" /\ t # next)
      BY <1>0, <2>1, <2>2, <2>4
    <3>2. in_service' <=> (in_service /\ ctx[next] # "tick")
      BY <1>1, <2>4
    <3>3. QED BY <1>0, <3>1, <3>2 DEF SchedInv, InServiceOwner
  <2>5. QED BY <2>3, <2>4
<1>7. current_idx' = (current_idx + 1) % Len(run_queue)
  BY <1>0, Successor
<1>8. QED BY <1>2, <1>3, <1>4, <1>5, <1>6, <1>7 DEF SchedInv

LEMMA AddInv ==
  ASSUME SchedInv, NEW t \in Tasks, sched_add(t)
  PROVE  SchedInv'
<1>1. /\ run_queue \in Seq(Tasks) /\ run_queue' = Append(run_queue, t)
      /\ sched_current = NoTask
      /\ UNCHANGED <<state, ticks, ctx, current_idx, sched_current, in_service>>
  BY DEF SchedInv, SchedTypeOK, sched_add
<1>2. SchedTypeOK'
  BY <1>1 DEF SchedInv, SchedTypeOK
<1>3. QueueOK'
  <2>1. /\ Len(run_queue') = Len(run_queue) + 1 /\ Len(run_queue) \in Nat
        /\ \A k \in 1 .. Len(run_queue) : run_queue'[k] = run_queue[k]
        /\ run_queue'[Len(run_queue) + 1] = t
    BY <1>1
  <2>2. \A k \in 1 .. Len(run_queue) : run_queue[k] # t
    BY <1>1 DEF sched_add
  <2>3. run_queue'[1] = Idle
    <3>1. CASE run_queue = <<>>
      BY <2>1, <3>1 DEF sched_add
    <3>2. CASE run_queue # <<>>
      <4>1. 1 \in 1 .. Len(run_queue)
        BY <1>1, <3>2
      <4>2. QED BY <2>1, <3>2, <4>1 DEF SchedInv, QueueOK
    <3>3. QED BY <3>1, <3>2
  <2>4. ASSUME NEW j \in 1 .. Len(run_queue'), NEW k \in 1 .. Len(run_queue'),
               run_queue'[j] = run_queue'[k]
        PROVE  j = k
    BY <2>1, <2>2, <2>4 DEF SchedInv, QueueOK
  <2>5. QED BY <2>3, <2>4 DEF QueueOK
<1>4. NotStarted' /\ OneRunning' /\ InServiceOwner'
  BY <1>1 DEF SchedInv, NotStarted, OneRunning, InServiceOwner
<1>5. QED BY <1>2, <1>3, <1>4 DEF SchedInv

LEMMA StartInv ==
  ASSUME SchedInv, sched_start
  PROVE  SchedInv'
<1>1. /\ sched_current = NoTask /\ UNCHANGED <<run_queue, in_service>>
      /\ run_queue \in Seq(Tasks) /\ Len(run_queue) \in Nat \ {0}
      /\ run_queue[1] = Idle /\ Idle \in Tasks /\ NoTask \notin Tasks
  BY TasksNat DEF SchedInv, SchedTypeOK, QueueOK, sched_start
<1>2. \A t \in Tasks : /\ state[t] = "READY"
                       /\ ctx[t] = IF t = Idle THEN "exec" ELSE "fresh"
  BY <1>1 DEF SchedInv, NotStarted
<1>3. /\ state \in [Tasks -> States] /\ ticks \in [Tasks -> 0 .. QUANTUM]
      /\ ctx \in [Tasks -> Suspended \cup {"exec"}]
  BY DEF SchedInv, SchedTypeOK
<1>4. in_service = FALSE
  BY <1>1, <1>2 DEF SchedInv, SchedTypeOK, InServiceOwner
<1>5. CASE Len(run_queue) > 1
  <2> DEFINE u == run_queue[2]
  <2>1. u \in Tasks /\ u # Idle
    BY <1>1, <1>5 DEF SchedInv, QueueOK
  <2> HIDE DEF u
  <2>2. /\ sched_current' = u /\ current_idx' = 1
        /\ state' = [state EXCEPT ![Idle] = "READY", ![u] = "RUNNING"]
        /\ ticks' = [ticks EXCEPT ![u] = QUANTUM]
        /\ ctx' = [ctx EXCEPT ![Idle] = "start", ![u] = "exec"]
    BY <1>1, <1>2, <1>5, <2>1 DEF sched_start, u
  <2>3. \A t \in Tasks :
          /\ state'[t] = IF t = u THEN "RUNNING" ELSE "READY"
          /\ ctx'[t] = IF t = u THEN "exec" ELSE IF t = Idle THEN "start" ELSE "fresh"
    BY <1>1, <1>2, <1>3, <2>1, <2>2
  <2>4. SchedTypeOK'
    <3>1. state' \in [Tasks -> States]
      BY <1>1, <1>3, <2>1, <2>2 DEF States
    <3>2. ctx' \in [Tasks -> Suspended \cup {"exec"}]
      BY <1>1, <1>3, <2>1, <2>2 DEF Suspended
    <3>3. ticks' \in [Tasks -> 0 .. QUANTUM]
      BY <1>3, <2>1, <2>2, SchedAssumption
    <3>4. QED BY <1>1, <1>4, <2>1, <2>2, <3>1, <3>2, <3>3 DEF SchedTypeOK
  <2>5. QueueOK' /\ NotStarted'
    BY <1>1, <2>1, <2>2 DEF SchedInv, QueueOK, NotStarted
  <2>6. OneRunning'
    <3>1. current_idx' < Len(run_queue') /\ run_queue'[current_idx' + 1] = sched_current'
      BY <1>1, <1>5, <2>2 DEF u
    <3>2. ASSUME NEW t \in Tasks PROVE ctx'[t] = "exec" <=> t = sched_current'
      <4>1. CASE t = u
        BY <2>2, <2>3, <4>1
      <4>2. CASE t # u
        <5>1. ctx'[t] = "start" \/ ctx'[t] = "fresh"
          BY <2>3, <4>2, Zenon
        <5>2. QED BY <2>2, <4>2, <5>1
      <4>3. QED BY <4>1, <4>2
    <3>3. \A t \in Tasks : state'[t] = IF t = sched_current' THEN "RUNNING" ELSE "READY"
      BY <2>2, <2>3
    <3>4. QED BY <3>1, <3>2, <3>3, Zenon DEF OneRunning
  <2>7. InServiceOwner'
    BY <1>1, <1>4, <2>3 DEF InServiceOwner
  <2>8. QED BY <2>4, <2>5, <2>6, <2>7 DEF SchedInv
<1>6. CASE ~(Len(run_queue) > 1)
  <2>1. /\ sched_current' = Idle /\ current_idx' = 0
        /\ state' = [state EXCEPT ![Idle] = "RUNNING"]
        /\ UNCHANGED <<ticks, ctx>>
    BY <1>1, <1>6 DEF sched_start
  <2>2. SchedTypeOK'
    BY <1>1, <1>3, <1>4, <2>1 DEF SchedTypeOK, States
  <2>3. QueueOK' /\ NotStarted'
    BY <1>1, <2>1 DEF SchedInv, QueueOK, NotStarted
  <2>4. OneRunning'
    BY <1>1, <1>2, <1>3, <2>1 DEF OneRunning
  <2>5. InServiceOwner'
    BY <1>1, <2>1 DEF SchedInv, InServiceOwner
  <2>6. QED BY <2>2, <2>3, <2>4, <2>5 DEF SchedInv
<1>7. QED BY <1>5, <1>6

\* What a step must do to the queue index for StrictRotation to hold.
Rotates == sched_current # NoTask /\ sched_current' # sched_current
           => current_idx' = (current_idx + 1) % Len(run_queue)

LEMMA OnlyTicks ==
  ASSUME SchedInv, ticks' \in [Tasks -> 0 .. QUANTUM],
         UNCHANGED <<state, ctx, run_queue, current_idx, sched_current, in_service>>
  PROVE  SchedInv' /\ Rotates
  BY DEF SchedInv, SchedTypeOK, QueueOK, NotStarted, OneRunning, InServiceOwner, Rotates

LEMMA TickInv ==
  ASSUME SchedInv, sched_tick
  PROVE  SchedInv' /\ Rotates
<1> DEFINE left == IF ticks[sched_current] > 0 THEN ticks[sched_current] - 1 ELSE 0
<1>1. sched_current # NoTask /\ ~in_service /\ sched_current \in Tasks
  BY Successor DEF sched_tick
<1>2. ticks[sched_current] \in 0 .. QUANTUM /\ ticks \in [Tasks -> 0 .. QUANTUM]
  BY <1>1 DEF SchedInv, SchedTypeOK
<1>3. left \in 0 .. QUANTUM
  BY <1>2, SchedAssumption
<1>4. ASSUME NEW k \in 0 .. QUANTUM, ticks' = [ticks EXCEPT ![sched_current] = k],
             UNCHANGED <<state, ctx, run_queue, current_idx, sched_current, in_service>>
      PROVE  SchedInv' /\ Rotates
  <2>1. ticks' \in [Tasks -> 0 .. QUANTUM]
    BY <1>1, <1>2, <1>4
  <2>2. QED BY <1>4, <2>1, OnlyTicks
<1>5. CASE /\ next_ready(state) # sched_current
           /\ Switch(state, [ticks EXCEPT ![sched_current] = 0], next_ready(state),
                     "tick", TRUE)
  <2> DEFINE tk == [ticks EXCEPT ![sched_current] = 0]
  <2>0. tk \in [Tasks -> 0 .. QUANTUM]
    BY <1>1, <1>2, SchedAssumption
  <2>1. /\ state \in [Tasks -> States]
        /\ \A t \in Tasks \ {sched_current} : state[t] = "READY"
        /\ "tick" \in Suspended \ {"fresh"}
    BY <1>1 DEF SchedInv, SchedTypeOK, OneRunning, Suspended
  <2>2. Len(run_queue) > 1
    <3>1. Len(run_queue) > 1 \/ Len(run_queue) = 1
      <4>1. run_queue \in Seq(Tasks) /\ current_idx \in Nat
        BY DEF SchedInv, SchedTypeOK
      <4>2. current_idx < Len(run_queue)
        BY <1>1 DEF SchedInv, OneRunning
      <4>3. Len(run_queue) \in Nat
        BY <4>1
      <4>4. \A c, n \in Nat : c < n => n > 1 \/ n = 1
        OBVIOUS
      <4>5. QED BY <4>1, <4>2, <4>3, <4>4, Zenon
    <3>2. Len(run_queue) # 1
      BY <1>1, <1>5, NextAlone
    <3>3. QED BY <3>1, <3>2
  <2>3. next_ready(state) = AtOffset(1)
    BY <1>1, <2>1, <2>2, NextReady
  <2>4. Switch(state, tk, AtOffset(1), "tick", TRUE)
    BY <1>5, <2>3
  <2> HIDE DEF tk
  <2>5. QED BY <1>1, <2>0, <2>1, <2>2, <2>4, SwitchInv DEF Rotates
<1>6. QUANTUM \in 0 .. QUANTUM
  BY SchedAssumption
<1>7. QED BY <1>3, <1>4, <1>5, <1>6 DEF sched_tick

\* A user task is never alone in the queue, so its sched_yield switches.
LEMMA YieldInv ==
  ASSUME SchedInv, NEW t \in UserTasks, sched_current = t, NEW s \in States,
         NEW why \in {"yield", "exit", "block"},
         NEW st, st = [state EXCEPT ![t] = s], sched_yield(st, why)
  PROVE  SchedInv' /\ Rotates
<1>1. sched_current # NoTask /\ sched_current # Idle /\ t \in Tasks
  BY SchedAssumption, TasksNat DEF Tasks, Idle
<1>2. /\ st \in [Tasks -> States]
      /\ \A u \in Tasks \ {sched_current} : st[u] = "READY"
  BY <1>1 DEF SchedInv, SchedTypeOK, OneRunning
<1>3. Len(run_queue) > 1
  <2>1. /\ Len(run_queue) \in Nat /\ current_idx \in Nat /\ current_idx < Len(run_queue)
        /\ run_queue[current_idx + 1] = sched_current
        /\ run_queue[1] = Idle
    BY <1>1 DEF SchedInv, SchedTypeOK, OneRunning, QueueOK
  <2>2. current_idx # 0
    BY <1>1, <2>1
  <2>3. QED BY <2>1, <2>2
<1>4. next_ready(st) = AtOffset(1) /\ AtOffset(1) # sched_current
  BY <1>1, <1>2, <1>3, NextReady, Successor
<1>5. Switch(st, ticks, AtOffset(1), why, in_service)
  BY <1>4 DEF sched_yield
<1>6. why \in Suspended \ {"fresh"} /\ why # "tick"
  BY DEF Suspended
<1>7. in_service \in BOOLEAN /\ ticks \in [Tasks -> 0 .. QUANTUM]
  BY DEF SchedInv, SchedTypeOK
<1>8. QED BY <1>1, <1>2, <1>3, <1>5, <1>6, <1>7, SwitchInv DEF Rotates

LEMMA SyscallInv ==
  ASSUME SchedInv, NEW t \in UserTasks, Syscall(t)
  PROVE  SchedInv' /\ Rotates
<1>0. t \in Tasks /\ {"DEAD", "BLOCKED", "RUNNING"} \subseteq States
  BY DEF Tasks, States
<1>1. CASE Yield(t)
  <2>1. state[t] \in States /\ state = [state EXCEPT ![t] = state[t]]
    BY <1>0 DEF SchedInv, SchedTypeOK
  <2>2. QED BY <1>1, <2>1, YieldInv DEF Yield
<1>2. CASE Exit(t)
  BY <1>0, <1>2, YieldInv DEF Exit
<1>3. CASE Block(t)
  BY <1>0, <1>3, YieldInv DEF Block, sched_block
<1>4. ASSUME NEW u \in Tasks, Unblock(t, u) PROVE SchedInv' /\ Rotates
  <2>1. sched_current = t /\ t # NoTask
    BY <1>0, <1>4, TasksNat DEF Unblock
  <2>2. state[u] # "BLOCKED"
    BY <2>1 DEF SchedInv, OneRunning
  <2>3. UNCHANGED <<state, ticks, ctx, run_queue, current_idx, sched_current, in_service>>
    BY <1>4, <2>2 DEF Unblock, sched_unblock
  <2>4. ticks' \in [Tasks -> 0 .. QUANTUM]
    BY <2>3 DEF SchedInv, SchedTypeOK
  <2>5. QED BY <2>3, <2>4, OnlyTicks
<1>5. QED BY <1>1, <1>2, <1>3, <1>4 DEF Syscall

LEMMA SchedNextInv == SchedInv /\ [SchedNext]_schedVars => SchedInv' /\ Rotates
<1> SUFFICES ASSUME SchedInv, [SchedNext]_schedVars PROVE SchedInv' /\ Rotates
  OBVIOUS
<1>1. CASE UNCHANGED schedVars
  <2>1. ticks' \in [Tasks -> 0 .. QUANTUM]
    BY <1>1 DEF schedVars, SchedInv, SchedTypeOK
  <2>2. QED BY <1>1, <2>1, OnlyTicks DEF schedVars
<1>2. ASSUME NEW t \in Tasks, sched_add(t) PROVE SchedInv' /\ Rotates
  BY <1>2, AddInv DEF sched_add, Rotates
<1>3. CASE sched_start
  BY <1>3, StartInv DEF sched_start, Rotates
<1>4. QED BY <1>1, <1>2, <1>3, TickInv, SyscallInv DEF SchedNext

\* The inductive invariant of the scheduler: the queue holds each task once,
\* and one task runs, all others being READY.
THEOREM SchedInvariant == SchedSpec => []SchedInv
  BY SchedInitInv, SchedNextInv, PTL DEF SchedSpec

\* Type correctness of the scheduler (SchedTypeOK).
THEOREM SchedTypeCorrect == SchedSpec => []SchedTypeOK
<1>1. SchedInv => SchedTypeOK BY DEF SchedInv
<1>2. QED BY <1>1, SchedInvariant, PTL

\* One task runs and every other one is READY (OneRunning), for any number
\* of tasks: BLOCKED and DEAD never survive the call that sets them.
THEOREM SchedOneRunning == SchedSpec => []OneRunning
<1>1. SchedInv => OneRunning BY DEF SchedInv
<1>2. QED BY <1>1, SchedInvariant, PTL

\* IRQ0 is in service exactly while one preempted task owes its
\* acknowledgement (InServiceOwner).
THEOREM SchedInServiceOwner == SchedSpec => []InServiceOwner
<1>1. SchedInv => InServiceOwner BY DEF SchedInv
<1>2. QED BY <1>1, SchedInvariant, PTL

\* Every switch is to the next task of the queue (StrictRotation).
THEOREM SchedStrictRotation == SchedSpec => StrictRotation
<1>1. SchedInv /\ [SchedNext]_schedVars
      => [sched_current # NoTask /\ sched_current' # sched_current
          => current_idx' = (current_idx + 1) % Len(run_queue)]_schedVars
  BY SchedNextInv DEF Rotates
<1>2. QED BY <1>1, SchedInvariant, PTL DEF SchedSpec, StrictRotation
=============================================================================
