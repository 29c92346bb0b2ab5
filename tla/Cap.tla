-------------------------------- MODULE Cap --------------------------------
(***************************************************************************)
(* The capability engine (kernel/cap.c, kernel/endpoint.c).                *)
(*                                                                         *)
(* A capability table is an array of slots; a slot is a typed reference to *)
(* an endpoint of the static pool, tagged with the generation the endpoint *)
(* had when the slot was filled.  Revocation bumps the endpoint's          *)
(* generation, which makes every slot that holds the old one stale.        *)
(*                                                                         *)
(* Every operation returns an error code, kept in `ret', and changes the   *)
(* rest of the state only when that code is CAP_OK.  An index one past the *)
(* table stands for every out-of-range index.  A bitfield of rights is the *)
(* set of its bits.                                                        *)
(*                                                                         *)
(* cap_send and cap_recv take the id of the current task (0: no task, or   *)
(* the kernel task): this module holds what they do to the endpoint and to *)
(* the message buffers, module Kernel adds what they do to the scheduler.  *)
(***************************************************************************)
EXTENDS Naturals

CONSTANTS
  Tables,      \* the capability tables, one per address space
  TABLE_SIZE,  \* CAP_TABLE_SIZE: slots of a table
  POOL_SIZE,   \* ENDPOINT_POOL_SIZE: endpoints of the static pool
  Rights,      \* the rights bits
  Callers,     \* ids sched_get_current() may report to cap_send/cap_recv
  Bufs,        \* addresses of message buffers mapped in the caller's space
  Msgs,        \* message contents
  MAX_GEN,     \* largest generation reached (2^64 - 1 in the code)
  NULL         \* the null pointer, which a caller may pass as well

ASSUME CapAssumption ==
  /\ TABLE_SIZE \in Nat \ {0}
  /\ POOL_SIZE \in Nat \ {0}
  /\ MAX_GEN \in Nat
  /\ {"SEND", "RECV"} \subseteq Rights
  /\ 0 \in Callers
  /\ NULL \notin Nat
  /\ NULL \notin [object : Nat, rights : SUBSET Rights]

VARIABLES
  slots,         \* table->slots[]
  ep_pool,       \* ep_pool[]
  ep_pool_used,  \* the endpoints e with ep_pool_used[e] = 1
  mem,           \* message buffers of each table's address space
  ret            \* error code of the last call

capVars == <<slots, ep_pool, ep_pool_used, mem, ret>>

Addrs == Bufs \cup {NULL}
Slots == 0 .. TABLE_SIZE - 1
Idx == 0 .. TABLE_SIZE            \* TABLE_SIZE: any index out of bounds
Eps == 0 .. POOL_SIZE - 1

Errors == {"OK", "NULL", "ACCESS", "RIGHTS", "STALE", "BOUNDS", "TYPE",
           "STATE", "POOL", "OCCUPIED"}

NullSlot == [type |-> "NULL", rights |-> {}, generation |-> 0, object |-> NULL]

SlotType == [type : {"NULL", "ENDPOINT"}, rights : SUBSET Rights,
             generation : 0 .. MAX_GEN, object : Eps \cup {NULL}]

\* endpoint_t; owner_task is written once and never read, and is left out.
EndpointType == [generation : 0 .. MAX_GEN,
                 state : {"IDLE", "SEND_WAITING", "RECV_WAITING"},
                 pending_msg : Addrs,
                 parked_task_id : Callers]

endpoint_init == [generation |-> 0, state |-> "IDLE",
                  pending_msg |-> NULL, parked_task_id |-> 0]

Occupied(t, i) == slots[t][i].type # "NULL"
Endpoint(t, i) == ep_pool[slots[t][i].object]

\* The slot's generation is no longer its endpoint's.
Stale(t, i) == /\ slots[t][i].type = "ENDPOINT"
               /\ Endpoint(t, i).generation # slots[t][i].generation

\* Slot i of table t is a capability for endpoint e that still works.
Names(t, i, e) == Occupied(t, i) /\ ~Stale(t, i) /\ slots[t][i].object = e

----------------------------------------------------------------------------

\* cap_table_init has run on every table; the pool is in zeroed storage.
CapInit ==
  /\ slots = [t \in Tables |-> [i \in Slots |-> NullSlot]]
  /\ ep_pool = [e \in Eps |-> endpoint_init]
  /\ ep_pool_used = {}
  /\ mem \in [Tables -> [Bufs -> Msgs]]
  /\ ret = "OK"

\* The error cap_lookup returns, with the checks in the code's order.
cap_lookup(t, i, type, required) ==
  IF i \notin Slots THEN "BOUNDS"
  ELSE IF ~Occupied(t, i) THEN "NULL"
  ELSE IF slots[t][i].type # type THEN "TYPE"
  ELSE IF Stale(t, i) THEN "STALE"
  ELSE IF ~(required \subseteq slots[t][i].rights) THEN "ACCESS"
  ELSE "OK"

\* Mutant: the endpoint found is not tested for being used.
AllocUnchecked(e) == /\ e \in Eps
                     /\ \A f \in Eps : f < e => f \in ep_pool_used

\* e is what ep_pool_alloc returns: the unused endpoint with least index.
ep_pool_alloc(e) == /\ e \in Eps \ ep_pool_used
                    /\ \A f \in Eps : f < e => f \in ep_pool_used

cap_free_slot(t, i) ==
  /\ ret' = IF i \notin Slots THEN "BOUNDS" ELSE "OK"
  /\ slots' = IF i \notin Slots THEN slots
              ELSE [slots EXCEPT ![t][i] = NullSlot]
  /\ UNCHANGED <<ep_pool, ep_pool_used, mem>>

\* Mutant: the child's rights are not compared with the parent's.
DeriveAmplifies(t, src, dst, child) ==
  IF src \notin Slots \/ dst \notin Slots THEN "BOUNDS"
  ELSE IF ~Occupied(t, src) THEN "NULL"
  ELSE IF Stale(t, src) THEN "STALE"
  ELSE IF Occupied(t, dst) THEN "OCCUPIED"
  ELSE "OK"

\* The checks of cap_derive, in order.
DeriveError(t, src, dst, child) ==
  IF src \notin Slots \/ dst \notin Slots THEN "BOUNDS"
  ELSE IF ~Occupied(t, src) THEN "NULL"
  ELSE IF Stale(t, src) THEN "STALE"
  ELSE IF ~(child \subseteq slots[t][src].rights) THEN "RIGHTS"
  ELSE IF Occupied(t, dst) THEN "OCCUPIED"
  ELSE "OK"

cap_derive(t, src, dst, child) ==
  LET err == DeriveError(t, src, dst, child) IN
  /\ ret' = err
  /\ slots' = IF err # "OK" THEN slots
              ELSE [slots EXCEPT ![t][dst] =
                      [type |-> slots[t][src].type, rights |-> child,
                       generation |-> slots[t][src].generation,
                       object |-> slots[t][src].object]]
  /\ UNCHANGED <<ep_pool, ep_pool_used, mem>>

\* The pool is searched only once the slot is known to be free.
cap_endpoint_create(t, i, rights) ==
  /\ UNCHANGED mem
  /\ \/ /\ i \notin Slots
        /\ ret' = "BOUNDS"
        /\ UNCHANGED <<slots, ep_pool, ep_pool_used>>
     \/ /\ i \in Slots /\ Occupied(t, i)
        /\ ret' = "OCCUPIED"
        /\ UNCHANGED <<slots, ep_pool, ep_pool_used>>
     \/ /\ i \in Slots /\ ~Occupied(t, i) /\ Eps \subseteq ep_pool_used
        /\ ret' = "POOL"
        /\ UNCHANGED <<slots, ep_pool, ep_pool_used>>
     \/ /\ i \in Slots /\ ~Occupied(t, i)
        /\ \E e \in Eps :
             /\ ep_pool_alloc(e)
             /\ ep_pool_used' = ep_pool_used \cup {e}
             /\ ep_pool' = [ep_pool EXCEPT ![e] = endpoint_init]
             /\ slots' = [slots EXCEPT ![t][i] =
                            [type |-> "ENDPOINT", rights |-> rights,
                             generation |-> 0, object |-> e]]
        /\ ret' = "OK"

\* Mutant: the generation is bumped by the caller and again here.
RevokeTwice(ep) ==
  [generation |-> ep.generation + 2, state |-> "IDLE",
   pending_msg |-> NULL, parked_task_id |-> 0]

\* endpoint_revoke: the parked task, if any, is forgotten, not woken.
endpoint_revoke(ep) ==
  [generation |-> ep.generation + 1, state |-> "IDLE",
   pending_msg |-> NULL, parked_task_id |-> 0]

\* Mutant: the generation is a single bit, so it comes round again.
GenerationBit(t, i) ==
  /\ UNCHANGED <<slots, ep_pool_used, mem>>
  /\ i \in Slots /\ slots[t][i].type = "ENDPOINT"
  /\ ep_pool' = [ep_pool EXCEPT ![slots[t][i].object] =
                   [endpoint_init EXCEPT !.generation = 1 - Endpoint(t, i).generation]]
  /\ ret' = "OK"

\* Neither the slot's generation nor its rights are checked.
cap_revoke_endpoint(t, i) ==
  /\ UNCHANGED <<slots, ep_pool_used, mem>>
  /\ \/ /\ i \notin Slots
        /\ ret' = "BOUNDS"
        /\ UNCHANGED ep_pool
     \/ /\ i \in Slots /\ slots[t][i].type # "ENDPOINT"
        /\ ret' = "TYPE"
        /\ UNCHANGED ep_pool
     \/ /\ i \in Slots /\ slots[t][i].type = "ENDPOINT"
        /\ Endpoint(t, i).generation < MAX_GEN
        /\ ep_pool' = [ep_pool EXCEPT ![slots[t][i].object] =
                       endpoint_revoke(Endpoint(t, i))]
        /\ ret' = "OK"

----------------------------------------------------------------------------
(* Synchronous IPC.  pending_msg is an address, and it is dereferenced in   *)
(* the address space of whoever completes the rendezvous.  No call checks   *)
(* for a null message: one that is parked is as good as none, since the     *)
(* partner then copies nothing.                                             *)

\* Mutant: the pending pointer is left behind.
LeavesPending(e) ==
  ep_pool' = [ep_pool EXCEPT ![e].state = "IDLE", ![e].parked_task_id = 0]

\* A partner is parked on the endpoint: the rendezvous completes at once.
Rendezvous(e) ==
  ep_pool' = [ep_pool EXCEPT ![e] =
                [generation |-> ep_pool[e].generation, state |-> "IDLE",
                 pending_msg |-> NULL, parked_task_id |-> 0]]

\* No partner yet: the caller parks, and its buffer's address is kept.
Park(e, waiting, buf, cur) ==
  ep_pool' = [ep_pool EXCEPT ![e] =
                [generation |-> ep_pool[e].generation, state |-> waiting,
                 pending_msg |-> buf, parked_task_id |-> cur]]

\* What a rendezvous copies when `parked' is the address on the endpoint and
\* `mine' the caller's.  A caller that passes null where there is something
\* to copy faults in ring 0 before anything is written, and isr_handler halts
\* the machine: that is no step.
Copied(t, parked, mine, from, to) ==
  \/ parked = NULL /\ UNCHANGED mem
  \/ /\ parked # NULL /\ mine # NULL
     /\ mem' = [mem EXCEPT ![t][to] = mem[t][from]]

cap_send(t, i, buf, cur) ==
  LET err == cap_lookup(t, i, "ENDPOINT", {"SEND"})
      e == slots[t][i].object IN
  /\ UNCHANGED <<slots, ep_pool_used>>
  /\ \/ /\ err # "OK"
        /\ ret' = err
        /\ UNCHANGED <<ep_pool, mem>>
     \/ /\ err = "OK" /\ ep_pool[e].state = "RECV_WAITING"
        /\ Copied(t, ep_pool[e].pending_msg, buf, buf, ep_pool[e].pending_msg)
        /\ Rendezvous(e)
        /\ ret' = "OK"
     \/ /\ err = "OK" /\ ep_pool[e].state = "IDLE"
        /\ Park(e, "SEND_WAITING", buf, cur)
        /\ ret' = "OK"
        /\ UNCHANGED mem
     \/ /\ err = "OK" /\ ep_pool[e].state = "SEND_WAITING"
        /\ ret' = "STATE"
        /\ UNCHANGED <<ep_pool, mem>>

cap_recv(t, i, buf, cur) ==
  LET err == cap_lookup(t, i, "ENDPOINT", {"RECV"})
      e == slots[t][i].object IN
  /\ UNCHANGED <<slots, ep_pool_used>>
  /\ \/ /\ err # "OK"
        /\ ret' = err
        /\ UNCHANGED <<ep_pool, mem>>
     \/ /\ err = "OK" /\ ep_pool[e].state = "SEND_WAITING"
        /\ Copied(t, ep_pool[e].pending_msg, buf, ep_pool[e].pending_msg, buf)
        /\ Rendezvous(e)
        /\ ret' = "OK"
     \/ /\ err = "OK" /\ ep_pool[e].state = "IDLE"
        /\ Park(e, "RECV_WAITING", buf, cur)
        /\ ret' = "OK"
        /\ UNCHANGED mem
     \/ /\ err = "OK" /\ ep_pool[e].state = "RECV_WAITING"
        /\ ret' = "STATE"
        /\ UNCHANGED <<ep_pool, mem>>

\* The owner of a buffer fills it in.
WriteBuf(t, buf, m) ==
  /\ mem' = [mem EXCEPT ![t][buf] = m]
  /\ UNCHANGED <<slots, ep_pool, ep_pool_used, ret>>

CapNext ==
  \E t \in Tables, i \in Idx :
    \/ cap_free_slot(t, i)
    \/ \E dst \in Idx, r \in SUBSET Rights : cap_derive(t, i, dst, r)
    \/ \E r \in SUBSET Rights : cap_endpoint_create(t, i, r)
    \/ cap_revoke_endpoint(t, i)
    \/ \E b \in Addrs, cur \in Callers : cap_send(t, i, b, cur)
    \/ \E b \in Addrs, cur \in Callers : cap_recv(t, i, b, cur)
    \/ \E b \in Bufs, m \in Msgs : WriteBuf(t, b, m)

CapSpec == CapInit /\ [][CapNext]_capVars

----------------------------------------------------------------------------
(* Properties.                                                              *)

\* Every variable has its type; pending messages point to message buffers.
CapTypeOK ==
  /\ slots \in [Tables -> [Slots -> SlotType]]
  /\ ep_pool \in [Eps -> EndpointType]
  /\ ep_pool_used \subseteq Eps
  /\ mem \in [Tables -> [Bufs -> Msgs]]
  /\ ret \in Errors

\* Isolation (cap.h, property 1 "no ambient authority"): the capabilities
\* for an endpoint, the stale ones too, all lie in one table, because an
\* endpoint is bound to the table it was created in and cap_derive copies
\* only inside a table.
Isolation ==
  \A t, u \in Tables, i, j \in Slots :
    /\ Occupied(t, i) /\ Occupied(u, j)
    /\ slots[t][i].object = slots[u][j].object
    => t = u

\* No resurrection (cap.h, property 2): once no working capability for a
\* used endpoint is left, because it was revoked or because every slot was
\* freed, none ever appears again, in any table.
NoResurrection ==
  [][\A e \in ep_pool_used :
       (\A t \in Tables, i \in Slots : ~Names(t, i, e))
       => (\A t \in Tables, i \in Slots : ~Names(t, i, e)')]_capVars

\* Rendezvous state: an address or a task is kept on an endpoint only while
\* someone is parked on it, whatever order of sends, receives, revocations
\* and re-use led there, so that no rendezvous writes through a leftover
\* pointer or wakes a task that waits for something else; and a free endpoint
\* carries nothing over to its next owner.
EndpointConsistent ==
  \A e \in Eps :
    /\ ep_pool[e].state = "IDLE"
       => ep_pool[e].pending_msg = NULL /\ ep_pool[e].parked_task_id = 0
    /\ e \notin ep_pool_used => ep_pool[e] = endpoint_init

\* The authority a slot stands for: it counts while the slot is occupied and
\* its generation is current.
Handle(t, i) ==
  IF Occupied(t, i) /\ ~Stale(t, i)
  THEN [object |-> slots[t][i].object, rights |-> slots[t][i].rights]
  ELSE NULL

AuthView == [t \in Tables |-> [i \in Slots |-> Handle(t, i)]]

Authority == INSTANCE CapAuthority
  WITH Objects <- Eps, None <- NULL, auth <- AuthView, minted <- ep_pool_used

\* The engine implements CapAuthority: authority never grows except with a
\* new endpoint or by attenuation inside a table, and shrinks only one handle
\* at a time (cap_free) or, when cap_revoke_endpoint bumps a counter, by all
\* the capabilities for one endpoint in that same step.
ImplementsAuthority == Authority!AuthSpec
=============================================================================
