---------------------------- MODULE Cap_proofs ----------------------------
(* Proofs about the capability engine, for every number of tables, slots    *)
(* and endpoints and every set of rights and callers.                       *)
EXTENDS Cap, TLAPS

\* What a slot must satisfy for revocation to be permanent: it refers to a
\* used endpoint and its generation is not ahead of the endpoint's.
SlotsBehind ==
  \A t \in Tables, i \in Slots :
    Occupied(t, i) =>
      /\ slots[t][i].object \in ep_pool_used
      /\ slots[t][i].generation <= Endpoint(t, i).generation

CapInv == CapTypeOK /\ SlotsBehind /\ Isolation /\ EndpointConsistent

USE DEF Slots, Idx, Eps

LEMMA InitInv == CapInit => CapInv
  BY CapAssumption DEF CapInit, CapInv, CapTypeOK, SlotsBehind, Isolation,
     EndpointConsistent, NullSlot, SlotType, EndpointType, endpoint_init, Occupied, Errors,
     Addrs

LEMMA FreeInv ==
  ASSUME CapInv, NEW t \in Tables, NEW i \in Idx, cap_free_slot(t, i)
  PROVE  CapInv'
<1>1. CapTypeOK'
  BY CapAssumption DEF CapInv, CapTypeOK, cap_free_slot, SlotType, NullSlot, Errors
<1>2. SlotsBehind'
  BY CapAssumption DEF CapInv, CapTypeOK, cap_free_slot, SlotType, NullSlot, SlotsBehind, Occupied, Endpoint
<1>3. Isolation'
  BY CapAssumption DEF CapInv, CapTypeOK, cap_free_slot, SlotType, NullSlot, Isolation, Occupied
<1>4. EndpointConsistent'
  BY DEF CapInv, cap_free_slot, EndpointConsistent
<1>5. QED BY <1>1, <1>2, <1>3, <1>4 DEF CapInv

\* Writing one slot of one table leaves every other slot alone.
LEMMA SlotUpdate ==
  ASSUME CapTypeOK, NEW t \in Tables, NEW i \in Slots, NEW s \in SlotType,
         slots' = [slots EXCEPT ![t][i] = s]
  PROVE  /\ slots' \in [Tables -> [Slots -> SlotType]]
         /\ \A u \in Tables, j \in Slots :
              slots'[u][j] = IF u = t /\ j = i THEN s ELSE slots[u][j]
  BY DEF CapTypeOK

\* A derivation either fails and changes no slot, or copies a live slot.
LEMMA DeriveCases ==
  ASSUME CapTypeOK, NEW t \in Tables, NEW src \in Idx, NEW dst \in Idx,
         NEW child \in SUBSET Rights, cap_derive(t, src, dst, child)
  PROVE  /\ ret' \in Errors
         /\ UNCHANGED <<ep_pool, ep_pool_used, mem>>
         /\ \/ slots' = slots
            \/ /\ src \in Slots /\ dst \in Slots
               /\ Occupied(t, src) /\ ~Stale(t, src) /\ ~Occupied(t, dst)
               /\ child \subseteq slots[t][src].rights
               /\ slots' = [slots EXCEPT ![t][dst] =
                              [type |-> slots[t][src].type, rights |-> child,
                               generation |-> slots[t][src].generation,
                               object |-> slots[t][src].object]]
<1>1. ret' = DeriveError(t, src, dst, child)
  BY DEF cap_derive
<1>2. ret' \in Errors
  BY <1>1 DEF DeriveError, Errors
<1>3. CASE DeriveError(t, src, dst, child) # "OK"
  BY <1>2, <1>3 DEF cap_derive
<1>4. CASE DeriveError(t, src, dst, child) = "OK"
  <2>1. /\ src \in Slots /\ dst \in Slots
        /\ Occupied(t, src) /\ ~Stale(t, src) /\ ~Occupied(t, dst)
        /\ child \subseteq slots[t][src].rights
    BY <1>4 DEF DeriveError
  <2>2. QED BY <1>2, <1>4, <2>1 DEF cap_derive
<1>5. QED BY <1>3, <1>4

LEMMA DeriveInv ==
  ASSUME CapInv, NEW t \in Tables, NEW src \in Idx, NEW dst \in Idx,
         NEW child \in SUBSET Rights, cap_derive(t, src, dst, child)
  PROVE  CapInv'
<1>0. CapTypeOK BY DEF CapInv
<1>1. EndpointConsistent'
  BY DEF CapInv, cap_derive, EndpointConsistent
<1>a. ret' \in Errors /\ UNCHANGED <<ep_pool, ep_pool_used, mem>>
  BY <1>0, DeriveCases
<1>2. CASE slots' = slots
  BY <1>0, <1>1, <1>2, <1>a
     DEF CapInv, CapTypeOK, SlotsBehind, Isolation, Occupied, Endpoint
<1>3. CASE slots' # slots
  <2> DEFINE s == [type |-> slots[t][src].type, rights |-> child,
                     generation |-> slots[t][src].generation,
                     object |-> slots[t][src].object]
  <2>1. /\ src \in Slots /\ dst \in Slots /\ Occupied(t, src)
        /\ slots' = [slots EXCEPT ![t][dst] = s]
        /\ ret' \in Errors
        /\ UNCHANGED <<ep_pool, ep_pool_used, mem>>
    BY <1>0, <1>3, DeriveCases
  <2>2. /\ s \in SlotType
        /\ s.type = slots[t][src].type /\ s.object = slots[t][src].object
        /\ s.generation = slots[t][src].generation
    BY <1>0, <2>1 DEF CapTypeOK, SlotType
  <2>3. /\ slots' \in [Tables -> [Slots -> SlotType]]
        /\ \A u \in Tables, j \in Slots :
             slots'[u][j] = IF u = t /\ j = dst THEN s ELSE slots[u][j]
    <3> HIDE DEF s
    <3>1. QED BY <1>0, <2>1, <2>2, SlotUpdate
  <2> HIDE DEF s
  <2>4. CapTypeOK'
    BY <1>0, <2>1, <2>3 DEF CapTypeOK
  <2>8. ASSUME NEW u \in Tables, NEW j \in Slots, Occupied(u, j)'
        PROVE  \E k \in Slots : /\ Occupied(u, k)
                                /\ slots'[u][j].object = slots[u][k].object
                                /\ slots'[u][j].generation = slots[u][k].generation
    BY <2>1, <2>2, <2>3, <2>8 DEF Occupied
  <2>5. SlotsBehind'
    BY <2>1, <2>8 DEF CapInv, SlotsBehind, Endpoint
  <2>6. Isolation'
    BY <2>8 DEF CapInv, Isolation
  <2>7. QED BY <1>1, <2>4, <2>5, <2>6 DEF CapInv
<1>4. QED BY <1>2, <1>3

LEMMA CreateInv ==
  ASSUME CapInv, NEW t \in Tables, NEW i \in Idx, NEW r \in SUBSET Rights,
         cap_endpoint_create(t, i, r)
  PROVE  CapInv'
<1>0. CapTypeOK BY DEF CapInv
<1>a. UNCHANGED mem BY DEF cap_endpoint_create
<1>1. CASE UNCHANGED <<slots, ep_pool, ep_pool_used>> /\ ret' \in Errors
  BY <1>0, <1>1, <1>a DEF CapInv, CapTypeOK, SlotsBehind, Isolation,
     EndpointConsistent, Occupied, Endpoint
<1>2. ASSUME NEW e \in Eps, i \in Slots, ep_pool_alloc(e), ret' = "OK",
             ep_pool_used' = ep_pool_used \cup {e},
             ep_pool' = [ep_pool EXCEPT ![e] = endpoint_init],
             slots' = [slots EXCEPT ![t][i] =
                         [type |-> "ENDPOINT", rights |-> r,
                          generation |-> 0, object |-> e]]
      PROVE CapInv'
  <2> DEFINE s == [type |-> "ENDPOINT", rights |-> r, generation |-> 0, object |-> e]
  <2>1. s \in SlotType
    BY CapAssumption DEF SlotType
  <2>2. /\ slots' \in [Tables -> [Slots -> SlotType]]
        /\ \A u \in Tables, j \in Slots :
             slots'[u][j] = IF u = t /\ j = i THEN s ELSE slots[u][j]
    BY <1>0, <1>2, <2>1, SlotUpdate
  <2>3. e \notin ep_pool_used
    BY <1>2 DEF ep_pool_alloc
  <2>4. endpoint_init \in EndpointType
    BY CapAssumption DEF endpoint_init, EndpointType, Addrs
  <2>5. CapTypeOK'
    BY <1>0, <1>2, <2>2, <2>4 DEF CapTypeOK, Errors, cap_endpoint_create
  <2>6. SlotsBehind'
    <3> SUFFICES ASSUME NEW u \in Tables, NEW j \in Slots, Occupied(u, j)'
                 PROVE  /\ slots'[u][j].object \in ep_pool_used'
                        /\ slots'[u][j].generation <= ep_pool'[slots'[u][j].object].generation
      BY DEF SlotsBehind, Endpoint
    <3>1. CASE u = t /\ j = i
      BY <1>0, <1>2, <2>2, <3>1 DEF CapTypeOK, endpoint_init
    <3>2. CASE ~(u = t /\ j = i)
      <4>1. slots'[u][j] = slots[u][j] /\ Occupied(u, j)
        BY <2>2, <3>2 DEF Occupied
      <4>2. /\ slots[u][j].object \in ep_pool_used
            /\ slots[u][j].generation <= ep_pool[slots[u][j].object].generation
        BY <4>1 DEF CapInv, SlotsBehind, Endpoint
      <4>3. slots[u][j].object # e
        BY <2>3, <4>2
      <4>4. QED BY <1>0, <1>2, <4>1, <4>2, <4>3 DEF CapTypeOK
    <3>3. QED BY <3>1, <3>2
  <2>7. Isolation'
    <3> SUFFICES ASSUME NEW u \in Tables, NEW v \in Tables,
                        NEW j \in Slots, NEW k \in Slots,
                        Occupied(u, j)', Occupied(v, k)',
                        slots'[u][j].object = slots'[v][k].object
                 PROVE  u = v
      BY DEF Isolation
    <3>1. ASSUME NEW w \in Tables, NEW l \in Slots, Occupied(w, l)
          PROVE  slots[w][l].object # e
      BY <2>3, <3>1 DEF CapInv, SlotsBehind
    <3>2. QED BY <2>2, <3>1 DEF CapInv, Isolation, Occupied
  <2>8. EndpointConsistent'
    BY <1>0, <1>2 DEF CapInv, CapTypeOK, EndpointConsistent, endpoint_init
  <2>9. QED BY <2>5, <2>6, <2>7, <2>8 DEF CapInv
<1>3. QED
  BY <1>1, <1>2 DEF cap_endpoint_create, Errors

LEMMA RevokeInv ==
  ASSUME CapInv, NEW t \in Tables, NEW i \in Idx, cap_revoke_endpoint(t, i)
  PROVE  CapInv'
<1>0. CapTypeOK /\ UNCHANGED <<slots, ep_pool_used, mem>>
  BY DEF CapInv, cap_revoke_endpoint
<1>1. CASE UNCHANGED ep_pool /\ ret' \in Errors
  BY <1>0, <1>1 DEF CapInv, CapTypeOK, SlotsBehind, Isolation, EndpointConsistent,
     Occupied, Endpoint
<1>2. ASSUME i \in Slots, slots[t][i].type = "ENDPOINT", ret' = "OK",
             Endpoint(t, i).generation < MAX_GEN,
             ep_pool' = [ep_pool EXCEPT ![slots[t][i].object] =
                           endpoint_revoke(Endpoint(t, i))]
      PROVE CapInv'
  <2> DEFINE e == slots[t][i].object
  <2>1. e \in ep_pool_used /\ e \in Eps
    BY <1>0, <1>2 DEF CapInv, CapTypeOK, SlotsBehind, Occupied
  <2>2. /\ endpoint_revoke(ep_pool[e]) \in EndpointType
        /\ ep_pool[e].generation < endpoint_revoke(ep_pool[e]).generation
    BY <1>0, <1>2, <2>1, CapAssumption
       DEF CapTypeOK, EndpointType, Addrs, endpoint_revoke, Endpoint
  <2>3. CapTypeOK'
    BY <1>0, <1>2, <2>1, <2>2 DEF CapTypeOK, Errors, Endpoint
  <2>4. \A f \in Eps : ep_pool[f].generation <= ep_pool'[f].generation
    BY <1>0, <1>2, <2>1, <2>2, CapAssumption DEF CapTypeOK, EndpointType, Endpoint
  <2>5. SlotsBehind'
    <3> SUFFICES ASSUME NEW u \in Tables, NEW j \in Slots, Occupied(u, j)
                 PROVE  /\ slots[u][j].object \in ep_pool_used
                        /\ slots[u][j].generation <= ep_pool'[slots[u][j].object].generation
      BY <1>0 DEF SlotsBehind, Endpoint, Occupied
    <3>1. /\ slots[u][j].object \in ep_pool_used
          /\ slots[u][j].generation <= ep_pool[slots[u][j].object].generation
      BY DEF CapInv, SlotsBehind, Endpoint
    <3>2. slots[u][j].object \in Eps
      BY <1>0, <3>1 DEF CapTypeOK
    <3>3. /\ slots[u][j].generation \in Nat
          /\ ep_pool[slots[u][j].object].generation \in Nat
          /\ ep_pool'[slots[u][j].object].generation \in Nat
      BY <1>0, <2>3, <3>2, CapAssumption DEF CapTypeOK, SlotType, EndpointType
    <3>4. QED BY <2>4, <3>1, <3>2, <3>3
  <2>6. Isolation'
    BY <1>0 DEF CapInv, Isolation, Occupied
  <2>7. EndpointConsistent'
    BY <1>0, <1>2, <2>1 DEF CapInv, CapTypeOK, EndpointConsistent, endpoint_revoke, endpoint_init
  <2>8. QED BY <2>3, <2>5, <2>6, <2>7 DEF CapInv
<1>3. QED
  BY <1>1, <1>2 DEF cap_revoke_endpoint, Errors

\* A step that only moves the rendezvous state of a used endpoint, to a
\* state that agrees with its pending message, and writes message buffers.
LEMMA IpcInv ==
  ASSUME CapInv, NEW e \in ep_pool_used, NEW w \in EndpointType,
         w.generation = ep_pool[e].generation,
         w.state = "IDLE" => w.pending_msg = NULL /\ w.parked_task_id = 0,
         ep_pool' = [ep_pool EXCEPT ![e] = w],
         UNCHANGED <<slots, ep_pool_used>>,
         mem' \in [Tables -> [Bufs -> Msgs]], ret' \in Errors
  PROVE  CapInv'
<1>0. CapTypeOK BY DEF CapInv
<1>1. CapTypeOK'
  BY <1>0 DEF CapTypeOK
<1>2. \A f \in Eps : ep_pool'[f].generation = ep_pool[f].generation
  BY <1>0 DEF CapTypeOK
<1>3. SlotsBehind'
  <2> SUFFICES ASSUME NEW u \in Tables, NEW j \in Slots, Occupied(u, j)
               PROVE  /\ slots[u][j].object \in ep_pool_used
                      /\ slots[u][j].generation <= ep_pool'[slots[u][j].object].generation
    BY DEF SlotsBehind, Endpoint, Occupied
  <2>1. QED BY <1>0, <1>2 DEF CapInv, CapTypeOK, SlotsBehind, Endpoint
<1>4. Isolation'
  BY DEF CapInv, Isolation, Occupied
<1>5. EndpointConsistent'
  BY <1>0 DEF CapInv, CapTypeOK, EndpointConsistent
<1>6. QED BY <1>1, <1>3, <1>4, <1>5 DEF CapInv

\* A step that leaves slots and endpoints alone.
LEMMA QuietInv ==
  ASSUME CapInv, UNCHANGED <<slots, ep_pool, ep_pool_used>>,
         mem' \in [Tables -> [Bufs -> Msgs]], ret' \in Errors
  PROVE  CapInv'
  BY DEF CapInv, CapTypeOK, SlotsBehind, Isolation, EndpointConsistent, Occupied, Endpoint

\* cap_lookup succeeds only on a slot in bounds that refers to a used
\* endpoint of the current generation.
LEMMA LookupOK ==
  ASSUME CapInv, NEW t \in Tables, NEW i \in Idx, NEW r \in SUBSET Rights,
         cap_lookup(t, i, "ENDPOINT", r) = "OK"
  PROVE  /\ i \in Slots /\ Occupied(t, i) /\ ~Stale(t, i)
         /\ r \subseteq slots[t][i].rights
         /\ slots[t][i].object \in ep_pool_used
         /\ slots[t][i].object \in Eps
<1>1. /\ i \in Slots /\ Occupied(t, i) /\ ~Stale(t, i)
      /\ r \subseteq slots[t][i].rights
  BY DEF cap_lookup
<1>2. slots[t][i].object \in ep_pool_used
  BY <1>1 DEF CapInv, SlotsBehind
<1>3. QED BY <1>1, <1>2 DEF CapInv, CapTypeOK

LEMMA LookupErrors ==
  ASSUME NEW t, NEW i, NEW r
  PROVE  cap_lookup(t, i, "ENDPOINT", r) \in Errors
  BY DEF cap_lookup, Errors

\* The part of cap_send and cap_recv after the lookup: partner is the state
\* in which the other side waits, mine the one in which the caller waits.
LEMMA ParkInv ==
  ASSUME CapInv, NEW e \in ep_pool_used, NEW buf \in Addrs, NEW cur \in Callers,
         NEW mine \in {"SEND_WAITING", "RECV_WAITING"},
         Park(e, mine, buf, cur), ret' = "OK",
         UNCHANGED <<slots, ep_pool_used, mem>>
  PROVE  CapInv'
<1> DEFINE w == [generation |-> ep_pool[e].generation, state |-> mine,
                 pending_msg |-> buf, parked_task_id |-> cur]
<1>1. w \in EndpointType
  BY DEF CapInv, CapTypeOK, EndpointType
<1>2. mem \in [Tables -> [Bufs -> Msgs]] BY DEF CapInv, CapTypeOK
<1>4. ep_pool' = [ep_pool EXCEPT ![e] = w] BY DEF Park
<1>5. w.generation = ep_pool[e].generation /\ w.state # "IDLE" OBVIOUS
<1>6. ret' \in Errors BY DEF Errors
<1> HIDE DEF w
<1>7. QED BY <1>1, <1>2, <1>4, <1>5, <1>6, IpcInv

LEMMA RendezvousInv ==
  ASSUME CapInv, NEW e \in ep_pool_used, Rendezvous(e), ret' = "OK",
         UNCHANGED <<slots, ep_pool_used>>, mem' \in [Tables -> [Bufs -> Msgs]]
  PROVE  CapInv'
<1> DEFINE w == [generation |-> ep_pool[e].generation, state |-> "IDLE",
                 pending_msg |-> NULL, parked_task_id |-> 0]
<1>1. w \in EndpointType
  BY CapAssumption DEF CapInv, CapTypeOK, EndpointType, Addrs
<1>2. ep_pool' = [ep_pool EXCEPT ![e] = w] BY DEF Rendezvous
<1>3. /\ w.generation = ep_pool[e].generation /\ w.state = "IDLE"
      /\ w.pending_msg = NULL /\ w.parked_task_id = 0
  OBVIOUS
<1>4. ret' \in Errors BY DEF Errors
<1> HIDE DEF w
<1>5. QED BY <1>1, <1>2, <1>3, <1>4, IpcInv

\* A copy between an address kept on an endpoint and one a caller passes
\* writes a message buffer, if it writes anything.
LEMMA CopyTyped ==
  ASSUME CapInv, NEW t \in Tables, NEW e \in Eps, NEW buf \in Addrs,
         \/ Copied(t, ep_pool[e].pending_msg, buf, buf, ep_pool[e].pending_msg)
         \/ Copied(t, ep_pool[e].pending_msg, buf, ep_pool[e].pending_msg, buf)
  PROVE  mem' \in [Tables -> [Bufs -> Msgs]]
<1>1. /\ mem \in [Tables -> [Bufs -> Msgs]]
      /\ ep_pool[e].pending_msg \in Addrs
  BY DEF CapInv, CapTypeOK, EndpointType
<1>2. QED BY <1>1 DEF Copied, Addrs

LEMMA SendInv ==
  ASSUME CapInv, NEW t \in Tables, NEW i \in Idx, NEW buf \in Addrs,
         NEW cur \in Callers, cap_send(t, i, buf, cur)
  PROVE  CapInv'
<1> DEFINE err == cap_lookup(t, i, "ENDPOINT", {"SEND"})
           e == slots[t][i].object
<1>0. /\ UNCHANGED <<slots, ep_pool_used>>
      /\ mem \in [Tables -> [Bufs -> Msgs]]
      /\ {"SEND"} \in SUBSET Rights
      /\ "STATE" \in Errors /\ err \in Errors
  BY LookupErrors, CapAssumption DEF cap_send, CapInv, CapTypeOK, Errors
<1>1. CASE err # "OK"
  BY <1>0, <1>1, QuietInv DEF cap_send
<1>2. CASE err = "OK"
  <2>1. e \in ep_pool_used /\ e \in Eps
    BY <1>0, <1>2, LookupOK
  <2>2. CASE ep_pool[e].state = "RECV_WAITING"
    <3>1. /\ Copied(t, ep_pool[e].pending_msg, buf, buf, ep_pool[e].pending_msg)
          /\ Rendezvous(e) /\ ret' = "OK"
      BY <1>2, <2>2 DEF cap_send
    <3>2. mem' \in [Tables -> [Bufs -> Msgs]]
      BY <2>1, <3>1, CopyTyped
    <3>3. QED BY <1>0, <2>1, <3>1, <3>2, RendezvousInv
  <2>3. CASE ep_pool[e].state = "IDLE"
    BY <1>0, <1>2, <2>1, <2>3, ParkInv DEF cap_send
  <2>4. CASE ep_pool[e].state = "SEND_WAITING"
    BY <1>0, <1>2, <2>4, QuietInv DEF cap_send
  <2>5. QED BY <2>1, <2>2, <2>3, <2>4 DEF CapInv, CapTypeOK, EndpointType
<1>3. QED BY <1>1, <1>2

LEMMA RecvInv ==
  ASSUME CapInv, NEW t \in Tables, NEW i \in Idx, NEW buf \in Addrs,
         NEW cur \in Callers, cap_recv(t, i, buf, cur)
  PROVE  CapInv'
<1> DEFINE err == cap_lookup(t, i, "ENDPOINT", {"RECV"})
           e == slots[t][i].object
<1>0. /\ UNCHANGED <<slots, ep_pool_used>>
      /\ mem \in [Tables -> [Bufs -> Msgs]]
      /\ {"RECV"} \in SUBSET Rights
      /\ "STATE" \in Errors /\ err \in Errors
  BY LookupErrors, CapAssumption DEF cap_recv, CapInv, CapTypeOK, Errors
<1>1. CASE err # "OK"
  BY <1>0, <1>1, QuietInv DEF cap_recv
<1>2. CASE err = "OK"
  <2>1. e \in ep_pool_used /\ e \in Eps
    BY <1>0, <1>2, LookupOK
  <2>2. CASE ep_pool[e].state = "SEND_WAITING"
    <3>1. /\ Copied(t, ep_pool[e].pending_msg, buf, ep_pool[e].pending_msg, buf)
          /\ Rendezvous(e) /\ ret' = "OK"
      BY <1>2, <2>2 DEF cap_recv
    <3>2. mem' \in [Tables -> [Bufs -> Msgs]]
      BY <2>1, <3>1, CopyTyped
    <3>3. QED BY <1>0, <2>1, <3>1, <3>2, RendezvousInv
  <2>3. CASE ep_pool[e].state = "IDLE"
    BY <1>0, <1>2, <2>1, <2>3, ParkInv DEF cap_recv
  <2>4. CASE ep_pool[e].state = "RECV_WAITING"
    BY <1>0, <1>2, <2>4, QuietInv DEF cap_recv
  <2>5. QED BY <2>1, <2>2, <2>3, <2>4 DEF CapInv, CapTypeOK, EndpointType
<1>3. QED BY <1>1, <1>2

LEMMA WriteInv ==
  ASSUME CapInv, NEW t \in Tables, NEW buf \in Bufs, NEW m \in Msgs,
         WriteBuf(t, buf, m)
  PROVE  CapInv'
<1>1. mem' \in [Tables -> [Bufs -> Msgs]] /\ ret' \in Errors
  BY DEF CapInv, CapTypeOK, WriteBuf
<1>2. QED BY <1>1, QuietInv DEF WriteBuf

LEMMA NextInv == CapInv /\ [CapNext]_capVars => CapInv'
<1> SUFFICES ASSUME CapInv, [CapNext]_capVars PROVE CapInv'
  OBVIOUS
<1>1. CASE UNCHANGED capVars
  <2>1. mem' \in [Tables -> [Bufs -> Msgs]] /\ ret' \in Errors
    BY <1>1 DEF CapInv, CapTypeOK, capVars
  <2>2. QED BY <1>1, <2>1, QuietInv DEF capVars
<1>2. CASE CapNext
  BY <1>2, FreeInv, DeriveInv, CreateInv, RevokeInv, SendInv, RecvInv, WriteInv
     DEF CapNext
<1>3. QED BY <1>1, <1>2

\* The inductive invariant of the capability engine: types, slots that never
\* run ahead of their endpoint, isolation, and rendezvous state that agrees
\* with the pending message.
THEOREM CapInvariant == CapSpec => []CapInv
  BY InitInv, NextInv, PTL DEF CapSpec

\* Type correctness of the capability engine (CapTypeOK).
THEOREM CapTypeCorrect == CapSpec => []CapTypeOK
<1>1. CapInv => CapTypeOK BY DEF CapInv
<1>2. QED BY <1>1, CapInvariant, PTL

\* No endpoint is ever named from two tables (Isolation), whatever sequence
\* of cap_* calls the kernel makes.
THEOREM CapIsolation == CapSpec => []Isolation
<1>1. CapInv => Isolation BY DEF CapInv
<1>2. QED BY <1>1, CapInvariant, PTL

\* No address or task outlives the wait it belongs to (EndpointConsistent).
THEOREM CapEndpointConsistent == CapSpec => []EndpointConsistent
<1>1. CapInv => EndpointConsistent BY DEF CapInv
<1>2. QED BY <1>1, CapInvariant, PTL

----------------------------------------------------------------------------
(* The engine implements CapAuthority.                                      *)

\* A working slot yields a handle, never NULL.
LEMMA HandleLive ==
  ASSUME CapInv, NEW t \in Tables, NEW i \in Slots
  PROVE  /\ (Occupied(t, i) /\ ~Stale(t, i)) =>
               /\ Handle(t, i) # NULL
               /\ Handle(t, i).object = slots[t][i].object
               /\ Handle(t, i).rights = slots[t][i].rights
         /\ ~(Occupied(t, i) /\ ~Stale(t, i)) => Handle(t, i) = NULL
<1>1. CASE Occupied(t, i) /\ ~Stale(t, i)
  <2>1. slots[t][i].object \in Nat /\ slots[t][i].rights \in SUBSET Rights
    <3>1. slots[t][i] \in SlotType /\ ep_pool_used \subseteq Eps
      BY DEF CapInv, CapTypeOK
    <3>2. slots[t][i].object \in ep_pool_used
      BY <1>1 DEF CapInv, SlotsBehind
    <3>3. slots[t][i].object \in Nat
      <4>1. \A o \in ep_pool_used : o \in Nat
        BY <3>1
      <4>2. QED BY <3>2, <4>1, Zenon
    <3>4. slots[t][i].rights \in SUBSET Rights
      BY <3>1 DEF SlotType
    <3>5. QED BY <3>3, <3>4
  <2>2. Handle(t, i) \in [object : Nat, rights : SUBSET Rights]
    BY <1>1, <2>1 DEF Handle
  <2>3. QED BY <1>1, <2>2, CapAssumption DEF Handle
<1>2. CASE ~(Occupied(t, i) /\ ~Stale(t, i))
  BY <1>2 DEF Handle
<1>3. QED BY <1>1, <1>2

\* A step that keeps the slots and every generation keeps all handles.
LEMMA ViewUnchanged ==
  ASSUME CapInv, UNCHANGED <<slots, ep_pool_used>>,
         \A f \in Eps : ep_pool'[f].generation = ep_pool[f].generation
  PROVE  UNCHANGED <<AuthView, ep_pool_used>>
<1>1. ASSUME NEW u \in Tables, NEW j \in Slots PROVE Handle(u, j)' = Handle(u, j)
  <2>1. Occupied(u, j) => slots[u][j].object \in Eps
    BY DEF CapInv, CapTypeOK, SlotsBehind
  <2>2. Occupied(u, j)' <=> Occupied(u, j)
    BY DEF Occupied
  <2>3. Occupied(u, j) => (Stale(u, j)' <=> Stale(u, j))
    BY <2>1 DEF Stale, Endpoint
  <2>4. QED BY <2>2, <2>3 DEF Handle
<1>2. QED BY <1>1 DEF AuthView

\* A step that writes one slot and keeps every generation of a used endpoint
\* changes at most the handle of that slot.
LEMMA ViewUpdate ==
  ASSUME CapInv, NEW t \in Tables, NEW i \in Slots, NEW s \in SlotType,
         slots' = [slots EXCEPT ![t][i] = s],
         \A f \in ep_pool_used : ep_pool'[f].generation = ep_pool[f].generation
  PROVE  AuthView' = [AuthView EXCEPT ![t][i] = Handle(t, i)']
<1>1. \A u \in Tables, j \in Slots :
        slots'[u][j] = IF u = t /\ j = i THEN s ELSE slots[u][j]
  BY SlotUpdate DEF CapInv
<1>2. ASSUME NEW u \in Tables, NEW j \in Slots, ~(u = t /\ j = i)
      PROVE  Handle(u, j)' = Handle(u, j)
  <2>1. slots'[u][j] = slots[u][j] BY <1>1, <1>2
  <2>2. Occupied(u, j) => slots[u][j].object \in ep_pool_used
    BY DEF CapInv, SlotsBehind
  <2>3. Occupied(u, j)' <=> Occupied(u, j)
    BY <2>1 DEF Occupied
  <2>4. Occupied(u, j) => (Stale(u, j)' <=> Stale(u, j))
    BY <2>1, <2>2 DEF Stale, Endpoint
  <2>5. QED BY <2>1, <2>3, <2>4 DEF Handle
<1>3. QED BY <1>2 DEF AuthView

AuthStep == Authority!AuthNext \/ UNCHANGED <<AuthView, ep_pool_used>>

LEMMA FreeAuth ==
  ASSUME CapInv, NEW t \in Tables, NEW i \in Idx, cap_free_slot(t, i)
  PROVE  AuthStep
<1>1. CASE i \notin Slots
  BY <1>1, ViewUnchanged DEF cap_free_slot, AuthStep
<1>2. CASE i \in Slots
  <2>1. NullSlot \in SlotType /\ slots' = [slots EXCEPT ![t][i] = NullSlot]
    BY <1>2, CapAssumption DEF NullSlot, SlotType, cap_free_slot
  <2>2. slots'[t][i] = NullSlot
    BY <1>2, <2>1, SlotUpdate DEF CapInv
  <2>3. Handle(t, i)' = NULL
    BY <2>2 DEF Handle, Occupied, NullSlot
  <2>4. AuthView' = [AuthView EXCEPT ![t][i] = NULL] /\ UNCHANGED ep_pool_used
    BY <1>2, <2>1, <2>3, ViewUpdate DEF cap_free_slot
  <2>5. Authority!Drop(t, i)
    BY <2>4 DEF Authority!Drop
  <2>6. QED BY <1>2, <2>5 DEF AuthStep, Authority!AuthNext
<1>3. QED BY <1>1, <1>2

LEMMA DeriveAuth ==
  ASSUME CapInv, NEW t \in Tables, NEW src \in Idx, NEW dst \in Idx,
         NEW child \in SUBSET Rights, cap_derive(t, src, dst, child)
  PROVE  AuthStep
<1>0. UNCHANGED <<ep_pool, ep_pool_used>> BY DEF cap_derive
<1>1. CASE slots' = slots
  BY <1>0, <1>1, ViewUnchanged DEF AuthStep
<1>2. CASE slots' # slots
  <2> DEFINE s == [type |-> slots[t][src].type, rights |-> child,
                   generation |-> slots[t][src].generation,
                   object |-> slots[t][src].object]
  <2>1. /\ src \in Slots /\ dst \in Slots
        /\ Occupied(t, src) /\ ~Stale(t, src) /\ ~Occupied(t, dst)
        /\ child \subseteq slots[t][src].rights
        /\ slots' = [slots EXCEPT ![t][dst] = s]
    BY <1>2, DeriveCases DEF CapInv
  <2>2. s \in SlotType
    <3>1. slots[t][src] \in SlotType
      BY <2>1 DEF CapInv, CapTypeOK
    <3>2. QED BY <3>1 DEF SlotType
  <2>3. slots'[t][dst] = s
    BY <2>1, <2>2, SlotUpdate DEF CapInv
  <2>4. Handle(t, dst)' = [object |-> slots[t][src].object, rights |-> child]
    <3>1. Occupied(t, dst)' /\ ~Stale(t, dst)'
      BY <1>0, <2>1, <2>3 DEF Occupied, Stale, Endpoint
    <3>2. QED BY <2>3, <3>1 DEF Handle
  <2>5. AuthView' = [AuthView EXCEPT ![t][dst] =
                       [object |-> slots[t][src].object, rights |-> child]]
    <3> HIDE DEF s
    <3>1. QED BY <1>0, <2>1, <2>2, <2>4, ViewUpdate
  <2>6. /\ AuthView[t][src] = Handle(t, src) /\ AuthView[t][dst] = Handle(t, dst)
    BY <2>1 DEF AuthView
  <2>7. /\ AuthView[t][src] # NULL /\ child \subseteq AuthView[t][src].rights
        /\ AuthView[t][src].object = slots[t][src].object
        /\ AuthView[t][dst] = NULL
    BY <2>1, <2>6, HandleLive
  <2>8. Authority!Attenuate(t, src, dst, child)
    BY <1>0, <2>5, <2>7 DEF Authority!Attenuate
  <2>9. QED BY <2>1, <2>8 DEF AuthStep, Authority!AuthNext
<1>3. QED BY <1>1, <1>2

LEMMA CreateAuth ==
  ASSUME CapInv, NEW t \in Tables, NEW i \in Idx, NEW r \in SUBSET Rights,
         cap_endpoint_create(t, i, r)
  PROVE  AuthStep
<1>1. CASE UNCHANGED <<slots, ep_pool, ep_pool_used>>
  BY <1>1, ViewUnchanged DEF AuthStep
<1>2. ASSUME NEW e \in Eps, i \in Slots, ep_pool_alloc(e), ~Occupied(t, i),
             ep_pool_used' = ep_pool_used \cup {e},
             ep_pool' = [ep_pool EXCEPT ![e] = endpoint_init],
             slots' = [slots EXCEPT ![t][i] =
                         [type |-> "ENDPOINT", rights |-> r,
                          generation |-> 0, object |-> e]]
      PROVE AuthStep
  <2> DEFINE s == [type |-> "ENDPOINT", rights |-> r, generation |-> 0, object |-> e]
  <2>1. s \in SlotType
    BY CapAssumption DEF SlotType
  <2>2. e \notin ep_pool_used
    BY <1>2 DEF ep_pool_alloc
  <2>3. \A f \in ep_pool_used : ep_pool'[f].generation = ep_pool[f].generation
    BY <1>2, <2>2 DEF CapInv, CapTypeOK
  <2>4. slots'[t][i] = s
    BY <1>2, <2>1, SlotUpdate DEF CapInv
  <2>5. ep_pool'[e].generation = 0
    BY <1>2 DEF CapInv, CapTypeOK, endpoint_init
  <2>6. Handle(t, i)' = [object |-> e, rights |-> r]
    BY <2>4, <2>5 DEF Handle, Occupied, Stale, Endpoint
  <2>7. AuthView' = [AuthView EXCEPT ![t][i] = [object |-> e, rights |-> r]]
    BY <1>2, <2>1, <2>3, <2>6, ViewUpdate
  <2>8. AuthView[t][i] = NULL
    BY <1>2 DEF AuthView, Handle
  <2>9. Authority!Mint(t, i, e, r)
    BY <1>2, <2>2, <2>7, <2>8 DEF Authority!Mint
  <2>10. QED BY <1>2, <2>9 DEF AuthStep, Authority!AuthNext
<1>3. QED BY <1>1, <1>2 DEF cap_endpoint_create

LEMMA RevokeAuth ==
  ASSUME CapInv, NEW t \in Tables, NEW i \in Idx, cap_revoke_endpoint(t, i)
  PROVE  AuthStep
<1>0. UNCHANGED <<slots, ep_pool_used>> BY DEF cap_revoke_endpoint
<1>1. CASE UNCHANGED ep_pool
  BY <1>0, <1>1, ViewUnchanged DEF AuthStep
<1>2. ASSUME i \in Slots, slots[t][i].type = "ENDPOINT",
             ep_pool' = [ep_pool EXCEPT ![slots[t][i].object] =
                           endpoint_revoke(Endpoint(t, i))]
      PROVE AuthStep
  <2> DEFINE o == slots[t][i].object
  <2>1. o \in ep_pool_used /\ o \in Eps
    BY <1>2 DEF CapInv, CapTypeOK, SlotsBehind, Occupied
  <2>2. /\ ep_pool[o].generation \in Nat
        /\ ep_pool'[o].generation = ep_pool[o].generation + 1
        /\ \A f \in Eps \ {o} : ep_pool'[f] = ep_pool[f]
    BY <1>2, <2>1, CapAssumption
       DEF CapInv, CapTypeOK, EndpointType, Endpoint, endpoint_revoke
  <2>3. ASSUME NEW u \in Tables, NEW j \in Slots
        PROVE  Handle(u, j)' = IF Handle(u, j) # NULL /\ Handle(u, j).object = o
                               THEN NULL ELSE Handle(u, j)
    <3>1. CASE ~Occupied(u, j)
      BY <1>0, <3>1 DEF Handle, Occupied
    <3>2. CASE Occupied(u, j) /\ slots[u][j].object = o
      <4>1. slots[u][j].type = "ENDPOINT" /\ slots[u][j].generation \in Nat
        BY <3>2, CapAssumption DEF CapInv, CapTypeOK, SlotType, Occupied
      <4>2. slots[u][j].generation <= ep_pool[o].generation
        BY <3>2 DEF CapInv, SlotsBehind, Endpoint
      <4>3. slots[u][j].generation # ep_pool'[o].generation
        BY <2>2, <4>1, <4>2
      <4>4. Stale(u, j)'
        BY <1>0, <3>2, <4>1, <4>3 DEF Stale, Endpoint
      <4>5. Handle(u, j)' = NULL
        BY <4>4 DEF Handle
      <4>6. QED BY <3>2, <4>5, HandleLive
    <3>3. CASE Occupied(u, j) /\ slots[u][j].object # o
      <4>1. slots[u][j].object \in Eps \ {o}
        BY <3>3 DEF CapInv, CapTypeOK, SlotsBehind
      <4>2. Stale(u, j)' <=> Stale(u, j)
        BY <1>0, <2>2, <4>1 DEF Stale, Endpoint
      <4>3. Handle(u, j)' = Handle(u, j)
        BY <1>0, <4>2 DEF Handle, Occupied
      <4>4. QED BY <3>3, <4>3, HandleLive
    <3>4. QED BY <3>1, <3>2, <3>3
  <2>4. Authority!Revoke(o)
    <3>1. AuthView' = [u \in Tables |-> [j \in Slots |->
                         IF AuthView[u][j] # NULL /\ AuthView[u][j].object = o
                         THEN NULL ELSE AuthView[u][j]]]
      BY <2>3 DEF AuthView
    <3>2. QED BY <1>0, <3>1 DEF Authority!Revoke
  <2>5. QED BY <2>1, <2>4 DEF AuthStep, Authority!AuthNext
<1>3. QED BY <1>1, <1>2 DEF cap_revoke_endpoint

\* IPC never touches a generation.
LEMMA IpcAuth ==
  ASSUME CapInv, NEW t \in Tables, NEW i \in Idx, NEW buf \in Addrs,
         NEW cur \in Callers, cap_send(t, i, buf, cur) \/ cap_recv(t, i, buf, cur)
  PROVE  AuthStep
<1>0. UNCHANGED <<slots, ep_pool_used>> BY DEF cap_send, cap_recv
<1> DEFINE e == slots[t][i].object
<1>1. ASSUME NEW x, NEW y, NEW z,
             ep_pool' = [ep_pool EXCEPT ![e] =
                           [generation |-> ep_pool[e].generation, state |-> x,
                            pending_msg |-> y, parked_task_id |-> z]]
      PROVE  \A f \in Eps : ep_pool'[f].generation = ep_pool[f].generation
  BY <1>1 DEF CapInv, CapTypeOK
<1>2. \/ ep_pool' = ep_pool
      \/ Rendezvous(e)
      \/ Park(e, "SEND_WAITING", buf, cur)
      \/ Park(e, "RECV_WAITING", buf, cur)
  BY DEF cap_send, cap_recv
<1>3. \A f \in Eps : ep_pool'[f].generation = ep_pool[f].generation
  BY <1>1, <1>2 DEF Rendezvous, Park
<1>4. QED BY <1>0, <1>3, ViewUnchanged DEF AuthStep

LEMMA NextAuth == CapInv /\ [CapNext]_capVars => AuthStep
<1> SUFFICES ASSUME CapInv, [CapNext]_capVars PROVE AuthStep
  OBVIOUS
<1>1. CASE UNCHANGED capVars
  BY <1>1, ViewUnchanged DEF capVars, AuthStep
<1>2. ASSUME NEW t \in Tables, NEW b \in Bufs, NEW m \in Msgs, WriteBuf(t, b, m)
      PROVE  AuthStep
  BY <1>2, ViewUnchanged DEF WriteBuf, AuthStep
<1>3. QED
  BY <1>1, <1>2, FreeAuth, DeriveAuth, CreateAuth, RevokeAuth, IpcAuth DEF CapNext

\* The capability engine implements the abstract authority specification
\* (ImplementsAuthority): authority comes only with a new endpoint or from
\* a stronger capability of the same table, and goes one handle at a time
\* (cap_free) or for a whole endpoint in the step that bumps its generation.
THEOREM CapImplementsAuthority == CapSpec => ImplementsAuthority
<1>1. CapInit => Authority!AuthInit
  BY DEF CapInit, Authority!AuthInit, AuthView, Handle, Occupied, NullSlot
<1>2. CapInv /\ [CapNext]_capVars => [Authority!AuthNext]_<<AuthView, ep_pool_used>>
  BY NextAuth DEF AuthStep
<1>3. QED
  BY <1>1, <1>2, CapInvariant, PTL
     DEF CapSpec, ImplementsAuthority, Authority!AuthSpec, Authority!authVars

----------------------------------------------------------------------------
(* No resurrection, read off the refinement.                                *)

\* The abstract holders of an endpoint are the slots that name it.
NamesAreHandles ==
  \A t \in Tables, i \in Slots, e \in Eps :
    Names(t, i, e) <=> (AuthView[t][i] # NULL /\ AuthView[t][i].object = e)

LEMMA NamesView == CapInv => NamesAreHandles
<1> SUFFICES ASSUME CapInv, NEW t \in Tables, NEW i \in Slots, NEW e \in Eps
    PROVE Names(t, i, e) <=> (AuthView[t][i] # NULL /\ AuthView[t][i].object = e)
  BY DEF NamesAreHandles
<1>1. AuthView[t][i] = Handle(t, i)
  BY DEF AuthView
<1>2. QED BY <1>1, HandleLive DEF Names

\* Changing one place of a table of handles changes no other.
LEMMA PlaceUpdate ==
  ASSUME NEW X, NEW A \in [Tables -> [Slots -> X]], NEW u \in Tables, NEW k \in Slots,
         NEW h, NEW t \in Tables, NEW i \in Slots
  PROVE  [A EXCEPT ![u][k] = h][t][i] = IF t = u /\ i = k THEN h ELSE A[t][i]
  OBVIOUS

\* No step of the abstract specification gives a handle on a minted object
\* that nobody holds.
LEMMA NoHandleBack ==
  ASSUME AuthStep, NEW e \in ep_pool_used, NEW X, AuthView \in [Tables -> [Slots -> X]],
         \A u \in Tables, j \in Slots :
           ~(AuthView[u][j] # NULL /\ AuthView[u][j].object = e)
  PROVE  \A t \in Tables, i \in Slots :
           ~(AuthView'[t][i] # NULL /\ AuthView'[t][i].object = e)
<1> SUFFICES ASSUME NEW t \in Tables, NEW i \in Slots,
                    AuthView'[t][i] # NULL, AuthView'[t][i].object = e
             PROVE  FALSE
  OBVIOUS
<1>0. AuthView'[t][i] # AuthView[t][i]
  OBVIOUS
<1>1. ASSUME NEW u \in Tables, NEW k \in Slots, NEW h,
             AuthView' = [AuthView EXCEPT ![u][k] = h]
      PROVE  h # NULL /\ h.object = e
  <2>1. AuthView'[t][i] = IF t = u /\ i = k THEN h ELSE AuthView[t][i]
    BY <1>1, PlaceUpdate
  <2>2. QED BY <1>0, <2>1
<1>2. ASSUME NEW u \in Tables, NEW j \in Slots, NEW o \in Eps, NEW r,
             Authority!Mint(u, j, o, r)
      PROVE  FALSE
  <2>1. [object |-> o, rights |-> r].object = e
    BY <1>1, <1>2 DEF Authority!Mint
  <2>2. o \notin ep_pool_used
    BY <1>2 DEF Authority!Mint
  <2>3. QED BY <2>1, <2>2
<1>3. ASSUME NEW u \in Tables, NEW j \in Slots, NEW k \in Slots, NEW r,
             Authority!Attenuate(u, j, k, r)
      PROVE  FALSE
  <2>1. [object |-> AuthView[u][j].object, rights |-> r].object = e
    BY <1>1, <1>3 DEF Authority!Attenuate
  <2>2. AuthView[u][j] # NULL
    BY <1>3 DEF Authority!Attenuate
  <2>3. QED BY <2>1, <2>2
<1>4. ASSUME NEW u \in Tables, NEW j \in Slots, Authority!Drop(u, j)
      PROVE  FALSE
  BY <1>1, <1>4 DEF Authority!Drop
<1>5. ASSUME NEW o \in Eps, Authority!Revoke(o)
      PROVE  FALSE
  <2>1. AuthView'[t][i] = IF AuthView[t][i] # NULL /\ AuthView[t][i].object = o
                          THEN NULL ELSE AuthView[t][i]
    BY <1>5 DEF Authority!Revoke
  <2>2. QED BY <1>0, <2>1
<1>6. QED
  BY <1>0, <1>2, <1>3, <1>4, <1>5
     DEF AuthStep, Authority!AuthNext, Authority!Refuse, Authority!authVars

\* A used endpoint that no working capability names stays that way
\* (NoResurrection), for any number of calls and generations.
THEOREM CapNoResurrection == CapSpec => NoResurrection
<1>1. ASSUME CapInv, NamesAreHandles, NamesAreHandles', [CapNext]_capVars,
             NEW e \in ep_pool_used, \A t \in Tables, i \in Slots : ~Names(t, i, e)
      PROVE  \A t \in Tables, i \in Slots : ~Names(t, i, e)'
  <2>1. AuthStep BY <1>1, NextAuth
  <2>2. e \in Eps BY <1>1 DEF CapInv, CapTypeOK
  <2>3. \A u \in Tables, j \in Slots :
          ~(AuthView[u][j] # NULL /\ AuthView[u][j].object = e)
    BY <1>1, <2>2 DEF NamesAreHandles
  <2>4. \A u \in Tables, j \in Slots :
          ~(AuthView'[u][j] # NULL /\ AuthView'[u][j].object = e)
    <3> DEFINE X == {AuthView[u][j] : u \in Tables, j \in Slots}
    <3>1. AuthView \in [Tables -> [Slots -> X]]
      BY DEF AuthView
    <3> HIDE DEF X
    <3>2. QED BY <2>1, <2>3, <3>1, NoHandleBack
  <2>5. QED BY <1>1, <2>2, <2>4 DEF NamesAreHandles
<1>2. CapInv /\ NamesAreHandles /\ NamesAreHandles' /\ [CapNext]_capVars
      => [\A e \in ep_pool_used :
            (\A t \in Tables, i \in Slots : ~Names(t, i, e))
            => (\A t \in Tables, i \in Slots : ~Names(t, i, e)')]_capVars
  BY <1>1
<1>3. QED BY <1>2, NamesView, CapInvariant, PTL DEF CapSpec, NoResurrection
=============================================================================
