----------------------------- MODULE BlockStore -----------------------------
(***************************************************************************)
(* What the oblivious store promises its user, the snapshot code: an array *)
(* of blocks.  While the power is on it reads back what was written last;  *)
(* a power cycle, or another oram_init, may lose a block, which then reads *)
(* as zeroes, and never brings back an older content.  When the store is   *)
(* broken it promises nothing any more.                                    *)
(***************************************************************************)
CONSTANTS Addresses, Blocks, ZeroBlock

VARIABLES
  store,    \* content of every block
  broken,   \* the promise no longer holds
  last      \* what happened last: a read and its answer, a write, a power cycle

storeVars == <<store, broken, last>>

Did(op, a, d) == [op |-> op, block |-> a, data |-> d]
Cycled == [op |-> "power"]

StoreInit == store = [a \in Addresses |-> ZeroBlock] /\ broken = FALSE /\ last = Cycled

StoreRead(a) == last' = Did("read", a, store[a]) /\ UNCHANGED <<store, broken>>

\* The store after a write, and after the blocks in lost have been lost.
Written(a, d) == [store EXCEPT ![a] = d]
Without(lost) == [a \in Addresses |-> IF a \in lost THEN ZeroBlock ELSE store[a]]

StoreWrite(a, d) == store' = Written(a, d) /\ last' = Did("write", a, d) /\ UNCHANGED broken

PowerCycle ==
  /\ \E lost \in SUBSET Addresses : store' = Without(lost)
  /\ last' = Cycled
  /\ UNCHANGED broken

\* Whatever the store holds from here on.
Break == broken' = TRUE

StoreNext == \/ Break \/ PowerCycle
             \/ \E a \in Addresses : StoreRead(a) \/ \E d \in Blocks : StoreWrite(a, d)

StoreSpec == StoreInit /\ [][StoreNext]_storeVars
=============================================================================
