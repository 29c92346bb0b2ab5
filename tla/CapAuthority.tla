---------------------------- MODULE CapAuthority ----------------------------
(***************************************************************************)
(* What the capability engine promises (cap.h, design properties 1 to 3),  *)
(* without slot types, generations or pools: authority is a set of handles *)
(* on objects.  A handle is minted with a new object, copied inside its    *)
(* table with fewer rights, dropped, or lost at once with every other      *)
(* handle on the same object when the object is revoked.                   *)
(***************************************************************************)
CONSTANTS
  Tables,   \* holders of authority
  Slots,    \* places for handles in a table
  Objects,  \* objects that handles may name
  Rights,   \* rights a handle may carry
  None      \* no handle; not a record

VARIABLES
  auth,   \* auth[t][i]: the handle in place i of table t, or None
  minted  \* objects for which handles have been made

authVars == <<auth, minted>>

AuthInit == /\ auth = [t \in Tables |-> [i \in Slots |-> None]]
            /\ minted = {}

Mint(t, i, o, r) ==
  /\ o \notin minted /\ auth[t][i] = None
  /\ minted' = minted \cup {o}
  /\ auth' = [auth EXCEPT ![t][i] = [object |-> o, rights |-> r]]

Attenuate(t, i, j, r) ==
  /\ auth[t][j] = None
  /\ auth[t][i] # None /\ r \subseteq auth[t][i].rights
  /\ auth' = [auth EXCEPT ![t][j] =
                [object |-> auth[t][i].object, rights |-> r]]
  /\ UNCHANGED minted

Drop(t, i) == /\ auth' = [auth EXCEPT ![t][i] = None]
              /\ UNCHANGED minted

Revoke(o) ==
  /\ auth' = [t \in Tables |-> [i \in Slots |->
                IF auth[t][i] # None /\ auth[t][i].object = o
                THEN None ELSE auth[t][i]]]
  /\ UNCHANGED minted

\* A call that is refused, or that is not about authority.
Refuse == UNCHANGED authVars

AuthNext ==
  \/ Refuse
  \/ \E t \in Tables, i \in Slots, o \in Objects, r \in SUBSET Rights :
       Mint(t, i, o, r)
  \/ \E t \in Tables, i, j \in Slots, r \in SUBSET Rights : Attenuate(t, i, j, r)
  \/ \E t \in Tables, i \in Slots : Drop(t, i)
  \/ \E o \in Objects : Revoke(o)

AuthSpec == AuthInit /\ [][AuthNext]_authVars
=============================================================================
