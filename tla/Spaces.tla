------------------------------- MODULE Spaces -------------------------------
(***************************************************************************)
(* What the virtual memory manager promises: every address space is a map  *)
(* from pages to frames, the kernel's pages are the same in all of them,   *)
(* and a frame ring 3 can reach is reached through one page of one space.  *)
(* How the maps are stored is not said.                                    *)
(***************************************************************************)
EXTENDS Naturals

CONSTANTS Spaces, UserPages, KernelPages, Frames, Unmapped, BootMap

VARIABLE map    \* map[s][v]: [frame, user] or Unmapped, for the live spaces s

Pages == UserPages \cup KernelPages

Live == DOMAIN map

With(f, x, v) == [y \in DOMAIN f \cup {x} |-> IF y = x THEN v ELSE f[y]]

\* The frames ring 3 can reach in some space.
Reachable == {f \in Frames : \E s \in Live, v \in Pages :
                               map[s][v] = [frame |-> f, user |-> TRUE]}

\* The kernel's own space: what the boot loader's tables said, nothing of a user.
Boot(s) == /\ Live = {}
           /\ map' = With(map, s, BootMap)

\* A new space has the kernel's pages, and at most one user page.
Create(s) ==
  /\ Live # {} /\ s \notin Live /\ s \in DOMAIN map'
  /\ \E t \in Live :
       LET bare == [v \in Pages |-> IF v \in UserPages THEN Unmapped ELSE map[t][v]] IN
       \/ map' = With(map, s, bare)
       \/ \E v \in UserPages : LET f == map'[s][v].frame IN
            /\ map' = With(map, s, [bare EXCEPT ![v] = [frame |-> f, user |-> TRUE]])
            /\ f \in Frames \ Reachable

\* A user page gets a frame nobody can reach.
MapUser(s, v) ==
  LET f == map'[s][v].frame IN
  /\ map' = [map EXCEPT ![s][v] = [frame |-> f, user |-> TRUE]]
  /\ f \in Frames \ Reachable

\* A kernel page changes in all spaces at once.
MapKernel(s, v) ==
  LET f == map'[s][v].frame IN
  /\ map' = [t \in Live |-> [map[t] EXCEPT ![v] = [frame |-> f, user |-> FALSE]]]
  /\ f \in Frames \ Reachable

Unmap(s, v) ==
  map' = IF v \in UserPages
         THEN [map EXCEPT ![s][v] = Unmapped]
         ELSE [t \in Live |-> [map[t] EXCEPT ![v] = Unmapped]]

Init == map = [s \in {} |-> Unmapped]

Next == \/ \E s \in Spaces : Boot(s) \/ Create(s)
        \/ \E s \in Live, v \in Pages :
             /\ map'[s][v] # map[s][v]
             /\ \/ v \in UserPages /\ MapUser(s, v)
                \/ v \in KernelPages /\ MapKernel(s, v)
                \/ Unmap(s, v)

Spec == Init /\ [][Next]_map
=============================================================================
