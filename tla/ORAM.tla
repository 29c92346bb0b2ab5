-------------------------------- MODULE ORAM --------------------------------
(***************************************************************************)
(* The PathORAM layer (kernel/oram.c) between the snapshot code and the    *)
(* USB sectors: a binary tree of buckets on the medium, a position map in  *)
(* RAM and on the medium, a stash in RAM only.                             *)
(*                                                                         *)
(* A bucket and the stash are sets of blocks: the order of the stash array *)
(* only decides which of several eligible blocks is evicted first, and the *)
(* model lets any of them be.                                              *)
(*                                                                         *)
(* An oram_block_t is four bytes longer than a sector: of a block's 512    *)
(* bytes the medium keeps 508, and the last four come back as whatever     *)
(* lies behind the buffer.  BlockData are those 508 bytes; `intact' follows *)
(* the last four.                                                          *)
(*                                                                         *)
(* No transfer's result is looked at, no access asks whether oram_init has *)
(* run, and the sectors are read through the layer that verifies them.     *)
(* What becomes of the store then is not followed: `broken' is set, and    *)
(* nothing is promised any more.                                           *)
(***************************************************************************)
EXTENDS Integers, FiniteSets

CONSTANTS
  ORAM_L,      \* depth of the tree
  ORAM_Z,      \* blocks of a bucket
  STASH_MAX,   \* length of the stash array
  Used,        \* logical blocks in use
  BlockData,   \* contents of a block, its first 508 bytes
  Zero         \* the content of all zeroes

ORAM_NUM_LEAVES == 2 ^ ORAM_L

ASSUME OramAssumption ==
  /\ ORAM_L \in Nat /\ ORAM_Z \in Nat \ {0} /\ STASH_MAX \in Nat
  /\ Used \subseteq 0 .. ORAM_NUM_LEAVES - 1 /\ Cardinality(Used) <= STASH_MAX
  /\ Zero \in BlockData

\* Arithmetic: the powers of two up to ORAM_NUM_LEAVES, each at least twice the
\* ones before it.
ASSUME PowersAssumption ==
  /\ \A i \in 0 .. ORAM_L : 2 ^ i \in 1 .. ORAM_NUM_LEAVES
  /\ \A i, j \in 0 .. ORAM_L : j < i => 2 * 2 ^ j <= 2 ^ i

Leaves == 0 .. ORAM_NUM_LEAVES - 1
Nodes == 0 .. 2 * ORAM_NUM_LEAVES - 2
Levels == 0 .. ORAM_L
Block == [lba : Used, data : BlockData]

VARIABLES
  tree,       \* medium: the blocks of every bucket that are not dummies
  disk_map,   \* medium: the position map
  magic,      \* medium: the region has been formatted
  ready,      \* oram_init has run since power came on
  pos_map,    \* RAM: leaf of every logical block
  stash,      \* RAM
  encrypted,  \* g_encryption_enabled, as its owners leave it
  broken,     \* history: something has happened that the store does not survive
  intact,      \* history: stashed blocks with all 512 bytes of the last write
  spoilt,     \* history: the last read gave four bytes that were never written
  last        \* history: the last access with its data, or a loss of power

oramVars == <<tree, disk_map, magic, ready, pos_map, stash,
              encrypted, broken, intact, spoilt, last>>

----------------------------------------------------------------------------
(* The tree.  Node n has children 2n+1 and 2n+2; going up i levels is an    *)
(* integer division.                                                        *)

\* get_path: the node at every level on the way from the root to a leaf.
get_path == [leaf \in Leaves |->
              [i \in Levels |-> (ORAM_NUM_LEAVES + leaf) \div (2 ^ (ORAM_L - i)) - 1]]

\* Mutant: a block may be placed in any bucket of the path that is read.
AnyBucket(node, leaf) == node \in Nodes

is_ancestor(node, leaf) == \E i \in Levels : get_path[leaf][i] = node

----------------------------------------------------------------------------

\* The position map before anything is loaded into it.
NoMap == [a \in Used |-> 0]

\* What an access did, and what remains of it when the power goes.
Did(op, a, d) == [op |-> op, block |-> a, data |-> d]
Cycled == [op |-> "power"]
Events == {Did(op, a, d) : op \in {"read", "write"}, a \in Used, d \in BlockData}
          \cup {Cycled}

\* A medium without the magic: what its sectors hold does not matter.
OramInit ==
  /\ tree = [n \in Nodes |-> {}] /\ disk_map = NoMap /\ magic = FALSE
  /\ ready = FALSE /\ pos_map = NoMap /\ stash = {} /\ last = Cycled
  /\ encrypted \in BOOLEAN /\ broken = FALSE /\ intact = {} /\ spoilt = FALSE

\* Encryption is switched on by the authentication and off by the standard boot.
SwitchEncryption ==
  /\ ~broken
  /\ encrypted' = ~encrypted
  /\ UNCHANGED <<tree, disk_map, magic, ready, pos_map, stash, broken, intact, spoilt, last>>

\* oram_init, in the clear whatever encryption is: an unknown region is formatted -
\* dummies everywhere, a random map - and the magic written last; a known one is
\* loaded.  What is in the stash is dropped.
oram_init ==
  /\ ~broken
  /\ ready' = TRUE /\ stash' = {}
  /\ \/ /\ ~magic
        /\ tree' = [n \in Nodes |-> {}]
        /\ pos_map' \in [Used -> Leaves]
        /\ disk_map' = pos_map'
        /\ magic' = TRUE
     \/ /\ magic
        /\ pos_map' = disk_map
        /\ UNCHANGED <<tree, disk_map, magic>>
  /\ last' = Cycled /\ intact' = {} /\ spoilt' = FALSE
  /\ UNCHANGED <<encrypted, broken>>

\* The stash once the path to a leaf has been read into it.
Fetched(leaf) == stash \cup UNION {tree[get_path[leaf][i]] : i \in Levels}

\* Mutant: a write changes the block if it is there and adds none.
NeverAdds(a, write, d, st) ==
  IF write THEN {IF b.lba = a THEN [b EXCEPT !.data = d] ELSE b : b \in st} ELSE st

\* The stash after the operation: a write replaces the block or adds it.
Applied(a, write, d, st) ==
  IF write THEN {b \in st : b.lba # a} \cup {[lba |-> a, data |-> d]} ELSE st

\* What a read of block a finds in the stash st.
Found(a, st) == {b.data : b \in {c \in st : c.lba = a}}

\* Where eviction may put the blocks of st (at a level of the path, or -1: they
\* stay).  From the leaf to the root each bucket takes eligible blocks while
\* it has room, so a block is passed over only by a bucket that is full.
Evictions(leaf, st, pm) ==
  {p \in [st -> -1 .. ORAM_L] :
     LET at(i) == Cardinality({b \in st : p[b] = i})
         may(b, i) == is_ancestor(get_path[leaf][i], pm[b.lba])
     IN /\ \A b \in st : p[b] # -1 => may(b, p[b])
        /\ \A i \in Levels : at(i) <= ORAM_Z
        /\ \A b \in st, i \in Levels : i > p[b] /\ may(b, i) => at(i) = ORAM_Z}

\* The tree with the path to a leaf rewritten.
Rewritten(leaf, p) ==
  [n \in Nodes |-> IF \E i \in Levels : get_path[leaf][i] = n
                   THEN {b \in DOMAIN p : p[b] # -1 /\ get_path[leaf][p[b]] = n}
                   ELSE tree[n]]

\* oram_access(a, write, d), with the random new leaf it draws.  The path is
\* read, the operation done, the block moved to its new leaf, the stash
\* evicted into the path that was read, the map saved.
oram_access(a, write, d, new_leaf) ==
  LET leaf == pos_map[a]
      st == Fetched(leaf)
      st2 == Applied(a, write, d, st)
      pm == [pos_map EXCEPT ![a] = new_leaf]
  IN /\ ready /\ ~encrypted /\ ~broken
     /\ pos_map' = pm
     /\ \/ /\ write
           /\ last' = Did("write", a, d)
        \/ /\ ~write /\ Found(a, st) # {}
           /\ \E found \in Found(a, st) : last' = Did("read", a, found)
        \/ /\ ~write /\ Found(a, st) = {}
           /\ last' = Did("read", a, Zero)
     /\ spoilt' = (~write /\ Found(a, st) # {} /\ a \notin intact)
     /\ \E p \in Evictions(leaf, st2, pm) :
          /\ tree' = Rewritten(leaf, p)
          /\ stash' = {b \in st2 : p[b] = -1}
     /\ intact' = {b.lba : b \in stash'} \cap (IF write THEN intact \cup {a} ELSE intact)
     /\ disk_map' = pm
     /\ UNCHANGED <<magic, ready, encrypted, broken>>

\* What cannot be relied on after: a transfer that fails leaves the buffer as it is,
\* in an access and in oram_init; an access before oram_init uses an empty map; with
\* encryption on the first sector that is read does not hash to its leaf, and the
\* self-destruct sequence overwrites the first sector of the tree.
OramBreaks ==
  /\ ~broken
  /\ broken' = TRUE
  /\ UNCHANGED <<tree, disk_map, magic, ready, pos_map, stash, encrypted, intact, spoilt, last>>

\* Power is cut between two accesses.
OramPowerOff == /\ ready /\ ~broken
                /\ ready' = FALSE /\ stash' = {} /\ pos_map' = NoMap /\ last' = Cycled
                /\ intact' = {} /\ spoilt' = FALSE
                /\ UNCHANGED <<tree, disk_map, magic, encrypted, broken>>

\* The tree when the rewriting of a path from the leaf to the root, from which the tree
\* new comes, has got to level k, whose bucket is any mix of its old and new slots.
CutShort(leaf, new, k, bucket) ==
  [n \in Nodes |-> IF n = get_path[leaf][k] THEN bucket
                   ELSE IF \E i \in k + 1 .. ORAM_L : get_path[leaf][i] = n
                   THEN new[n] ELSE tree[n]]

\* Power is cut in an access, in a bucket or before the map is saved.  A block may
\* be there twice then, with its old and its new content, or be gone.
OramCut(a, write, d, new_leaf) ==
  LET leaf == pos_map[a]
      st2 == Applied(a, write, d, Fetched(leaf))
      pm == [pos_map EXCEPT ![a] = new_leaf]
  IN /\ ready /\ ~encrypted /\ ~broken
     /\ \E p \in Evictions(leaf, st2, pm) :
          LET new == Rewritten(leaf, p)
          IN \E k \in Levels :
               \E bucket \in SUBSET (tree[get_path[leaf][k]] \cup new[get_path[leaf][k]]) :
                 /\ Cardinality(bucket) <= ORAM_Z
                 /\ tree' = CutShort(leaf, new, k, bucket)
     /\ broken' = TRUE
     /\ ready' = FALSE /\ stash' = {} /\ pos_map' = NoMap /\ last' = Cycled
     /\ intact' = {} /\ spoilt' = FALSE
     /\ UNCHANGED <<disk_map, magic, encrypted>>

OramNext ==
  \/ oram_init \/ SwitchEncryption \/ OramBreaks \/ OramPowerOff
  \/ \E a \in Used, d \in BlockData, leaf \in Leaves :
       oram_access(a, TRUE, d, leaf) \/ OramCut(a, TRUE, d, leaf)
  \/ \E a \in Used, leaf \in Leaves :
       oram_access(a, FALSE, Zero, leaf) \/ OramCut(a, FALSE, Zero, leaf)

OramSpec == OramInit /\ [][OramNext]_oramVars

----------------------------------------------------------------------------
(* Properties.                                                              *)

\* Every variable has its type.
OramTypeOK ==
  /\ tree \in [Nodes -> SUBSET Block] /\ \A n \in Nodes : Cardinality(tree[n]) <= ORAM_Z
  /\ disk_map \in [Used -> Leaves] /\ pos_map \in [Used -> Leaves]
  /\ magic \in BOOLEAN /\ ready \in BOOLEAN /\ stash \subseteq Block /\ last \in Events
  /\ encrypted \in BOOLEAN /\ broken \in BOOLEAN /\ intact \subseteq Used /\ spoilt \in BOOLEAN

\* Everything that is stored: the stash and all buckets.
Stored == stash \cup UNION {tree[n] : n \in Nodes}

\* A block in the tree lies on the path to its leaf, by the map in RAM and,
\* what matters for the next boot, by the map on the medium, even when the power was
\* cut in the middle of an access.  No logical block is stored twice, with the same
\* or another content, until a cut in an access.
PathInvariant ==
  /\ \A n \in Nodes : \A b \in tree[n] : is_ancestor(n, disk_map[b.lba])
  /\ ready => pos_map = disk_map
  /\ ~broken => \A m, n \in Nodes : m # n => \A b \in tree[m], c \in tree[n] : b.lba # c.lba
  /\ ~broken => \A n \in Nodes : \A b \in tree[n], c \in stash : b.lba # c.lba
  /\ ~broken => \A n \in Nodes : \A b, c \in tree[n] : b.lba = c.lba => b = c
  /\ ~broken => \A b, c \in stash : b.lba = c.lba => b = c

\* The stash array never overflows: an access fetches at most all the other
\* logical blocks, so "Stash overflow!" is never reported.
StashFits ==
  \A a \in Used :
    ready /\ ~broken =>
      /\ Cardinality(Fetched(pos_map[a])) <= STASH_MAX
      /\ Found(a, Fetched(pos_map[a])) = {}
         => Cardinality(Fetched(pos_map[a])) < STASH_MAX

\* Every access finds its block where the map says and has room for its path,
\* through any number of evictions and of power cycles between accesses (oram_access).
OramInv == OramTypeOK /\ PathInvariant /\ StashFits

\* The content of block a as a user sees it.
View(a) == IF \E b \in Stored : b.lba = a
           THEN (CHOOSE b \in Stored : b.lba = a).data ELSE Zero

Array == INSTANCE BlockStore WITH Addresses <- Used, Blocks <- BlockData, ZeroBlock <- Zero,
                                  store <- [a \in Used |-> View(a)]

\* Until it is broken the oblivious store is an array of blocks, as far as their first
\* 508 bytes go: a write is seen by every later read, no access disturbs another
\* block, and only oram_init or a power cycle may lose one (oram_access, oram_init).
ImplementsStore == Array!StoreSpec

\* The M10 test reads the block it wrote and compares all 512 bytes (main.c:172).
WholeReads == ~spoilt
=============================================================================
