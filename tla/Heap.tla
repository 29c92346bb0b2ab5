-------------------------------- MODULE Heap --------------------------------
(***************************************************************************)
(* The kernel heap (kernel/heap.c): a first-fit free list whose headers    *)
(* lie in the heap itself, grown page by page through the physical memory  *)
(* manager.                                                                *)
(*                                                                         *)
(* Addresses are offsets from HEAP_BASE.  The list that starts at          *)
(* heap_head is the sequence `blocks' of its headers: `addr' is where the  *)
(* header is, `size' the bytes that follow it, `free' its flag.  A header  *)
(* holds HEAP_MAGIC_USED exactly when the flag says in use; the word in    *)
(* memory outlives the header's membership of the list, and kfree trusts   *)
(* it: `used_magic' is the set of the addresses where it is found.         *)
(*                                                                         *)
(* Callers keep pointers: ptr[h] is what caller h got from kmalloc last,   *)
(* held[h] whether it still owns it.                                       *)
(***************************************************************************)
EXTENDS Integers, Sequences

CONSTANTS
  HDR,              \* sizeof(heap_block_t)
  HEAP_ALIGN,
  PAGE_SIZE,
  HEAP_INIT_PAGES,
  HEAP_MAX_PAGES,   \* HEAP_MAX_SIZE in pages
  MAX_FRAMES,       \* frames of the machine
  Callers,          \* users of the heap
  Sizes             \* sizes they ask for, in bytes; never near SIZE_MAX,
                    \* where align_up would wrap

ASSUME HeapAssumption ==
  /\ HDR \in Nat \ {0} /\ HEAP_ALIGN \in Nat \ {0} /\ PAGE_SIZE \in Nat \ {0}
  /\ HEAP_INIT_PAGES \in Nat \ {0} /\ HEAP_MAX_PAGES \in Nat /\ MAX_FRAMES \in Nat
  /\ HEAP_INIT_PAGES * PAGE_SIZE > HDR
  /\ HEAP_INIT_PAGES <= HEAP_MAX_PAGES
  /\ Sizes \subseteq Nat

VARIABLES
  blocks,      \* the list of headers
  heap_end,    \* one past the last mapped byte
  used_magic,  \* addresses where the word HEAP_MAGIC_USED is found
  free_frames, \* frames the physical memory manager has left
  ptr,         \* the pointer caller h got last
  req,         \* the size it asked for
  held         \* callers that own what their pointer points to

heapVars == <<blocks, heap_end, used_magic, free_frames, ptr, req, held>>

NULL == 0    \* no block's user pointer is at offset 0

RoundUp(n, m) == n + (m - 1) - ((n + (m - 1)) % m)
align_up(n) == RoundUp(n, HEAP_ALIGN)

\* First address after a block.
After(b) == b.addr + HDR + b.size

HeapInit ==
  /\ heap_end = HEAP_INIT_PAGES * PAGE_SIZE
  /\ blocks = <<[addr |-> 0, size |-> heap_end - HDR, free |-> TRUE]>>
  /\ used_magic = {}
  /\ free_frames \in 0 .. MAX_FRAMES
  /\ ptr = [h \in Callers |-> NULL]
  /\ req = [h \in Callers |-> 0]
  /\ held = {}

----------------------------------------------------------------------------

\* Mutant: the walk does not look at the free flag.
FitAny(bs, n) == {i \in 1 .. Len(bs) : bs[i].size >= n}

\* Positions of the free blocks of list bs that are large enough.
Fit(bs, n) == {i \in 1 .. Len(bs) : bs[i].free /\ bs[i].size >= n}

\* The list after taking n bytes from its block i, without and with a split.
Take(bs, i) == [bs EXCEPT ![i] = [addr |-> bs[i].addr, size |-> bs[i].size, free |-> FALSE]]

Split(bs, i, n) ==
  [k \in 1 .. Len(bs) + 1 |->
     IF k < i THEN bs[k]
     ELSE IF k = i THEN [addr |-> bs[i].addr, size |-> n, free |-> FALSE]
     ELSE IF k = i + 1 THEN [addr |-> bs[i].addr + HDR + n,
                             size |-> bs[i].size - n - HDR, free |-> TRUE]
     ELSE bs[k - 1]]

\* First fit over the list bs, for caller h: the block found is split when
\* what is left holds a header and more than HEAP_ALIGN bytes.
FirstFit(bs, n, size, h) ==
  \E i \in Fit(bs, n) :
    /\ \A j \in Fit(bs, n) : i <= j
    /\ blocks' = IF bs[i].size - n > HDR + HEAP_ALIGN THEN Split(bs, i, n) ELSE Take(bs, i)
    /\ used_magic' = used_magic \cup {bs[i].addr}
    /\ ptr' = [ptr EXCEPT ![h] = bs[i].addr + HDR]
    /\ req' = [req EXCEPT ![h] = size]
    /\ held' = held \cup {h}

GrowBytes(n) == RoundUp(HDR + n, PAGE_SIZE)

\* grow_heap: nothing is done at the ceiling; when the frames run out, the
\* ones taken so far stay mapped behind heap_end and are not given back.
GrowFails(n) ==
  \/ /\ heap_end + GrowBytes(n) > HEAP_MAX_PAGES * PAGE_SIZE
     /\ UNCHANGED free_frames
  \/ /\ heap_end + GrowBytes(n) <= HEAP_MAX_PAGES * PAGE_SIZE
     /\ free_frames < GrowBytes(n) \div PAGE_SIZE
     /\ free_frames' = 0

\* One free block covers the new pages, behind the last one of the list.
GrowsTo(n) ==
  Append(blocks, [addr |-> heap_end, size |-> GrowBytes(n) - HDR, free |-> TRUE])

\* A size of 0 is refused before anything is looked at.
kmalloc(h, size) ==
  LET n == align_up(size) IN
  /\ h \notin held /\ size # 0
  /\ \/ /\ FirstFit(blocks, n, size, h)
        /\ UNCHANGED <<heap_end, free_frames>>
     \/ /\ Fit(blocks, n) = {}
        /\ GrowFails(n)
        /\ ptr' = [ptr EXCEPT ![h] = NULL]
        /\ UNCHANGED <<blocks, heap_end, used_magic, req, held>>
     \/ /\ Fit(blocks, n) = {}
        /\ heap_end + GrowBytes(n) <= HEAP_MAX_PAGES * PAGE_SIZE
        /\ free_frames >= GrowBytes(n) \div PAGE_SIZE
        /\ free_frames' = free_frames - (GrowBytes(n) \div PAGE_SIZE)
        /\ heap_end' = heap_end + GrowBytes(n)
        /\ FirstFit(GrowsTo(n), n, size, h)

\* The list after freeing its block i: a free successor is merged into it.
Freed(i) ==
  LET merge == i < Len(blocks) /\ blocks[i + 1].free IN
  [k \in 1 .. (IF merge THEN Len(blocks) - 1 ELSE Len(blocks)) |->
     IF k < i THEN blocks[k]
     ELSE IF k = i THEN [addr |-> blocks[i].addr,
                         size |-> IF merge THEN blocks[i].size + HDR + blocks[i + 1].size
                                  ELSE blocks[i].size,
                         free |-> TRUE]
     ELSE IF merge THEN blocks[k + 1] ELSE blocks[k]]

\* Mutant: the magic word is left in a freed header.
KeepsMagic(p) ==
  \/ /\ p = NULL \/ p - HDR \notin used_magic
     /\ UNCHANGED <<blocks, used_magic>>
  \/ /\ p # NULL /\ p - HDR \in used_magic
     /\ UNCHANGED used_magic
     /\ \E i \in 1 .. Len(blocks) : blocks[i].addr = p - HDR /\ blocks' = Freed(i)

\* kfree on the address p: unless the word before it is HEAP_MAGIC_USED an
\* error is logged and nothing is touched.
kfree(p) ==
  \/ /\ p = NULL \/ p - HDR \notin used_magic
     /\ UNCHANGED <<blocks, used_magic>>
  \/ /\ p # NULL /\ p - HDR \in used_magic
     /\ used_magic' = used_magic \ {p - HDR}
     /\ \E i \in 1 .. Len(blocks) : blocks[i].addr = p - HDR /\ blocks' = Freed(i)

\* A caller gives back what it holds.
Release(h) == /\ h \in held
              /\ kfree(ptr[h])
              /\ held' = held \ {h}
              /\ UNCHANGED <<heap_end, free_frames, ptr, req>>

\* A caller frees once more a pointer it has given back.  The word kfree looks at
\* tells nothing once the block went to somebody else: freeing it then takes it
\* from its new owner, so callers are taken not to do that.
FreeAgain(h) == /\ h \notin held
                /\ kfree(ptr[h])
                /\ UNCHANGED <<heap_end, free_frames, ptr, req, held>>

\* The rest of the kernel takes frames and gives them back.
OthersUseFrames == /\ free_frames' \in 0 .. MAX_FRAMES
                   /\ UNCHANGED <<blocks, heap_end, used_magic, ptr, req, held>>

Reissued(h) == \E g \in held : ptr[g] = ptr[h]

HeapNext == \/ \E h \in Callers : \/ \E size \in Sizes : kmalloc(h, size)
                                  \/ Release(h)
                                  \/ ~Reissued(h) /\ FreeAgain(h)
            \/ OthersUseFrames

HeapSpec == HeapInit /\ [][HeapNext]_heapVars

----------------------------------------------------------------------------
(* Properties.                                                              *)

\* Every variable has its type.
HeapTypeOK ==
  /\ blocks \in Seq([addr : Nat, size : Nat, free : BOOLEAN])
  /\ heap_end \in Nat /\ used_magic \subseteq Nat
  /\ free_frames \in 0 .. MAX_FRAMES
  /\ ptr \in [Callers -> Nat] /\ req \in [Callers -> Nat] /\ held \subseteq Callers

\* The blocks tile the mapped heap: each starts where the one before it
\* ends, the first at the base, the last at heap_end.  No byte belongs to two
\* blocks and none is lost, whatever was split, merged or grown.
Tiling ==
  /\ Len(blocks) > 0 /\ blocks[1].addr = 0
  /\ After(blocks[Len(blocks)]) = heap_end
  /\ \A i \in 1 .. Len(blocks) - 1 : blocks[i + 1].addr = After(blocks[i])
  /\ heap_end <= HEAP_MAX_PAGES * PAGE_SIZE

\* Every caller owns a block of its own, in use and at least as large as it
\* asked for.
OwnBlock ==
  \A h \in held :
    /\ \E i \in 1 .. Len(blocks) : /\ blocks[i].addr + HDR = ptr[h]
                                   /\ ~blocks[i].free
                                   /\ blocks[i].size >= req[h]
    /\ \A g \in held : ptr[g] = ptr[h] => g = h

\* The words kfree trusts are exactly the headers of the blocks in use: a
\* header that a merge has dropped from the list never looks like one in use,
\* so freeing a pointer twice is noticed as long as nobody was given it again.
MagicSound ==
  used_magic = {blocks[i].addr : i \in {j \in 1 .. Len(blocks) : ~blocks[j].free}}

\* After growing, the retry inside kmalloc finds a block, so the recursion is
\* one level deep.
RetryFits == \A size \in Sizes : Fit(GrowsTo(align_up(size)), align_up(size)) # {}

\* The block list is sound after any sequence of kmalloc and kfree, with frames
\* running out in between: it tiles the heap, every caller has a block of its own,
\* the magic words in memory agree with the list, and growing it satisfies the
\* request it grew for.
HeapInv == HeapTypeOK /\ Tiling /\ OwnBlock /\ MagicSound /\ RetryFits
=============================================================================
