-------------------------------- MODULE PMM --------------------------------
(***************************************************************************)
(* The physical memory manager (kernel/pmm.c): a bitmap with one bit per   *)
(* page frame, itself stored in memory it manages.                         *)
(*                                                                         *)
(* The bits of the bitmap are the set `marked' of the frames whose bit is  *)
(* set; the padding bits of the last byte are set for ever and left out.   *)
(* `owned' records the frames callers hold: the ones pmm_alloc_frame       *)
(* returned and nobody has freed yet.                                      *)
(***************************************************************************)
EXTENDS Integers, FiniteSets, Sequences

CONSTANTS
  MemMaps,    \* the memory maps a boot loader may hand over: sequences of
              \* [base, length, usable], ascending and disjoint
  FRAME_SIZE, \* bytes of a frame (PAGE_SIZE in pmm.c)
  BITS        \* bits of a byte (8)

ASSUME PmmAssumption ==
  /\ FRAME_SIZE \in Nat \ {0, 1} /\ BITS \in Nat \ {0}
  /\ MemMaps \subseteq Seq([base : Nat, length : Nat, usable : BOOLEAN])

VARIABLES
  memmap,            \* the map found at boot
  total_frames,
  bitmap_phys_addr,
  marked,            \* the frames whose bit is set
  free_memory,
  owned,             \* frames held by callers
  panicked           \* pmm_panic was called

pmmVars == <<memmap, total_frames, bitmap_phys_addr, marked, free_memory, owned, panicked>>

Frames == 0 .. total_frames - 1

----------------------------------------------------------------------------
(* pmm_init, on the memory map mm.                                          *)

PageUp(n) == ((n + FRAME_SIZE - 1) \div FRAME_SIZE) * FRAME_SIZE

Usable(mm) == {k \in DOMAIN mm : mm[k].usable}

End(mm, k) == mm[k].base + mm[k].length

\* Frames below the end of the highest usable entry are tracked.
FrameCount(mm) ==
  LET ends == {End(mm, k) : k \in Usable(mm)}
      max == CHOOSE e \in ends : \A f \in ends : f <= e IN
  IF ends = {} THEN 0 ELSE max \div FRAME_SIZE

BitmapSize(mm) == (FrameCount(mm) + BITS - 1) \div BITS

\* Usable entries that hold the bitmap at their first page boundary.
Fits(mm) == {k \in Usable(mm) : /\ End(mm, k) >= PageUp(mm[k].base)
                                /\ End(mm, k) - PageUp(mm[k].base) >= BitmapSize(mm)}

BitmapBase(mm) ==
  PageUp(mm[CHOOSE k \in Fits(mm) : \A j \in Fits(mm) : k <= j].base)

BitmapFrames(mm) == BitmapBase(mm) \div FRAME_SIZE ..
                    ((BitmapBase(mm) + BitmapSize(mm) + FRAME_SIZE - 1) \div FRAME_SIZE) - 1

\* Mutant: partial frames at the edges of an entry count as its own.
PartialFrames(mm, k) ==
  mm[k].base \div FRAME_SIZE .. (PageUp(End(mm, k)) \div FRAME_SIZE) - 1

\* The frames an entry holds completely: partial ones at its edges are not
\* made free.
EntryFrames(mm, k) ==
  PageUp(mm[k].base) \div FRAME_SIZE .. (End(mm, k) \div FRAME_SIZE) - 1

FreeAtBoot(mm) ==
  {f \in 0 .. FrameCount(mm) - 1 : \E k \in Usable(mm) : f \in EntryFrames(mm, k)}
  \ (BitmapFrames(mm) \cup {0})

\* No usable memory at all, or no place for the bitmap.
Panics(mm) == (\A k \in Usable(mm) : End(mm, k) = 0) \/ Fits(mm) = {}

PmmInit ==
  /\ memmap \in MemMaps
  /\ owned = {}
  /\ \/ /\ Panics(memmap)
        /\ panicked = TRUE
        /\ total_frames = 0 /\ bitmap_phys_addr = 0 /\ marked = {} /\ free_memory = 0
     \/ /\ ~Panics(memmap)
        /\ panicked = FALSE
        /\ total_frames = FrameCount(memmap)
        /\ bitmap_phys_addr = BitmapBase(memmap)
        /\ marked = Frames \ FreeAtBoot(memmap)
        /\ free_memory = Cardinality(FreeAtBoot(memmap)) * FRAME_SIZE

----------------------------------------------------------------------------

\* Mutant: the bit of the frame returned is not set.
AllocUnmarked ==
  /\ ~panicked
  /\ \E f \in Frames \ marked :
       /\ \A g \in Frames \ marked : f <= g
       /\ owned' = owned \cup {f}
  /\ free_memory' = IF free_memory >= FRAME_SIZE THEN free_memory - FRAME_SIZE ELSE 0
  /\ UNCHANGED <<memmap, total_frames, bitmap_phys_addr, marked, panicked>>

\* The search skips full bytes and takes the lowest clear bit.
pmm_alloc_frame ==
  /\ ~panicked
  /\ \E f \in Frames \ marked :
       /\ \A g \in Frames \ marked : f <= g
       /\ marked' = marked \cup {f}
       /\ owned' = owned \cup {f}
  /\ free_memory' = IF free_memory >= FRAME_SIZE THEN free_memory - FRAME_SIZE ELSE 0
  /\ UNCHANGED <<memmap, total_frames, bitmap_phys_addr, panicked>>

\* The address of a frame in use is taken back; anything else is a panic.
pmm_free_frame(addr) ==
  LET f == addr \div FRAME_SIZE IN
  /\ ~panicked
  /\ \/ /\ addr % FRAME_SIZE # 0 \/ f >= total_frames \/ f \notin marked
        /\ panicked' = TRUE
        /\ UNCHANGED <<marked, owned, free_memory>>
     \/ /\ addr % FRAME_SIZE = 0 /\ f < total_frames /\ f \in marked
        /\ marked' = marked \ {f}
        /\ owned' = owned \ {f}
        /\ free_memory' = free_memory + FRAME_SIZE
        /\ UNCHANGED panicked
  /\ UNCHANGED <<memmap, total_frames, bitmap_phys_addr>>

\* A caller frees what it holds.  A stale pointer to a frame freed before
\* comes back as the address of a free frame, or of the frame's new owner.
PmmNext ==
  \/ pmm_alloc_frame
  \/ \E f \in owned \cup (Frames \ marked) : pmm_free_frame(f * FRAME_SIZE)
  \/ pmm_free_frame(total_frames * FRAME_SIZE)
  \/ pmm_free_frame(1)

PmmSpec == PmmInit /\ [][PmmNext]_pmmVars

----------------------------------------------------------------------------
(* Properties.                                                              *)

\* Every variable has its type.
PmmTypeOK ==
  /\ total_frames \in Nat /\ bitmap_phys_addr \in Nat
  /\ marked \subseteq Frames /\ owned \subseteq Frames
  /\ free_memory \in Nat /\ panicked \in BOOLEAN

\* free_memory, which SYS_SYSINFO reports, is exactly the memory of the clear
\* bits; the saturating subtraction of pmm_alloc_frame never saturates.
FreeMemoryExact ==
  ~panicked => free_memory = Cardinality(Frames \ marked) * FRAME_SIZE

\* No frame is handed out twice: what callers hold is marked in the bitmap.
OwnedMarked == owned \subseteq marked

\* A frame that is handed out or can be lies completely in usable memory, is
\* not frame 0 and does not overlap the bytes of the bitmap: the rounding of
\* pmm_init at the unaligned edges of memory map entries and at the end of the
\* bitmap is right.
HandsOutUsable ==
  \A f \in owned \cup (Frames \ marked) :
    LET lo == f * FRAME_SIZE
        hi == lo + FRAME_SIZE IN
    /\ f # 0
    /\ \E k \in Usable(memmap) : memmap[k].base <= lo /\ hi <= End(memmap, k)
    /\ hi <= bitmap_phys_addr \/ lo >= bitmap_phys_addr + BitmapSize(memmap)

\* The books of the allocator agree in every state: the counter with the bitmap,
\* the bitmap with what callers hold (pmm_alloc_frame, pmm_free_frame), and what
\* is left to hand out with the memory map.
PmmInv == PmmTypeOK /\ FreeMemoryExact /\ OwnedMarked /\ HandsOutUsable
=============================================================================
