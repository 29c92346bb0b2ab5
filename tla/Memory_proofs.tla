--------------------------- MODULE Memory_proofs ----------------------------
(***************************************************************************)
(* Physical frames (pmm.c), the kernel heap (heap.c), page tables with     *)
(* their refinement of maps (vmm.c, task.c, elf.c), and task creation with *)
(* the ELF loader (task.c, elf.c, main.c).                                 *)
(***************************************************************************)
EXTENDS PMM, Heap, VMM, Loader, FiniteSetTheorems, SequenceTheorems, WellFoundedInduction, TLAPS

----------------------------------------------------------------------------
(* Physical frames.                                                         *)

\* Every set of natural numbers that is not empty has a least element: induction, in a
\* form the provers can use.
LEMMA LeastElement ==
  ASSUME NEW T, T \subseteq Nat, T # {}
  PROVE  \E n \in T : \A m \in T : n <= m
<1>1. IsWellFoundedOn(OpToRel(<, Nat), Nat)
  BY NatLessThanWellFounded
<1>2. PICK n \in T : \A m \in T : ~(<<m, n>> \in OpToRel(<, Nat))
  BY <1>1, WFMin
<1>3. \A m \in T : <<m, n>> \in OpToRel(<, Nat) <=> m < n
  BY DEF OpToRel
<1>4. \A m \in T : ~(m < n)
  BY <1>2, <1>3, Zenon
<1>5. \A m \in T : n <= m
  BY <1>4
<1> QED
  BY <1>5

\* Integer division, as the provers need it.
LEMMA DivFacts ==
  ASSUME NEW n \in Nat, NEW d \in Nat, d > 0
  PROVE n \div d \in Nat /\ (n \div d) * d <= n /\ n < (n \div d) * d + d
OBVIOUS

\* Multiplication is monotonic.
LEMMA MulMono ==
  ASSUME NEW a \in Nat, NEW b \in Nat, NEW d \in Nat, a <= b
  PROVE a * d \in Nat /\ a * d <= b * d
OBVIOUS

\* Dividing a multiple.
LEMMA DivMul ==
  ASSUME NEW a \in Nat, NEW d \in Nat, d > 0
  PROVE (a * d) \div d = a /\ (a * d) % d = 0 /\ a * d \in Nat
OBVIOUS

\* Of finitely many numbers one is the largest.
LEMMA LargestElement ==
  ASSUME NEW n \in Nat, NEW f \in [1 .. n -> Nat], NEW K \in SUBSET (1 .. n), K # {}
  PROVE  \E k \in K : \A j \in K : f[j] <= f[k]
<1> DEFINE Best(i, k) == k \in K /\ k <= i /\ \A j \in K : j <= i => f[j] <= f[k]
           P(i) == (\A j \in K : i < j) \/ \E k \in K : Best(i, k)
           Bad == {i \in 0 .. n : ~P(i)}
<1>0. K \subseteq Nat /\ \A j \in K : 1 <= j /\ j <= n /\ f[j] \in Nat
  OBVIOUS
<1>1. ASSUME Bad # {} PROVE FALSE
  <2>1. PICK i \in Bad : \A j \in Bad : i <= j
    <3>1. Bad \subseteq Nat
      OBVIOUS
    <3> HIDE DEF Bad
    <3> QED
      BY <1>1, <3>1, LeastElement
  <2>2. i \in 0 .. n /\ ~P(i)
    BY <2>1
  <2>3. i # 0
    BY <1>0, <2>2
  <2>4. i - 1 \in 0 .. n /\ ~(i <= i - 1)
    BY <2>2, <2>3
  <2>5. P(i - 1)
    BY <2>1, <2>4
  <2>6. \A j \in K : (j <= i <=> j <= i - 1 \/ j = i) /\ (i < j <=> i - 1 < j /\ j # i)
    <3>1. i \in Int /\ \A j \in K : j \in Int
      BY <1>0, <2>2
    <3> HIDE DEF P
    <3> QED
      BY <3>1
  <2>7. CASE i \notin K
    BY <2>2, <2>5, <2>6, <2>7
  <2>8. CASE i \in K /\ \A j \in K : i - 1 < j
    <3>1. \A j \in K : j <= i => j = i
      BY <1>0, <2>2, <2>8
    <3>2. Best(i, i)
      BY <1>0, <2>2, <2>8, <3>1
    <3> QED
      BY <2>2, <2>8, <3>2
  <2>9. ASSUME i \in K, NEW k \in K, Best(i - 1, k) PROVE FALSE
    <3>1. CASE f[i] <= f[k]
      <4>1. Best(i, k)
        BY <1>0, <2>2, <2>6, <2>9, <3>1
      <4> QED
        BY <2>2, <4>1
    <3>2. CASE f[k] < f[i]
      <4>1. \A j \in K : j <= i => f[j] <= f[i]
        <5> SUFFICES ASSUME NEW j \in K, j <= i PROVE f[j] <= f[i]
          OBVIOUS
        <5>1. CASE j = i
          BY <1>0, <5>1
        <5>2. CASE j <= i - 1
          <6>1. f[j] <= f[k]
            BY <2>9, <5>2
          <6>2. f[j] \in Nat /\ f[k] \in Nat /\ f[i] \in Nat
            BY <1>0, <2>9
          <6>3. \A x, y, z \in Nat : x <= y /\ y < z => x <= z
            OBVIOUS
          <6> QED
            BY <3>2, <6>1, <6>2, <6>3, Zenon
        <5> QED
          BY <2>6, <5>1, <5>2
      <4>2. Best(i, i)
        BY <2>2, <2>9, <4>1
      <4> QED
        BY <2>2, <2>9, <4>2
    <3>3. f[i] \in Nat /\ f[k] \in Nat
      BY <1>0, <2>9
    <3>4. f[i] <= f[k] \/ f[k] < f[i]
      BY ONLY <3>3
    <3> QED
      BY <3>1, <3>2, <3>4
  <2> QED
    BY <2>5, <2>7, <2>8, <2>9
<1>2. P(n)
  BY <1>1, n \in 0 .. n
<1>3. \A j \in K : ~(n < j)
  BY <1>0
<1> QED
  BY <1>0, <1>2, <1>3

\* The named assumption in the form the proofs use.
LEMMA PmmConstants ==
  /\ FRAME_SIZE \in Nat /\ FRAME_SIZE > 1 /\ BITS \in Nat /\ BITS > 0
  /\ \A mm \in MemMaps :
       /\ Len(mm) \in Nat /\ DOMAIN mm = 1 .. Len(mm)
       /\ \A k \in DOMAIN mm : mm[k].base \in Nat /\ mm[k].length \in Nat /\ End(mm, k) \in Nat
<1>1. FRAME_SIZE \in Nat /\ FRAME_SIZE > 1 /\ BITS \in Nat /\ BITS > 0
  BY PmmAssumption
<1>2. ASSUME NEW mm \in MemMaps PROVE mm \in Seq([base : Nat, length : Nat, usable : BOOLEAN])
  BY PmmAssumption
<1> QED
  <2> SUFFICES ASSUME NEW mm \in MemMaps
               PROVE  /\ Len(mm) \in Nat /\ DOMAIN mm = 1 .. Len(mm)
                      /\ \A k \in DOMAIN mm : mm[k].base \in Nat /\ mm[k].length \in Nat
                         /\ End(mm, k) \in Nat
    BY <1>1
  <2>1. Len(mm) \in Nat /\ DOMAIN mm = 1 .. Len(mm)
    BY <1>2
  <2>2. ASSUME NEW k \in DOMAIN mm PROVE mm[k].base \in Nat /\ mm[k].length \in Nat
               /\ End(mm, k) \in Nat
    <3>1. mm[k] \in [base : Nat, length : Nat, usable : BOOLEAN]
      <4>1. mm \in Seq([base : Nat, length : Nat, usable : BOOLEAN]) /\ k \in 1 .. Len(mm)
        BY <1>2, <2>1
      <4> QED
        BY <4>1, ElementOfSeq
    <3> QED
      BY <3>1 DEF End
  <2> QED
    BY <2>1, <2>2

\* Rounding an address up to a frame.
LEMMA PageUpFacts ==
  ASSUME NEW n \in Nat
  PROVE  /\ PageUp(n) \in Nat /\ PageUp(n) >= n
         /\ (PageUp(n) \div FRAME_SIZE) * FRAME_SIZE = PageUp(n)
<1> DEFINE q == (n + FRAME_SIZE - 1) \div FRAME_SIZE
<1>1. n + FRAME_SIZE - 1 \in Nat
  BY PmmConstants
<1>2. q \in Nat /\ n + FRAME_SIZE - 1 < q * FRAME_SIZE + FRAME_SIZE
  <2>1. FRAME_SIZE \in Nat /\ FRAME_SIZE > 0
    BY PmmConstants
  <2> QED
    BY <1>1, <2>1, DivFacts
<1>3. PageUp(n) = q * FRAME_SIZE
  BY DEF PageUp
<1> HIDE DEF q
<1>4. q * FRAME_SIZE \in Nat /\ (q * FRAME_SIZE) \div FRAME_SIZE = q
  BY <1>2, PmmConstants, DivMul
<1> QED
  BY <1>2, <1>3, <1>4, PmmConstants

\* The bitmap's size is a number for every memory map.
LEMMA FrameCountNat ==
  ASSUME NEW mm \in MemMaps
  PROVE  FrameCount(mm) \in Nat /\ BitmapSize(mm) \in Nat
<1> DEFINE ends == {End(mm, k) : k \in Usable(mm)}
           max == CHOOSE e \in ends : \A f \in ends : f <= e
<1>1. FrameCount(mm) \in Nat
  <2>1. CASE ends = {}
    BY <2>1 DEF FrameCount
  <2>2. CASE ends # {}
    <3> DEFINE f == [k \in 1 .. Len(mm) |-> End(mm, k)]
    <3>1. f \in [1 .. Len(mm) -> Nat] /\ Usable(mm) \in SUBSET (1 .. Len(mm)) /\ Usable(mm) # {}
      BY <2>2, PmmConstants DEF Usable
    <3>2. \A k \in Usable(mm) : f[k] = End(mm, k)
      BY <3>1
    <3> HIDE DEF f
    <3>3. PICK k \in Usable(mm) : \A j \in Usable(mm) : f[j] <= f[k]
      BY <3>1, PmmConstants, LargestElement
    <3>4. \E e \in ends : \A g \in ends : g <= e
      BY <3>2, <3>3
    <3>5. max \in ends
      BY <3>4
    <3>6. \A e \in ends : e \in Nat
      BY PmmConstants DEF Usable
    <3> HIDE DEF max
    <3>7. max \in Nat
      BY <3>5, <3>6
    <3>8. FrameCount(mm) = max \div FRAME_SIZE
      BY <2>2 DEF FrameCount, max
    <3> QED
      BY <3>7, <3>8, PmmConstants, DivFacts
  <2> QED
    BY <2>1, <2>2
<1>2. FrameCount(mm) + BITS - 1 \in Nat
  BY <1>1, PmmConstants
<1> QED
  BY <1>1, <1>2, PmmConstants, DivFacts DEF BitmapSize

\* The bitmap begins at a frame.
LEMMA BitmapBaseFacts ==
  ASSUME NEW mm \in MemMaps, Fits(mm) # {}
  PROVE  BitmapBase(mm) \in Nat /\ (BitmapBase(mm) \div FRAME_SIZE) * FRAME_SIZE = BitmapBase(mm)
<1> DEFINE k0 == CHOOSE k \in Fits(mm) : \A j \in Fits(mm) : k <= j
<1>1. Fits(mm) \subseteq DOMAIN mm /\ Fits(mm) \subseteq Nat
  BY PmmConstants DEF Fits, Usable
<1>2. \E k \in Fits(mm) : \A j \in Fits(mm) : k <= j
  BY <1>1, LeastElement
<1>3. k0 \in Fits(mm)
  BY <1>2
<1>4. mm[k0].base \in Nat /\ BitmapBase(mm) = PageUp(mm[k0].base)
  BY <1>1, <1>3, PmmConstants DEF BitmapBase
<1> QED
  BY <1>4, PageUpFacts

\* The frame f lies in usable memory and beside the bitmap.
Sound(f) ==
  LET lo == f * FRAME_SIZE
      hi == lo + FRAME_SIZE IN
  /\ f # 0
  /\ \E k \in Usable(memmap) : memmap[k].base <= lo /\ hi <= End(memmap, k)
  /\ hi <= bitmap_phys_addr \/ lo >= bitmap_phys_addr + BitmapSize(memmap)

\* pmm_init frees only frames that lie whole in a usable entry and beside the bitmap.
LEMMA FreeAtBootSound ==
  ASSUME memmap \in MemMaps, Fits(memmap) # {}, bitmap_phys_addr = BitmapBase(memmap),
         NEW f \in FreeAtBoot(memmap)
  PROVE  Sound(f)
<1> USE PmmConstants
<1> DEFINE lo == f * FRAME_SIZE
           hi == lo + FRAME_SIZE
           B == BitmapBase(memmap)
           S == BitmapSize(memmap)
<1>0. f \in Nat /\ f # 0 /\ f \notin BitmapFrames(memmap) /\ FrameCount(memmap) \in Nat
      /\ S \in Nat /\ B \in Nat
  BY FrameCountNat, BitmapBaseFacts DEF FreeAtBoot
<1>1. lo \in Nat /\ hi \in Nat /\ hi = (f + 1) * FRAME_SIZE
  BY <1>0
<1>2. PICK k \in Usable(memmap) : f \in EntryFrames(memmap, k)
  BY DEF FreeAtBoot
<1>3. memmap[k].base <= lo /\ hi <= End(memmap, k)
  <2>1. memmap[k].base \in Nat /\ End(memmap, k) \in Nat
    BY DEF Usable
  <2> DEFINE p == PageUp(memmap[k].base)
             q == p \div FRAME_SIZE
             r == End(memmap, k) \div FRAME_SIZE
  <2>2. p \in Nat /\ p >= memmap[k].base /\ q * FRAME_SIZE = p /\ q \in Nat
    <3>1. p \in Nat /\ p >= memmap[k].base /\ q * FRAME_SIZE = p
      BY <2>1, PageUpFacts
    <3>2. q \in Nat
      BY <3>1, FRAME_SIZE > 0, DivFacts
    <3> QED
      BY <3>1, <3>2
  <2>3. r \in Nat /\ r * FRAME_SIZE <= End(memmap, k)
    BY <2>1, FRAME_SIZE > 0, FRAME_SIZE \in Nat, DivFacts, Zenon
  <2>4. f \in q .. r - 1
    BY <1>2 DEF EntryFrames
  <2> HIDE DEF p, q, r
  <2>5. q <= f /\ f + 1 <= r
    BY <1>0, <2>2, <2>3, <2>4
  <2>6. q * FRAME_SIZE <= lo
    BY <1>0, <2>2, <2>5, MulMono
  <2>7. hi <= r * FRAME_SIZE /\ r * FRAME_SIZE \in Nat
    <3>1. f + 1 \in Nat /\ r \in Nat /\ f + 1 <= r /\ FRAME_SIZE \in Nat
      BY <1>0, <2>3, <2>5
    <3>2. (f + 1) * FRAME_SIZE <= r * FRAME_SIZE /\ r * FRAME_SIZE \in Nat
      BY ONLY <3>1, MulMono, r <= r
    <3> QED
      BY <1>1, <3>2, Zenon
  <2> QED
    BY <1>1, <2>1, <2>2, <2>3, <2>6, <2>7
<1>4. hi <= B \/ lo >= B + S
  <2> DEFINE q == B \div FRAME_SIZE
             r == (B + S + FRAME_SIZE - 1) \div FRAME_SIZE
  <2>1. q \in Nat /\ q * FRAME_SIZE = B
    BY <1>0, BitmapBaseFacts, DivFacts
  <2>2. B + S + FRAME_SIZE - 1 \in Nat
    BY <1>0
  <2>3. r \in Nat /\ B + S + FRAME_SIZE - 1 < r * FRAME_SIZE + FRAME_SIZE
    BY <2>2, DivFacts
  <2>4. f \notin q .. r - 1
    BY <1>0 DEF BitmapFrames
  <2> HIDE DEF q, r
  <2>5. f + 1 <= q \/ r <= f
    BY <1>0, <2>1, <2>3, <2>4
  <2>6. CASE f + 1 <= q
    BY <1>0, <1>1, <2>1, <2>6, MulMono
  <2>7. CASE r <= f
    <3>1. r * FRAME_SIZE <= lo /\ r * FRAME_SIZE \in Nat
      BY <1>0, <2>3, <2>7, MulMono
    <3> QED
      BY <1>0, <1>1, <2>3, <3>1
  <2> QED
    BY <2>5, <2>6, <2>7
<1> QED
  BY <1>0, <1>2, <1>3, <1>4 DEF Sound

\* The inductive invariant: the free counter and the owners agree with the bitmap, and
\* every frame that is free or owned is sound.
PmmIInv ==
  /\ PmmTypeOK /\ FreeMemoryExact /\ OwnedMarked
  /\ \A f \in owned \cup (Frames \ marked) : Sound(f)

\* The invariant gives PmmInv.
LEMMA PmmIInvImplies == PmmIInv => PmmInv
BY DEF PmmIInv, PmmInv, HandsOutUsable, Sound

\* There are finitely many frames.
LEMMA FramesFinite ==
  ASSUME total_frames \in Nat
  PROVE  /\ IsFiniteSet(Frames \ marked) /\ Cardinality(Frames \ marked) \in Nat
         /\ Frames \subseteq Nat /\ \A f \in Frames : f < total_frames
<1>1. IsFiniteSet(Frames)
  BY FS_Interval DEF Frames
<1>2. Frames \ marked \in SUBSET Frames
  OBVIOUS
<1> QED
  BY <1>1, <1>2, FS_Subset, FS_CardinalityType DEF Frames

\* pmm_init establishes the invariant, or panics.
LEMMA PmmInitOK == PmmInit => PmmIInv
<1> SUFFICES ASSUME PmmInit PROVE PmmIInv
  OBVIOUS
<1>1. CASE Panics(memmap) /\ panicked = TRUE /\ total_frames = 0 /\ bitmap_phys_addr = 0
           /\ marked = {} /\ free_memory = 0
  <2>1. Frames = {} /\ owned = {}
    BY <1>1 DEF Frames, PmmInit
  <2> QED
    BY <1>1, <2>1 DEF PmmIInv, PmmTypeOK, FreeMemoryExact, OwnedMarked
<1>2. CASE /\ ~Panics(memmap)
           /\ panicked = FALSE
           /\ total_frames = FrameCount(memmap)
           /\ bitmap_phys_addr = BitmapBase(memmap)
           /\ marked = Frames \ FreeAtBoot(memmap)
           /\ free_memory = Cardinality(FreeAtBoot(memmap)) * FRAME_SIZE
  <2>1. memmap \in MemMaps /\ Fits(memmap) # {} /\ owned = {}
    BY <1>2 DEF PmmInit, Panics
  <2>2. total_frames \in Nat /\ bitmap_phys_addr \in Nat
    BY <1>2, <2>1, FrameCountNat, BitmapBaseFacts
  <2>3. FreeAtBoot(memmap) \subseteq Frames
    BY <1>2 DEF FreeAtBoot, Frames
  <2>4. Frames \ marked = FreeAtBoot(memmap)
    BY <1>2, <2>3
  <2>5. Cardinality(FreeAtBoot(memmap)) \in Nat
    BY <2>2, <2>4, FramesFinite
  <2>6. free_memory \in Nat
    BY <1>2, <2>5, PmmConstants
  <2>7. PmmTypeOK /\ FreeMemoryExact /\ OwnedMarked
    BY <1>2, <2>1, <2>2, <2>4, <2>6 DEF PmmTypeOK, FreeMemoryExact, OwnedMarked
  <2>8. \A f \in FreeAtBoot(memmap) : Sound(f)
    BY <1>2, <2>1, FreeAtBootSound
  <2> QED
    BY <2>1, <2>4, <2>7, <2>8 DEF PmmIInv
<1> QED
  BY <1>1, <1>2 DEF PmmInit

\* pmm_alloc_frame keeps the invariant: it hands out a free frame, from the hint on or
\* from the beginning.
LEMMA AllocOK == ASSUME PmmIInv, pmm_alloc_frame PROVE PmmIInv'
<1> USE PmmConstants
<1> DEFINE C == Cardinality(Frames \ marked)
<1>0. /\ ~panicked /\ panicked' = panicked
      /\ UNCHANGED <<memmap, total_frames, bitmap_phys_addr>> /\ Frames' = Frames
      /\ free_memory' = IF free_memory >= FRAME_SIZE THEN free_memory - FRAME_SIZE ELSE 0
  BY DEF pmm_alloc_frame, Frames
<1>1. PICK f \in Frames \ marked : marked' = marked \cup {f} /\ owned' = owned \cup {f}
  BY DEF pmm_alloc_frame
<1>2. total_frames \in Nat /\ marked \subseteq Frames /\ owned \subseteq Frames
  BY DEF PmmIInv, PmmTypeOK
<1>3. IsFiniteSet(Frames \ marked) /\ C \in Nat /\ free_memory = C * FRAME_SIZE
  BY <1>0, <1>2, FramesFinite DEF PmmIInv, FreeMemoryExact
<1>4. (Frames \ marked)' = (Frames \ marked) \ {f}
  BY <1>0, <1>1
<1>5. Cardinality((Frames \ marked)') = C - 1 /\ Cardinality((Frames \ marked)') \in Nat
  <2>1. C - 1 = Cardinality((Frames \ marked) \ {f})
    BY <1>3, FS_RemoveElement
  <2>2. Cardinality((Frames \ marked) \ {f}) \in Nat
    BY <1>3, FS_RemoveElement, FS_CardinalityType
  <2> QED
    BY <1>4, <2>1, <2>2
<1> HIDE DEF C
<1>6. free_memory' = (C - 1) * FRAME_SIZE /\ free_memory' \in Nat
  <2>1. C >= 1 /\ C - 1 \in Nat
    BY <1>3, <1>5
  <2>2. C * FRAME_SIZE = (C - 1) * FRAME_SIZE + FRAME_SIZE /\ (C - 1) * FRAME_SIZE \in Nat
    BY <1>3, <2>1
  <2> QED
    BY <1>0, <1>3, <2>2
<1>7. PmmTypeOK' /\ FreeMemoryExact' /\ OwnedMarked'
  BY <1>0, <1>1, <1>2, <1>5, <1>6 DEF PmmIInv, PmmTypeOK, FreeMemoryExact, OwnedMarked
<1>8. \A g \in (owned \cup (Frames \ marked))' : Sound(g)'
  <2>1. \A g : Sound(g)' <=> Sound(g)
    BY <1>0 DEF Sound
  <2> QED
    BY <1>0, <1>1, <2>1 DEF PmmIInv
<1> QED
  BY <1>7, <1>8 DEF PmmIInv

\* Freeing a frame that a caller holds; everything else is a panic.
LEMMA FreeOK ==
  ASSUME PmmIInv, NEW addr, pmm_free_frame(addr),
         \/ panicked' /\ UNCHANGED <<marked, owned, free_memory>>
         \/ \E f \in owned : /\ marked' = marked \ {f} /\ owned' = owned \ {f}
                             /\ free_memory' = free_memory + FRAME_SIZE
                             /\ UNCHANGED panicked
  PROVE  PmmIInv'
<1> USE PmmConstants
<1>0. ~panicked /\ UNCHANGED <<memmap, total_frames, bitmap_phys_addr>> /\ Frames' = Frames
  BY DEF pmm_free_frame, Frames
<1>a. \A g : Sound(g)' <=> Sound(g)
  BY <1>0 DEF Sound
<1>1. CASE panicked' /\ UNCHANGED <<marked, owned, free_memory>>
  <2>1. panicked' \in BOOLEAN
    BY DEF pmm_free_frame, PmmIInv, PmmTypeOK
  <2> QED
    BY <1>0, <1>a, <1>1, <2>1 DEF PmmIInv, PmmTypeOK, FreeMemoryExact, OwnedMarked
<1>2. ASSUME NEW f \in owned, marked' = marked \ {f}, owned' = owned \ {f},
             free_memory' = free_memory + FRAME_SIZE, UNCHANGED panicked
      PROVE  PmmIInv'
  <2>1. total_frames \in Nat /\ marked \subseteq Frames /\ owned \subseteq marked
        /\ free_memory \in Nat
    BY DEF PmmIInv, PmmTypeOK, OwnedMarked
  <2> DEFINE C == Cardinality(Frames \ marked)
  <2>2. IsFiniteSet(Frames \ marked) /\ C \in Nat /\ free_memory = C * FRAME_SIZE
    BY <1>0, <2>1, FramesFinite DEF PmmIInv, FreeMemoryExact
  <2>3. (Frames \ marked)' = (Frames \ marked) \cup {f} /\ f \notin Frames \ marked
    BY <1>0, <1>2, <2>1
  <2>4. Cardinality((Frames \ marked)') = C + 1
    BY <2>2, <2>3, FS_AddElement
  <2> HIDE DEF C
  <2>5. free_memory' = (C + 1) * FRAME_SIZE
    BY <1>2, <2>2
  <2>6. PmmTypeOK' /\ FreeMemoryExact' /\ OwnedMarked'
    BY <1>0, <1>2, <2>1, <2>4, <2>5 DEF PmmIInv, PmmTypeOK, FreeMemoryExact, OwnedMarked
  <2>7. \A g \in (owned \cup (Frames \ marked))' : Sound(g)'
    BY <1>a, <1>2, <2>3 DEF PmmIInv
  <2> QED
    BY <2>6, <2>7 DEF PmmIInv
<1> QED
  BY <1>1, <1>2

\* Every step keeps the invariant.
LEMMA PmmStep == PmmIInv /\ [PmmNext]_pmmVars => PmmIInv'
<1> SUFFICES ASSUME PmmIInv, [PmmNext]_pmmVars PROVE PmmIInv'
  OBVIOUS
<1> USE PmmConstants
<1>0. total_frames \in Nat /\ owned \subseteq marked /\ marked \subseteq Frames
      /\ Frames \subseteq Nat
  BY FramesFinite DEF PmmIInv, PmmTypeOK, OwnedMarked
<1>1. ASSUME NEW f \in owned \cup (Frames \ marked), pmm_free_frame(f * FRAME_SIZE) PROVE PmmIInv'
  <2>1. f \in Nat /\ (f * FRAME_SIZE) \div FRAME_SIZE = f
    BY <1>0, DivMul
  <2>2. f \in marked => f \in owned
    BY <1>1
  <2> QED
    BY <1>1, <2>1, <2>2, FreeOK DEF pmm_free_frame
<1>2. CASE pmm_free_frame(total_frames * FRAME_SIZE)
  <2>1. (total_frames * FRAME_SIZE) \div FRAME_SIZE = total_frames /\ ~(total_frames < total_frames)
    BY <1>0, DivMul
  <2> QED
    BY <1>2, <2>1, FreeOK DEF pmm_free_frame
<1>3. CASE pmm_free_frame(1)
  <2>1. 1 % FRAME_SIZE # 0
    OBVIOUS
  <2> QED
    BY <1>3, <2>1, FreeOK DEF pmm_free_frame
<1>4. CASE UNCHANGED pmmVars
  BY <1>4 DEF pmmVars, PmmIInv, PmmTypeOK, FreeMemoryExact, OwnedMarked, Sound, Frames
<1> QED
  BY <1>1, <1>2, <1>3, <1>4, AllocOK DEF PmmNext

\* No frame has two owners, the free counter is exact and only whole frames of usable
\* memory beside the bitmap are handed out, for every memory map, frame size and sequence of
\* calls (pmm_init, pmm_alloc_frame, pmm_free_frame).
THEOREM PmmSafe == PmmSpec => []PmmInv
BY PmmInitOK, PmmStep, PmmIInvImplies, PTL DEF PmmSpec

----------------------------------------------------------------------------
(* The kernel heap.                                                         *)

\* A block of the list.
Block == [addr : Nat, size : Nat, free : BOOLEAN]

\* The list bs tiles the heap up to offset end.
Tiles(bs, end) ==
  /\ bs \in Seq(Block) /\ Len(bs) > 0 /\ bs[1].addr = 0
  /\ After(bs[Len(bs)]) = end
  /\ \A i \in 1 .. Len(bs) - 1 : bs[i + 1].addr = After(bs[i])
  /\ \A i, j \in 1 .. Len(bs) : i < j => After(bs[i]) <= bs[j].addr

\* The addresses of the blocks in use.
InUse(bs) == {bs[i].addr : i \in {j \in 1 .. Len(bs) : ~bs[j].free}}

\* The list has a block in use at a with room for n bytes.
Has(bs, a, n) == \E i \in 1 .. Len(bs) : bs[i].addr = a /\ ~bs[i].free /\ bs[i].size >= n

\* The inductive invariant: the list tiles the heap, the magic words are those of the blocks
\* in use, and callers and blocks in use correspond one to one.
HeapIInv ==
  /\ HeapTypeOK
  /\ Tiles(blocks, heap_end) /\ heap_end <= HEAP_MAX_PAGES * PAGE_SIZE
  /\ used_magic = InUse(blocks)
  /\ \A h \in held : Has(blocks, ptr[h] - HDR, req[h])
  /\ \A g, h \in held : ptr[g] = ptr[h] => g = h
  /\ \A a \in used_magic : \E h \in held : ptr[h] = a + HDR

\* The named assumption in the form the proofs use.
LEMMA HeapConstants ==
  /\ HDR \in Nat /\ HDR > 0 /\ HEAP_ALIGN \in Nat /\ HEAP_ALIGN > 0
  /\ PAGE_SIZE \in Nat /\ PAGE_SIZE > 0 /\ MAX_FRAMES \in Nat
  /\ HEAP_INIT_PAGES \in Nat /\ HEAP_MAX_PAGES \in Nat
  /\ HEAP_INIT_PAGES * PAGE_SIZE \in Nat /\ HEAP_MAX_PAGES * PAGE_SIZE \in Nat
  /\ HEAP_INIT_PAGES * PAGE_SIZE > HDR
  /\ HEAP_INIT_PAGES * PAGE_SIZE <= HEAP_MAX_PAGES * PAGE_SIZE
  /\ Sizes \subseteq Nat
BY HeapAssumption

\* Rounding up covers.
LEMMA RoundUpCovers ==
  ASSUME NEW n \in Nat, NEW m \in Nat, m > 0
  PROVE  RoundUp(n, m) \in Nat /\ RoundUp(n, m) >= n
<1>1. (n + (m - 1)) % m \in 0 .. m - 1
  OBVIOUS
<1> QED
  BY <1>1 DEF RoundUp

\* Growth makes room for the request and its header (heap_grow).
LEMMA GrowCovers ==
  ASSUME NEW sz \in Nat
  PROVE  /\ align_up(sz) \in Nat /\ align_up(sz) >= sz
         /\ GrowBytes(align_up(sz)) \in Nat
         /\ GrowBytes(align_up(sz)) >= HDR + align_up(sz)
BY HeapConstants, RoundUpCovers, HDR + align_up(sz) \in Nat DEF align_up, GrowBytes

\* A function on 1 .. n is a sequence.
LEMMA FunctionIsSeq ==
  ASSUME NEW S, NEW n \in Nat, NEW f \in [1 .. n -> S]
  PROVE  f \in Seq(S) /\ Len(f) = n
OBVIOUS

\* Sums of offsets.
LEMMA SumNat == \A a, b, n \in Nat : a + b + n \in Nat
OBVIOUS

\* The end of a block is an offset.
LEMMA AfterNat ==
  \A b \in Block : /\ b.addr \in Nat /\ b.size \in Nat /\ b.free \in BOOLEAN
                   /\ After(b) \in Nat /\ After(b) > b.addr
<1> SUFFICES ASSUME NEW b \in Block
             PROVE  /\ b.addr \in Nat /\ b.size \in Nat /\ b.free \in BOOLEAN
                    /\ After(b) \in Nat /\ After(b) > b.addr
  OBVIOUS
<1>1. b.addr \in Nat /\ b.size \in Nat /\ b.free \in BOOLEAN
  BY DEF Block
<1>2. HDR \in Nat /\ HDR > 0
  BY HeapConstants
<1>3. After(b) = b.addr + HDR + b.size
  BY DEF After
<1>4. After(b) \in Nat /\ After(b) > b.addr
  BY ONLY <1>1, <1>2, <1>3
<1> QED
  BY <1>1, <1>4

\* In a list that tiles the heap no two blocks share an address.
LEMMA TilesFacts ==
  ASSUME NEW bs, NEW end, Tiles(bs, end)
  PROVE  /\ bs \in Seq(Block) /\ Len(bs) \in Nat
         /\ \A k \in 1 .. Len(bs) :
              /\ bs[k] \in Block /\ bs[k].addr \in Nat /\ bs[k].size \in Nat
                 /\ bs[k].free \in BOOLEAN
              /\ After(bs[k]) \in Nat /\ After(bs[k]) > bs[k].addr
         /\ \A i, j \in 1 .. Len(bs) : bs[i].addr = bs[j].addr => i = j
<1> USE HeapConstants
<1>1. bs \in Seq(Block) /\ Len(bs) \in Nat /\ \A k \in 1 .. Len(bs) : bs[k] \in Block
  BY DEF Tiles
<1>2. \A k \in 1 .. Len(bs) :
              /\ bs[k].addr \in Nat /\ bs[k].size \in Nat /\ bs[k].free \in BOOLEAN
              /\ After(bs[k]) \in Nat /\ After(bs[k]) > bs[k].addr
  BY <1>1, AfterNat, Zenon
<1>3. ASSUME NEW i \in 1 .. Len(bs), NEW j \in 1 .. Len(bs), bs[i].addr = bs[j].addr, i # j
      PROVE  FALSE
  <2>1. ASSUME NEW k \in 1 .. Len(bs), NEW l \in 1 .. Len(bs), k < l PROVE bs[k].addr < bs[l].addr
    <3>1. After(bs[k]) <= bs[l].addr
      BY <2>1 DEF Tiles
    <3>2. /\ bs[k].addr \in Nat /\ After(bs[k]) \in Nat /\ After(bs[k]) > bs[k].addr
          /\ bs[l].addr \in Nat
      BY <1>2
    <3> QED
      BY ONLY <3>1, <3>2
  <2>2. i < j \/ j < i
    BY <1>1, <1>3
  <2> QED
    BY <1>2, <1>3, <2>1, <2>2
<1> QED
  BY <1>1, <1>2, <1>3

\* Taking a free block whole keeps the tiling and touches no other block (kmalloc).
LEMMA TakeOK ==
  ASSUME NEW bs, NEW end, Tiles(bs, end), NEW i \in 1 .. Len(bs), bs[i].free
  PROVE  /\ Tiles(Take(bs, i), end)
         /\ InUse(Take(bs, i)) = InUse(bs) \cup {bs[i].addr}
         /\ bs[i].addr \notin InUse(bs)
         /\ \A m \in Nat : m <= bs[i].size => Has(Take(bs, i), bs[i].addr, m)
         /\ \A a, n : Has(bs, a, n) => Has(Take(bs, i), a, n)
<1> DEFINE t == Take(bs, i)
<1> USE HeapConstants
<1>1. /\ Len(t) = Len(bs) /\ t \in Seq(Block)
      /\ \A k \in 1 .. Len(bs) : /\ t[k].addr = bs[k].addr /\ t[k].size = bs[k].size
                                 /\ t[k].free = (bs[k].free /\ k # i)
  <2> DEFINE e == [addr |-> bs[i].addr, size |-> bs[i].size, free |-> FALSE]
  <2>1. e \in Block /\ e.addr = bs[i].addr /\ e.size = bs[i].size /\ e.free = FALSE
    BY TilesFacts DEF Block
  <2>2. t = [bs EXCEPT ![i] = e]
    BY DEF Take
  <2> HIDE DEF e, t
  <2>3. /\ t \in Seq(Block) /\ Len(t) = Len(bs)
        /\ \A k \in 1 .. Len(bs) : t[k] = IF k = i THEN e ELSE bs[k]
    <3>1. bs \in Seq(Block)
      BY TilesFacts
    <3> QED
      BY ONLY <2>1, <2>2, <3>1, i \in 1 .. Len(bs), ExceptSeq
  <2> QED
    BY <2>1, <2>3, TilesFacts
<1> HIDE DEF t
<1>2. Tiles(t, end)
  <2>1. \A k \in 1 .. Len(bs) : t[k].addr = bs[k].addr /\ After(t[k]) = After(bs[k])
    BY <1>1 DEF After
  <2>2. Len(bs) \in Nat /\ Len(bs) > 0
    BY DEF Tiles
  <2>3. t[1].addr = 0 /\ After(t[Len(t)]) = end
    BY <1>1, <2>1, <2>2 DEF Tiles
  <2>4. \A k \in 1 .. Len(bs) - 1 : t[k + 1].addr = After(t[k])
    <3> SUFFICES ASSUME NEW k \in 1 .. Len(bs) - 1 PROVE t[k + 1].addr = After(t[k])
      OBVIOUS
    <3>1. k \in 1 .. Len(bs) /\ k + 1 \in 1 .. Len(bs)
      BY ONLY <2>2, k \in 1 .. Len(bs) - 1
    <3>2. bs[k + 1].addr = After(bs[k])
      BY DEF Tiles
    <3> QED
      BY ONLY <2>1, <3>1, <3>2
  <2>5. \A k, l \in 1 .. Len(bs) : k < l => After(t[k]) <= t[l].addr
    BY <2>1 DEF Tiles
  <2> QED
    BY <1>1, <2>2, <2>3, <2>4, <2>5 DEF Tiles
<1>3. InUse(t) = InUse(bs) \cup {bs[i].addr}
  <2>1. \A k \in 1 .. Len(bs) : ~t[k].free <=> ~bs[k].free \/ k = i
    BY <1>1, TilesFacts
  <2>2. ASSUME NEW a PROVE a \in InUse(t) <=> a \in InUse(bs) \cup {bs[i].addr}
    BY <1>1, <2>1 DEF InUse
  <2> QED
    BY <2>2
<1>4. bs[i].addr \notin InUse(bs)
  BY TilesFacts DEF InUse
<1>5. (\A m \in Nat : m <= bs[i].size => Has(t, bs[i].addr, m))
      /\ \A a, n : Has(bs, a, n) => Has(t, a, n)
  <2>1. \A k \in 1 .. Len(bs) : ~t[k].free <=> ~bs[k].free \/ k = i
    BY <1>1, TilesFacts
  <2>2. \A m \in Nat : m <= bs[i].size => bs[i].size >= m
    BY TilesFacts
  <2> QED
    BY <1>1, <2>1, <2>2 DEF Has
<1> QED
  BY <1>2, <1>3, <1>4, <1>5 DEF t

\* Splitting a free block keeps the tiling and touches no other block (kmalloc).
LEMMA SplitOK ==
  ASSUME NEW bs, NEW end, Tiles(bs, end), NEW i \in 1 .. Len(bs), bs[i].free,
         NEW n \in Nat, bs[i].size - n > HDR
  PROVE  /\ Tiles(Split(bs, i, n), end)
         /\ InUse(Split(bs, i, n)) = InUse(bs) \cup {bs[i].addr}
         /\ \A m \in Nat : m <= n => Has(Split(bs, i, n), bs[i].addr, m)
         /\ \A a, m : Has(bs, a, m) => Has(Split(bs, i, n), a, m)
<1> DEFINE s == Split(bs, i, n)
<1> USE HeapConstants
<1>0. Len(bs) \in Nat /\ \A k \in 1 .. Len(bs) : bs[k] \in Block
  <2>1. bs \in Seq(Block)
    BY Zenon DEF Tiles
  <2> QED
    BY ONLY <2>1
<1>1. Len(s) = Len(bs) + 1
  BY <1>0 DEF Split
<1>2. /\ \A k \in 1 .. i - 1 : s[k] = bs[k]
      /\ s[i].addr = bs[i].addr /\ s[i].size = n /\ s[i].free = FALSE
      /\ s[i + 1].addr = bs[i].addr + HDR + n /\ s[i + 1].size = bs[i].size - n - HDR
      /\ s[i + 1].free = TRUE
      /\ \A k \in i + 2 .. Len(bs) + 1 : s[k] = bs[k - 1]
  <2>1. \A k \in 1 .. Len(bs) + 1 : s[k] = IF k < i THEN bs[k]
     ELSE IF k = i THEN [addr |-> bs[i].addr, size |-> n, free |-> FALSE]
     ELSE IF k = i + 1 THEN [addr |-> bs[i].addr + HDR + n,
                             size |-> bs[i].size - n - HDR, free |-> TRUE]
     ELSE bs[k - 1]
    BY DEF Split
  <2> HIDE DEF s
  <2>2. \A k \in 1 .. i - 1 : s[k] = bs[k]
    BY <1>0, <2>1
  <2>3. \A k \in i + 2 .. Len(bs) + 1 : s[k] = bs[k - 1]
    BY <1>0, <2>1
  <2>4. s[i] = [addr |-> bs[i].addr, size |-> n, free |-> FALSE]
    BY <2>1, i \in 1 .. Len(bs) + 1, i < i <=> FALSE
  <2>5. s[i + 1] = [addr |-> bs[i].addr + HDR + n, size |-> bs[i].size - n - HDR, free |-> TRUE]
    BY <2>1, i + 1 \in 1 .. Len(bs) + 1, i + 1 < i <=> FALSE, i + 1 # i
  <2> QED
    BY <2>2, <2>3, <2>4, <2>5
<1>3. s \in Seq(Block)
  <2>1. ASSUME NEW k \in 1 .. Len(bs) + 1 PROVE s[k] \in Block
    <3>1. CASE k \in 1 .. i - 1
      <4>1. k \in 1 .. Len(bs)
        BY <1>0, <3>1
      <4> QED
        BY <1>2, <3>1, <4>1, TilesFacts
    <3>2. CASE k \in i + 2 .. Len(bs) + 1
      <4>1. k - 1 \in 1 .. Len(bs)
        BY <1>0, <3>2
      <4> QED
        BY <1>2, <3>2, <4>1, TilesFacts
    <3>3. bs[i].addr \in Nat /\ bs[i].size \in Nat
      BY TilesFacts
    <3>4. CASE k = i
      <4>1. s[k] = [addr |-> bs[i].addr, size |-> n, free |-> FALSE]
        BY <1>0, <3>4 DEF Split
      <4> QED
        BY <3>3, <4>1 DEF Block
    <3>5. CASE k = i + 1
      <4>1. s[k] = [addr |-> bs[i].addr + HDR + n, size |-> bs[i].size - n - HDR, free |-> TRUE]
        BY <1>0, <3>5 DEF Split
      <4>2. bs[i].addr + HDR + n \in Nat /\ bs[i].size - n - HDR \in Nat
        <5>1. n \in Nat /\ HDR \in Nat /\ bs[i].size - n > HDR
          OBVIOUS
        <5>2. \A a, b, m, h \in Nat : b - m > h => a + h + m \in Nat /\ b - m - h \in Nat
          BY ONLY TRUE
        <5> QED
          BY <3>3, <5>1, <5>2, Zenon
      <4> QED
        BY ONLY <4>1, <4>2 DEF Block
    <3>6. k \in 1 .. i - 1 \/ k = i \/ k = i + 1 \/ k \in i + 2 .. Len(bs) + 1
      BY <1>0
    <3> QED
      BY <3>1, <3>2, <3>4, <3>5, <3>6
  <2> QED
    <3>1. s = [k \in 1 .. Len(bs) + 1 |-> s[k]]
      BY DEF Split
    <3> HIDE DEF s
    <3>2. s \in [1 .. Len(bs) + 1 -> Block]
      BY <2>1, <3>1
    <3> QED
      BY <1>0, <3>2, FunctionIsSeq
<1> HIDE DEF s
<1>4. After(s[i + 1]) = After(bs[i]) /\ After(s[i]) = s[i + 1].addr
  BY <1>0, <1>2 DEF After, Block
<1>5. \A k, l \in 1 .. Len(s) : k < l => After(s[k]) <= s[l].addr
  <2> SUFFICES ASSUME NEW k \in 1 .. Len(s), NEW l \in 1 .. Len(s), k < l
               PROVE  After(s[k]) <= s[l].addr
    OBVIOUS
  <2> DEFINE o(x) == IF x <= i THEN x ELSE x - 1
  <2>1. o(k) \in 1 .. Len(bs) /\ o(l) \in 1 .. Len(bs)
    BY <1>0, <1>1
  <2>2. After(s[k]) <= After(bs[o(k)]) /\ s[l].addr >= bs[o(l)].addr
    <3>1. /\ k < i => s[k] = bs[o(k)]
          /\ k > i + 1 => s[k] = bs[o(k)]
          /\ l < i => s[l] = bs[o(l)]
          /\ l > i + 1 => s[l] = bs[o(l)]
      <4>1. ASSUME NEW x \in 1 .. Len(s)
            PROVE  (x < i => s[x] = bs[x]) /\ (x > i + 1 => s[x] = bs[x - 1])
        BY <1>0, <1>1, <1>2
      <4> QED
        BY <1>0, <4>1
    <3>2. After(s[i]) <= After(bs[i]) /\ s[i + 1].addr >= bs[i].addr /\ s[i].addr = bs[i].addr
      <4>1. bs[i].addr \in Nat /\ bs[i].size \in Nat /\ n < bs[i].size
        BY TilesFacts
      <4>2. After(s[i]) = bs[i].addr + HDR + n /\ After(bs[i]) = bs[i].addr + HDR + bs[i].size
        BY <1>2 DEF After
      <4>3. s[i + 1].addr = bs[i].addr + HDR + n /\ s[i].addr = bs[i].addr
        BY <1>2
      <4>4. HDR \in Nat
        OBVIOUS
      <4>5. \A a, b, h, m \in Nat : m < b => a + h + m <= a + h + b /\ a + h + m >= a
        BY ONLY TRUE
      <4> QED
        <5>1. /\ bs[i].addr + HDR + n <= bs[i].addr + HDR + bs[i].size
              /\ bs[i].addr + HDR + n >= bs[i].addr
          BY <4>1, <4>4, <4>5, Zenon
        <5> QED
          BY <4>2, <4>3, <5>1, Zenon
    <3>3. After(s[k]) <= After(bs[o(k)])
      <4>1. After(bs[o(k)]) \in Nat
        BY <2>1, TilesFacts
      <4> QED
        BY <1>0, <1>4, <3>1, <3>2, <4>1
    <3>4. s[l].addr >= bs[o(l)].addr
      <4>1. bs[o(l)].addr \in Nat
        BY <2>1, TilesFacts
      <4> QED
        BY <1>0, <3>1, <3>2, <4>1
    <3> QED
      BY <3>3, <3>4
  <2>3. CASE o(k) < o(l)
    <3>1. After(bs[o(k)]) <= bs[o(l)].addr
      BY <2>1, <2>3 DEF Tiles
    <3>2. /\ After(s[k]) \in Nat /\ After(bs[o(k)]) \in Nat
          /\ bs[o(l)].addr \in Nat /\ s[l].addr \in Nat
      <4>1. s[k] \in Block /\ s[l] \in Block
        BY ONLY <1>3, k \in 1 .. Len(s), l \in 1 .. Len(s)
      <4> QED
        BY <2>1, <4>1, TilesFacts, AfterNat
    <3> QED
      BY ONLY <2>2, <3>1, <3>2
  <2>4. CASE k = i /\ l = i + 1
    <3>1. bs[i].addr \in Nat /\ HDR \in Nat
      BY TilesFacts
    <3>2. After(s[i]) = s[i + 1].addr
      BY <1>2, <3>1 DEF After
    <3>3. s[i + 1].addr \in Nat
      <4>1. s[i + 1].addr = bs[i].addr + HDR + n /\ n \in Nat
        BY <1>2
      <4> QED
        BY ONLY <3>1, <4>1
    <3> QED
      BY ONLY <2>4, <3>2, <3>3
  <2> QED
    BY <1>0, <1>1, <2>3, <2>4
<1>6. \A k \in 1 .. Len(s) - 1 : s[k + 1].addr = After(s[k])
  <2> SUFFICES ASSUME NEW k \in 1 .. Len(s) - 1 PROVE s[k + 1].addr = After(s[k])
    OBVIOUS
  <2>0. \A j \in 1 .. Len(bs) - 1 : bs[j + 1].addr = After(bs[j])
    BY DEF Tiles
  <2>1. CASE k < i
    <3>1. s[k] = bs[k] /\ s[k + 1].addr = bs[k + 1].addr
      BY <1>0, <1>2, <2>1
    <3> QED
      BY <1>0, <2>0, <2>1, <3>1
  <2>2. CASE k = i
    BY <1>4, <2>2
  <2>3. CASE k > i
    <3>1. After(s[k]) = After(bs[k - 1]) /\ s[k + 1] = bs[k]
      BY <1>0, <1>1, <1>2, <1>4, <2>3
    <3> QED
      BY <1>0, <1>1, <2>0, <2>3, <3>1, k - 1 \in 1 .. Len(bs) - 1
  <2> QED
    BY <1>0, <2>1, <2>2, <2>3
<1>7. s[1].addr = 0 /\ After(s[Len(s)]) = end
  <2>1. s[1].addr = bs[1].addr
    BY <1>0, <1>2
  <2>2. After(s[Len(s)]) = After(bs[Len(bs)])
    BY <1>0, <1>1, <1>2, <1>4
  <2> QED
    BY <2>1, <2>2 DEF Tiles
<1>8. Tiles(s, end)
  BY <1>0, <1>1, <1>3, <1>5, <1>6, <1>7 DEF Tiles
<1>9. InUse(s) = InUse(bs) \cup {bs[i].addr}
  <2>1. \A k \in 1 .. Len(s) : ~s[k].free => s[k].addr \in InUse(bs) \cup {bs[i].addr}
    <3> SUFFICES ASSUME NEW k \in 1 .. Len(s), ~s[k].free
                 PROVE  s[k].addr \in InUse(bs) \cup {bs[i].addr}
      OBVIOUS
    <3>1. CASE k < i
      <4>1. k \in 1 .. Len(bs) /\ s[k] = bs[k]
        BY <1>0, <1>2, <3>1
      <4> QED
        BY <4>1 DEF InUse
    <3>2. CASE k > i + 1
      <4>1. k - 1 \in 1 .. Len(bs) /\ s[k] = bs[k - 1]
        BY <1>0, <1>1, <1>2, <3>2
      <4> QED
        BY <4>1 DEF InUse
    <3>3. k < i \/ k = i \/ k = i + 1 \/ k > i + 1
      BY <1>0
    <3> QED
      BY <1>2, <3>1, <3>2, <3>3
  <2>2. \A k \in 1 .. Len(bs) : ~bs[k].free => bs[k].addr \in InUse(s)
    <3> SUFFICES ASSUME NEW k \in 1 .. Len(bs), ~bs[k].free PROVE bs[k].addr \in InUse(s)
      OBVIOUS
    <3>1. CASE k < i
      BY <1>0, <1>1, <1>2, <3>1 DEF InUse
    <3>2. CASE k > i
      <4>1. k + 1 \in 1 .. Len(s) /\ s[k + 1] = bs[k]
        BY <1>0, <1>1, <1>2, <3>2
      <4> QED
        BY <4>1 DEF InUse
    <3> QED
      BY <1>0, <3>1, <3>2
  <2>3. bs[i].addr \in InUse(s)
    BY <1>0, <1>1, <1>2 DEF InUse
  <2> QED
    BY <2>1, <2>2, <2>3 DEF InUse
<1>10. \A m \in Nat : m <= n => Has(s, bs[i].addr, m)
  BY <1>0, <1>1, <1>2 DEF Has
<1>11. ASSUME NEW a, NEW m, Has(bs, a, m) PROVE Has(s, a, m)
  <2>1. PICK k \in 1 .. Len(bs) : bs[k].addr = a /\ ~bs[k].free /\ bs[k].size >= m
    BY <1>11 DEF Has
  <2>2. CASE k < i
    BY <1>0, <1>1, <1>2, <2>1, <2>2 DEF Has
  <2>3. CASE k > i
    <3>1. k + 1 \in 1 .. Len(s) /\ s[k + 1] = bs[k]
      BY <1>0, <1>1, <1>2, <2>3
    <3> QED
      BY <2>1, <3>1 DEF Has
  <2> QED
    BY <1>0, <2>1, <2>2, <2>3
<1> QED
  BY <1>8, <1>9, <1>10, <1>11 DEF s

\* Growth appends a free block at the end of the heap (heap_grow).
LEMMA AppendOK ==
  ASSUME NEW bs, NEW end, Tiles(bs, end), NEW e \in Block, e.addr = end, e.free
  PROVE  /\ Tiles(Append(bs, e), After(e)) /\ InUse(Append(bs, e)) = InUse(bs)
         /\ Len(Append(bs, e)) = Len(bs) + 1 /\ Append(bs, e)[Len(bs) + 1] = e
         /\ \A a, n : Has(bs, a, n) => Has(Append(bs, e), a, n)
<1> USE HeapConstants
<1> DEFINE t == Append(bs, e)
<1>0. Len(bs) \in Nat /\ Len(bs) > 0 /\ end \in Nat /\ After(bs[Len(bs)]) = end /\ bs[1].addr = 0
  <2>1. Len(bs) \in Nat /\ Len(bs) > 0 /\ After(bs[Len(bs)]) = end /\ bs[1].addr = 0
    BY TilesFacts DEF Tiles
  <2>2. Len(bs) \in 1 .. Len(bs)
    BY <2>1
  <2> QED
    BY <2>1, <2>2, TilesFacts
<1>1. e.addr = end /\ e.free
  OBVIOUS
<1>2. /\ t \in Seq(Block) /\ Len(t) = Len(bs) + 1
      /\ \A i \in 1 .. Len(bs) : t[i] = bs[i]
      /\ t[Len(bs) + 1] = e
  BY TilesFacts, AppendProperties
<1> HIDE DEF t
<1>3. \A i \in 1 .. Len(t) - 1 : t[i + 1].addr = After(t[i])
  <2> SUFFICES ASSUME NEW i \in 1 .. Len(bs) PROVE t[i + 1].addr = After(t[i])
    BY <1>0, <1>2
  <2>1. CASE i = Len(bs)
    BY <1>0, <1>1, <1>2, <2>1
  <2>2. CASE i < Len(bs)
    <3>1. i \in 1 .. Len(bs) - 1 /\ i + 1 \in 1 .. Len(bs)
      BY <1>0, <2>2
    <3>2. bs[i + 1].addr = After(bs[i])
      BY <3>1 DEF Tiles
    <3> QED
      BY <1>2, <3>1, <3>2
  <2> QED
    BY <1>0, <2>1, <2>2
<1>4. ASSUME NEW i \in 1 .. Len(t), NEW j \in 1 .. Len(t), i < j PROVE After(t[i]) <= t[j].addr
  <2>1. i \in 1 .. Len(bs) /\ t[i] = bs[i]
    BY <1>0, <1>2, <1>4
  <2>2. CASE j \in 1 .. Len(bs)
    BY <1>2, <1>4, <2>1, <2>2 DEF Tiles
  <2>3. CASE j = Len(bs) + 1
    <3>1. After(bs[i]) <= end
      <4>1. CASE i = Len(bs)
        BY <1>0, <4>1
      <4>2. CASE i < Len(bs)
        <5>1. After(bs[i]) <= bs[Len(bs)].addr
          BY <1>0, <2>1, <4>2 DEF Tiles
        <5>2. bs[Len(bs)].addr < After(bs[Len(bs)]) /\ After(bs[i]) \in Nat
              /\ bs[Len(bs)].addr \in Nat
          <6>1. Len(bs) \in 1 .. Len(bs)
            BY <1>0
          <6> QED
            BY <2>1, <6>1, TilesFacts
        <5> QED
          BY <1>0, <5>1, <5>2
      <4> QED
        BY <1>0, <2>1, <4>1, <4>2
    <3> QED
      BY <1>1, <1>2, <2>1, <2>3, <3>1
  <2> QED
    BY <1>0, <1>2, <2>2, <2>3
<1>5. Tiles(t, After(e))
  <2>1. t \in Seq(Block) /\ Len(t) > 0 /\ t[1].addr = 0
    BY <1>0, <1>2
  <2>2. After(t[Len(t)]) = After(e)
    BY <1>2
  <2> QED
    BY <1>3, <1>4, <2>1, <2>2 DEF Tiles
<1>6. InUse(t) = InUse(bs)
  <2>1. \A i \in 1 .. Len(t) : ~t[i].free => i \in 1 .. Len(bs) /\ t[i] = bs[i]
    BY <1>0, <1>1, <1>2
  <2>2. \A i \in 1 .. Len(bs) : i \in 1 .. Len(t) /\ t[i] = bs[i]
    BY <1>0, <1>2
  <2>3. ASSUME NEW a PROVE a \in InUse(t) <=> a \in InUse(bs)
    BY <2>1, <2>2 DEF InUse
  <2> QED
    BY <2>3
<1>7. \A a, n : Has(bs, a, n) => Has(t, a, n)
  <2>1. \A i \in 1 .. Len(bs) : i \in 1 .. Len(t) /\ t[i] = bs[i]
    BY <1>0, <1>2
  <2> QED
    BY <2>1 DEF Has
<1> QED
  BY <1>2, <1>5, <1>6, <1>7 DEF t

\* A block joined with the block behind it ends where that block ended.
LEMMA JoinedAfter ==
  ASSUME NEW x \in Block, NEW y \in Block, y.addr = After(x)
  PROVE  After([addr |-> x.addr, size |-> x.size + HDR + y.size, free |-> TRUE]) = After(y)
<1>1. /\ HDR \in Nat /\ x.addr \in Nat /\ x.size \in Nat /\ y.addr \in Nat /\ y.size \in Nat
  BY HeapConstants DEF Block
<1> QED
  BY <1>1 DEF After

\* kfree frees a block, merged with the next if that is free, and touches no other block in
\* use.
LEMMA FreedOK ==
  ASSUME NEW end, Tiles(blocks, end), NEW i \in 1 .. Len(blocks), ~blocks[i].free
  PROVE  /\ Tiles(Freed(i), end)
         /\ InUse(Freed(i)) = InUse(blocks) \ {blocks[i].addr}
         /\ \A a, n : Has(blocks, a, n) /\ a # blocks[i].addr => Has(Freed(i), a, n)
<1> USE HeapConstants
<1> DEFINE f == Freed(i)
           L == Len(blocks)
           merge == i < Len(blocks) /\ blocks[i + 1].free
           d == IF merge THEN 1 ELSE 0
           o(k) == IF k <= i THEN k ELSE k + d
           e == [addr |-> blocks[i].addr,
                 size |-> IF merge THEN blocks[i].size + HDR + blocks[i + 1].size
                   ELSE blocks[i].size,
                 free |-> TRUE]
<1>0. L \in Nat /\ L > 0 /\ blocks[1].addr = 0 /\ After(blocks[L]) = end
  BY TilesFacts DEF Tiles
<1>1. e \in Block /\ e.addr = blocks[i].addr /\ e.free = TRUE
      /\ After(e) = IF merge THEN After(blocks[i + 1]) ELSE After(blocks[i])
  <2>1. blocks[i].addr \in Nat /\ blocks[i].size \in Nat
    BY TilesFacts
  <2>2. CASE merge
    <3>1. i + 1 \in 1 .. L /\ blocks[i + 1].size \in Nat /\ blocks[i + 1].addr = After(blocks[i])
      <4>1. i + 1 \in 1 .. L /\ i \in 1 .. L - 1
        BY <1>0, <2>2
      <4>2. blocks[i + 1].addr = After(blocks[i])
        BY <4>1 DEF Tiles
      <4> QED
        BY <4>1, <4>2, TilesFacts
    <3>2. e = [addr |-> blocks[i].addr, size |-> blocks[i].size + HDR + blocks[i + 1].size,
          free |-> TRUE]
      BY <2>2
    <3> HIDE DEF e, merge
    <3>3. e \in Block /\ e.addr = blocks[i].addr /\ e.free = TRUE
      <4>1. HDR \in Nat
        OBVIOUS
      <4>2. blocks[i].size \in Nat /\ blocks[i + 1].size \in Nat
        BY <2>1, <3>1
      <4>3. blocks[i].size + HDR + blocks[i + 1].size \in Nat
        BY <4>1, <4>2, SumNat, Zenon
      <4> QED
        BY <2>1, <3>2, <4>3 DEF Block
    <3>4. After(e) = After(blocks[i + 1])
      <4>1. blocks[i] \in Block /\ blocks[i + 1] \in Block
        BY <3>1 DEF Tiles
      <4> QED
        BY <3>1, <3>2, <4>1, JoinedAfter, Zenon
    <3> QED
      BY <2>2, <3>3, <3>4
  <2>3. CASE ~merge
    BY <2>1, <2>3 DEF After, Block
  <2> QED
    BY <2>2, <2>3
<1>2. f = [k \in 1 .. L - d |-> IF k = i THEN e ELSE blocks[o(k)]]
  <2>1. CASE merge
    BY <1>0, <2>1 DEF Freed
  <2>2. CASE ~merge
    BY <1>0, <2>2 DEF Freed
  <2> QED
    BY <2>1, <2>2
<1>3. d \in {0, 1} /\ (d = 1 => i < L /\ blocks[i + 1].free) /\ i \in 1 .. L - d
  BY <1>0
<1>4. /\ After(e) = After(blocks[i + d])
      /\ \A k \in 1 .. L - d : o(k) \in 1 .. L
  BY <1>0, <1>1
<1> HIDE DEF f, d, e
<1>5. f \in Seq(Block) /\ Len(f) = L - d
  <2>1. f \in [1 .. L - d -> Block]
    BY <1>1, <1>2, <1>4, TilesFacts
  <2>2. L - d \in Nat
    BY <1>0, <1>3
  <2> HIDE DEF L
  <2> QED
    BY <2>1, <2>2, FunctionIsSeq
<1>6. /\ f[i] = e
      /\ \A k \in 1 .. L - d : k # i => f[k] = blocks[o(k)]
  BY <1>2, <1>3
<1>7. \A k \in 1 .. L - d : f[k].addr = blocks[o(k)].addr
  BY <1>0, <1>1, <1>6
\* The last block that went into block k of the new list.
<1> DEFINE l(k) == IF k < i THEN k ELSE k + d
<1>8. \A k \in 1 .. L - d : l(k) \in 1 .. L /\ After(f[k]) = After(blocks[l(k)])
  <2> SUFFICES ASSUME NEW k \in 1 .. L - d
               PROVE  l(k) \in 1 .. L /\ After(f[k]) = After(blocks[l(k)])
    OBVIOUS
  <2>1. CASE k = i
    BY <1>0, <1>3, <1>4, <1>6, <2>1
  <2>2. CASE k # i
    BY <1>0, <1>3, <1>6, <2>2
  <2> QED
    BY <2>1, <2>2
<1>9. \A k \in 1 .. Len(f) - 1 : f[k + 1].addr = After(f[k])
  <2> SUFFICES ASSUME NEW k \in 1 .. Len(f) - 1 PROVE f[k + 1].addr = After(f[k])
    OBVIOUS
  <2>1. o(k + 1) = l(k) + 1 /\ l(k) \in 1 .. L - 1 /\ k + 1 \in 1 .. L - d /\ k \in 1 .. L - d
    BY <1>0, <1>3, <1>5
  <2>2. blocks[l(k) + 1].addr = After(blocks[l(k)])
    BY <2>1 DEF Tiles
  <2> QED
    BY <1>7, <1>8, <2>1, <2>2
<1>10. ASSUME NEW k \in 1 .. Len(f), NEW m \in 1 .. Len(f), k < m PROVE After(f[k]) <= f[m].addr
  <2>1. l(k) < o(m) /\ l(k) \in 1 .. L /\ o(m) \in 1 .. L /\ k \in 1 .. L - d /\ m \in 1 .. L - d
    <3>1. i \in Nat /\ L \in Nat /\ d \in {0, 1} /\ i \in 1 .. L - d
      BY <1>0, <1>3
    <3>2. k \in 1 .. L - d /\ m \in 1 .. L - d /\ k < m
      BY <1>5, <1>10
    <3> HIDE DEF L
    <3> QED
      BY ONLY <3>1, <3>2
  <2>2. After(blocks[l(k)]) <= blocks[o(m)].addr
    BY <2>1 DEF Tiles
  <2> QED
    BY <1>7, <1>8, <2>1, <2>2
<1>11. f[1].addr = 0 /\ After(f[Len(f)]) = end
  <2>1. o(1) = 1 /\ 1 \in 1 .. L - d /\ l(L - d) = L /\ L - d \in 1 .. L - d
    BY <1>0, <1>3
  <2> QED
    BY <1>0, <1>5, <1>7, <1>8, <2>1
<1>12. Tiles(f, end)
  <2>1. Len(f) > 0
    BY <1>0, <1>3, <1>5
  <2> QED
    BY <1>5, <1>9, <1>10, <1>11, <2>1, Zenon DEF Tiles
<1>13. \A k \in 1 .. L : ~blocks[k].free /\ k # i =>
          \E m \in 1 .. Len(f) : f[m] = blocks[k]
  <2> SUFFICES ASSUME NEW k \in 1 .. L, ~blocks[k].free, k # i
               PROVE  \E m \in 1 .. Len(f) : f[m] = blocks[k]
    OBVIOUS
  <2>1. CASE k < i
    <3>1. k \in 1 .. L - d /\ o(k) = k
      BY <1>0, <1>3, <2>1
    <3> QED
      BY <1>5, <1>6, <3>1
  <2>2. CASE k > i
    <3>1. k # i + d
      BY <1>0, <1>3
    <3>2. k - d \in 1 .. L - d /\ o(k - d) = k /\ k - d # i
      BY <1>0, <1>3, <2>2, <3>1
    <3> QED
      BY <1>5, <1>6, <3>2
  <2> QED
    BY <1>0, <2>1, <2>2
<1>14. \A m \in 1 .. Len(f) : ~f[m].free => \E k \in 1 .. L : k # i /\ f[m] = blocks[k]
  <2> SUFFICES ASSUME NEW m \in 1 .. Len(f), ~f[m].free
               PROVE  \E k \in 1 .. L : k # i /\ f[m] = blocks[k]
    OBVIOUS
  <2>1. m # i
    BY <1>1, <1>6
  <2>2. o(m) \in 1 .. L /\ o(m) # i /\ f[m] = blocks[o(m)]
    BY <1>0, <1>3, <1>5, <1>6, <2>1
  <2> QED
    BY <2>2
<1>15. InUse(f) = InUse(blocks) \ {blocks[i].addr}
  <2>1. \A k \in 1 .. L : blocks[k].addr = blocks[i].addr => k = i
    BY TilesFacts
  <2>2. ASSUME NEW a PROVE a \in InUse(f) <=> a \in InUse(blocks) \ {blocks[i].addr}
    <3>1. \A bs : a \in InUse(bs) <=> \E k \in 1 .. Len(bs) : ~bs[k].free /\ a = bs[k].addr
      BY DEF InUse
    <3>2. ASSUME a \in InUse(f) PROVE a \in InUse(blocks) \ {blocks[i].addr}
      <4>1. PICK m \in 1 .. Len(f) : ~f[m].free /\ a = f[m].addr
        BY <3>1, <3>2
      <4>2. PICK k \in 1 .. L : k # i /\ f[m] = blocks[k]
        BY <1>14, <4>1
      <4> QED
        BY <2>1, <3>1, <4>1, <4>2
    <3>3. ASSUME a \in InUse(blocks), a # blocks[i].addr PROVE a \in InUse(f)
      <4>1. PICK k \in 1 .. L : ~blocks[k].free /\ a = blocks[k].addr
        BY <3>1, <3>3
      <4>2. PICK m \in 1 .. Len(f) : f[m] = blocks[k]
        BY <1>13, <3>3, <4>1
      <4> QED
        BY <3>1, <4>1, <4>2
    <3> QED
      BY <3>2, <3>3
  <2> QED
    BY <2>2
<1>16. \A a, n : Has(blocks, a, n) /\ a # blocks[i].addr => Has(f, a, n)
  BY <1>13 DEF Has
<1> QED
  BY <1>12, <1>15, <1>16 DEF f

\* heap_init satisfies the invariant.
LEMMA HeapInitOK == HeapInit => HeapIInv
<1> SUFFICES ASSUME HeapInit PROVE HeapIInv
  OBVIOUS
<1> USE HeapConstants
<1> DEFINE b == [addr |-> 0, size |-> heap_end - HDR, free |-> TRUE]
<1>1. /\ b \in Block /\ b.addr = 0 /\ b.free = TRUE /\ After(b) = heap_end
      /\ heap_end \in Nat
  BY DEF Block, After, HeapInit
<1>2. blocks = <<b>>
  BY DEF HeapInit
<1> HIDE DEF b
<1>3. blocks \in Seq(Block) /\ Len(blocks) = 1 /\ blocks[1] = b
  BY <1>1, <1>2
<1>4. Tiles(blocks, heap_end)
  <2>1. \A i, j \in 1 .. 1 : ~(i < j)
    OBVIOUS
  <2>2. 1 .. 1 - 1 = {}
    OBVIOUS
  <2> QED
    BY <1>1, <1>3, <2>1, <2>2 DEF Tiles
<1>5. InUse(blocks) = {}
  BY <1>1, <1>3 DEF InUse
<1>6. HeapTypeOK
  BY <1>1, <1>3 DEF HeapTypeOK, Block, NULL, HeapInit
<1> QED
  BY <1>4, <1>5, <1>6 DEF HeapIInv, HeapInit

\* The invariant gives every part of HeapInv.
LEMMA HeapIInvImplies == HeapIInv => HeapInv
<1> SUFFICES ASSUME HeapIInv PROVE HeapInv
  OBVIOUS
<1> USE HeapConstants
<1>1. Tiling
  BY DEF HeapIInv, Tiles, Tiling
<1>2. OwnBlock
  <2> SUFFICES ASSUME NEW h \in held
               PROVE  \E i \in 1 .. Len(blocks) : /\ blocks[i].addr + HDR = ptr[h]
                                                  /\ ~blocks[i].free
                                                  /\ blocks[i].size >= req[h]
    BY DEF OwnBlock, HeapIInv
  <2>1. PICK i \in 1 .. Len(blocks) : blocks[i].addr = ptr[h] - HDR /\ ~blocks[i].free
        /\ blocks[i].size >= req[h]
    BY DEF HeapIInv, Has
  <2>2. ptr[h] \in Nat
    BY DEF HeapIInv, HeapTypeOK
  <2>3. blocks[i].addr + HDR = ptr[h]
    BY <2>1, <2>2
  <2> QED
    BY <2>1, <2>3
<1>3. MagicSound
  BY DEF HeapIInv, MagicSound, InUse
<1>4. RetryFits
  <2> SUFFICES ASSUME NEW sz \in Sizes PROVE Fit(GrowsTo(align_up(sz)), align_up(sz)) # {}
    BY DEF RetryFits
  <2> DEFINE n == align_up(sz)
             g == GrowBytes(n) - HDR
  <2>1. n \in Nat /\ g \in Nat /\ g >= n
    BY GrowCovers
  <2> DEFINE e == [addr |-> heap_end, size |-> g, free |-> TRUE]
             t == Append(blocks, e)
  <2>2. t = GrowsTo(n)
    BY DEF GrowsTo
  <2> HIDE DEF n, g
  <2>3. e \in Block /\ e.addr = heap_end /\ e.free /\ e.size = g
    BY <2>1 DEF HeapIInv, HeapTypeOK, Block
  <2> HIDE DEF e
  <2>4. t[Len(blocks) + 1] = e /\ Len(t) = Len(blocks) + 1 /\ Len(blocks) \in Nat
    BY <2>3, AppendOK, TilesFacts DEF HeapIInv
  <2> HIDE DEF t
  <2>5. Len(t) \in Fit(t, n)
    BY <2>1, <2>3, <2>4 DEF Fit
  <2> QED
    BY <2>2, <2>5 DEF n
<1> QED
  BY <1>1, <1>2, <1>3, <1>4 DEF HeapInv, HeapIInv

\* What first fit does to a list that tiles the heap.
LEMMA FirstFitOK ==
  ASSUME NEW bs, NEW end, Tiles(bs, end), NEW n \in Nat, NEW sz \in Nat, n >= sz, NEW h,
         FirstFit(bs, n, sz, h)
  PROVE  \E a \in Nat :
            /\ Tiles(blocks', end)
            /\ InUse(blocks') = InUse(bs) \cup {a} /\ a \notin InUse(bs)
            /\ Has(blocks', a, sz)
            /\ \A c, m : Has(bs, c, m) => Has(blocks', c, m)
            /\ used_magic' = used_magic \cup {a}
            /\ ptr' = [ptr EXCEPT ![h] = a + HDR]
            /\ req' = [req EXCEPT ![h] = sz]
            /\ held' = held \cup {h}
<1> USE HeapConstants
<1>1. PICK i \in Fit(bs, n) :
        /\ blocks' = IF bs[i].size - n > HDR + HEAP_ALIGN THEN Split(bs, i, n) ELSE Take(bs, i)
        /\ used_magic' = used_magic \cup {bs[i].addr}
        /\ ptr' = [ptr EXCEPT ![h] = bs[i].addr + HDR]
        /\ req' = [req EXCEPT ![h] = sz]
        /\ held' = held \cup {h}
  BY DEF FirstFit
<1>2. i \in 1 .. Len(bs) /\ bs[i].free /\ bs[i].size >= n
  BY DEF Fit
<1>3. bs[i].size \in Nat /\ bs[i].addr \in Nat
  BY <1>2, TilesFacts
<1>4. bs[i].addr \notin InUse(bs) /\ sz <= bs[i].size
  BY <1>2, <1>3, TakeOK
<1>5. CASE bs[i].size - n > HDR + HEAP_ALIGN
  <2>1. blocks' = Split(bs, i, n) /\ bs[i].size - n > HDR
    BY <1>1, <1>3, <1>5
  <2>2. /\ Tiles(blocks', end)
        /\ InUse(blocks') = InUse(bs) \cup {bs[i].addr}
        /\ Has(blocks', bs[i].addr, sz)
        /\ \A c, m : Has(bs, c, m) => Has(blocks', c, m)
    BY <1>2, <2>1, SplitOK
  <2> QED
    BY <1>1, <1>3, <1>4, <2>2
<1>6. CASE ~(bs[i].size - n > HDR + HEAP_ALIGN)
  <2>1. blocks' = Take(bs, i)
    BY <1>1, <1>6
  <2>2. /\ Tiles(blocks', end)
        /\ InUse(blocks') = InUse(bs) \cup {bs[i].addr}
        /\ Has(blocks', bs[i].addr, sz)
        /\ \A c, m : Has(bs, c, m) => Has(blocks', c, m)
    BY <1>2, <1>4, <2>1, TakeOK
  <2> QED
    BY <1>1, <1>3, <1>4, <2>2
<1> QED
  BY <1>5, <1>6

\* First fit hands the caller a block of its own.
LEMMA AllocationOK ==
  ASSUME HeapIInv, NEW h \in Callers, h \notin held, NEW sz \in Nat, NEW n \in Nat, n >= sz,
         NEW bs, Tiles(bs, heap_end'), heap_end' \in Nat,
         heap_end' <= HEAP_MAX_PAGES * PAGE_SIZE, free_frames' \in 0 .. MAX_FRAMES,
         InUse(bs) = InUse(blocks), \A a, m : Has(blocks, a, m) => Has(bs, a, m),
         FirstFit(bs, n, sz, h)
  PROVE  HeapIInv'
<1> USE HeapConstants
<1>1. PICK a \in Nat :
            /\ Tiles(blocks', heap_end')
            /\ InUse(blocks') = InUse(bs) \cup {a} /\ a \notin InUse(bs)
            /\ Has(blocks', a, sz)
            /\ \A c, m : Has(bs, c, m) => Has(blocks', c, m)
            /\ used_magic' = used_magic \cup {a}
            /\ ptr' = [ptr EXCEPT ![h] = a + HDR]
            /\ req' = [req EXCEPT ![h] = sz]
            /\ held' = held \cup {h}
  BY FirstFitOK
<1>2. /\ ptr'[h] = a + HDR /\ req'[h] = sz /\ ptr'[h] - HDR = a
      /\ \A g \in held : g # h /\ g \in Callers /\ ptr'[g] = ptr[g] /\ req'[g] = req[g]
         /\ ptr[g] \in Nat
  BY <1>1 DEF HeapIInv, HeapTypeOK
<1>3. HeapTypeOK'
  BY <1>1, a + HDR \in Nat DEF HeapIInv, HeapTypeOK, Tiles, Block
<1>4. used_magic' = InUse(blocks')
  BY <1>1 DEF HeapIInv
<1>5. \A g \in held' : Has(blocks', ptr'[g] - HDR, req'[g])
  BY <1>1, <1>2 DEF HeapIInv
<1>6. \A g \in held : ptr[g] - HDR \in InUse(blocks)
  BY DEF HeapIInv, Has, InUse
<1>7. \A g \in held : ptr[g] # a + HDR
  BY <1>1, <1>2, <1>6
<1>8. \A f, g \in held' : ptr'[f] = ptr'[g] => f = g
  BY <1>1, <1>2, <1>7 DEF HeapIInv
<1>9. \A c \in used_magic' : \E g \in held' : ptr'[g] = c + HDR
  BY <1>1, <1>2 DEF HeapIInv
<1> QED
  BY <1>1, <1>3, <1>4, <1>5, <1>8, <1>9 DEF HeapIInv

\* kmalloc keeps the invariant, with or without growth.
LEMMA KmallocOK ==
  ASSUME HeapIInv, NEW h \in Callers, NEW sz \in Sizes, kmalloc(h, sz)
  PROVE  HeapIInv'
<1> USE HeapConstants
<1> DEFINE n == align_up(sz)
           G == GrowBytes(n)
<1>0. /\ sz \in Nat /\ n \in Nat /\ n >= sz /\ G \in Nat /\ G >= HDR + n /\ h \notin held
      /\ heap_end \in Nat /\ free_frames \in 0 .. MAX_FRAMES
  BY GrowCovers DEF kmalloc, HeapIInv, HeapTypeOK
<1>1. CASE FirstFit(blocks, n, sz, h) /\ UNCHANGED <<heap_end, free_frames>>
  BY <1>0, <1>1, AllocationOK DEF HeapIInv
<1>2. CASE /\ GrowFails(n)
           /\ ptr' = [ptr EXCEPT ![h] = NULL]
           /\ UNCHANGED <<blocks, heap_end, used_magic, req, held>>
  <2>1. free_frames' \in 0 .. MAX_FRAMES
    BY <1>0, <1>2 DEF GrowFails
  <2>2. \A g \in held : ptr'[g] = ptr[g]
    BY <1>0, <1>2 DEF HeapIInv, HeapTypeOK
  <2>3. HeapTypeOK'
    BY <1>2, <2>1 DEF HeapIInv, HeapTypeOK, NULL
  <2> QED
    BY <1>2, <2>2, <2>3 DEF HeapIInv
<1>3. CASE /\ heap_end + G <= HEAP_MAX_PAGES * PAGE_SIZE
           /\ free_frames >= G \div PAGE_SIZE
           /\ free_frames' = free_frames - (G \div PAGE_SIZE)
           /\ heap_end' = heap_end + G
           /\ FirstFit(GrowsTo(n), n, sz, h)
  <2>1. free_frames' \in 0 .. MAX_FRAMES
    <3>1. G \div PAGE_SIZE \in Nat
      BY <1>0
    <3> QED
      BY <1>0, <1>3, <3>1
  <2> DEFINE e == [addr |-> heap_end, size |-> G - HDR, free |-> TRUE]
             t == Append(blocks, e)
  <2>2. t = GrowsTo(n) /\ e \in Block /\ e.addr = heap_end /\ e.free /\ After(e) = heap_end'
    BY <1>0, <1>3 DEF GrowsTo, Block, After
  <2> HIDE DEF e
  <2>3. Tiles(t, heap_end') /\ InUse(t) = InUse(blocks)
        /\ \A a, m : Has(blocks, a, m) => Has(t, a, m)
    <3>1. Tiles(blocks, heap_end)
      BY DEF HeapIInv
    <3> QED
      BY <2>2, <3>1, AppendOK
  <2> HIDE DEF t, n, G
  <2>4. heap_end' \in Nat /\ heap_end' <= HEAP_MAX_PAGES * PAGE_SIZE
    BY <1>0, <1>3
  <2> QED
    BY <1>0, <1>3, <2>1, <2>2, <2>3, <2>4, AllocationOK
<1> QED
  BY <1>1, <1>2, <1>3 DEF kmalloc

\* A caller's kfree keeps the invariant.
LEMMA ReleaseOK == ASSUME HeapIInv, NEW h \in Callers, Release(h) PROVE HeapIInv'
<1> USE HeapConstants
<1>0. /\ h \in held /\ kfree(ptr[h]) /\ held' = held \ {h} /\ ptr[h] \in Nat
      /\ UNCHANGED <<heap_end, free_frames, ptr, req>>
  BY DEF Release, HeapIInv, HeapTypeOK
<1>1. PICK i \in 1 .. Len(blocks) : blocks[i].addr = ptr[h] - HDR /\ ~blocks[i].free
  BY <1>0 DEF HeapIInv, Has
<1>2. ptr[h] - HDR \in used_magic /\ ptr[h] # NULL
  <2>1. ptr[h] - HDR \in used_magic
    BY <1>1 DEF HeapIInv, InUse
  <2>2. ptr[h] - HDR \in Nat
    BY <2>1 DEF HeapIInv, HeapTypeOK
  <2> QED
    BY <1>0, <2>1, <2>2 DEF NULL
<1>3. used_magic' = used_magic \ {blocks[i].addr} /\ blocks' = Freed(i)
  <2>1. PICK j \in 1 .. Len(blocks) : blocks[j].addr = ptr[h] - HDR /\ blocks' = Freed(j)
    BY <1>0, <1>2 DEF kfree
  <2>2. j = i
    BY <1>1, <2>1, TilesFacts DEF HeapIInv
  <2> QED
    BY <1>0, <1>1, <1>2, <2>1, <2>2 DEF kfree
<1>4. /\ Tiles(blocks', heap_end')
      /\ InUse(blocks') = InUse(blocks) \ {blocks[i].addr}
      /\ \A a, n : Has(blocks, a, n) /\ a # blocks[i].addr => Has(blocks', a, n)
  BY <1>0, <1>1, <1>3, FreedOK DEF HeapIInv
<1>5. \A g \in held' : g \in held /\ g # h /\ ptr[g] # ptr[h] /\ ptr[g] \in Nat
  BY <1>0 DEF HeapIInv, HeapTypeOK
<1>6. \A g \in held' : ptr[g] - HDR # blocks[i].addr
  <2>1. blocks[i].addr = ptr[h] - HDR /\ ptr[h] \in Nat /\ HDR \in Nat
    BY <1>0, <1>1
  <2> QED
    BY ONLY <1>5, <2>1
<1>7. \A g \in held' : Has(blocks', ptr'[g] - HDR, req'[g])
  BY <1>0, <1>4, <1>5, <1>6 DEF HeapIInv
<1>8. ASSUME NEW a \in used_magic' PROVE \E g \in held' : ptr'[g] = a + HDR
  <2>1. a \in used_magic /\ a # ptr[h] - HDR /\ a \in Nat
    BY <1>1, <1>3 DEF HeapIInv, HeapTypeOK
  <2>2. PICK g \in held : ptr[g] = a + HDR
    BY <2>1 DEF HeapIInv
  <2>3. g # h
    BY <1>0, <2>1, <2>2
  <2> QED
    BY <1>0, <2>2, <2>3
<1>9. HeapTypeOK'
  BY <1>0, <1>3, <1>4 DEF HeapIInv, HeapTypeOK, Tiles, Block
<1> QED
  BY <1>0, <1>3, <1>4, <1>5, <1>7, <1>8, <1>9 DEF HeapIInv

\* A second kfree of the same pointer finds no magic word and changes nothing.
LEMMA FreeAgainOK ==
  ASSUME HeapIInv, NEW h \in Callers, ~Reissued(h), FreeAgain(h)
  PROVE  UNCHANGED heapVars
<1> USE HeapConstants
<1>1. ptr[h] \in Nat
  BY DEF HeapIInv, HeapTypeOK
<1>2. ASSUME ptr[h] - HDR \in used_magic PROVE FALSE
  <2>1. PICK g \in held : ptr[g] = (ptr[h] - HDR) + HDR
    BY <1>2 DEF HeapIInv
  <2> QED
    BY <1>1, <2>1 DEF Reissued
<1> QED
  BY <1>2 DEF FreeAgain, kfree, heapVars

\* Every step keeps the invariant.
LEMMA HeapStep == HeapIInv /\ [HeapNext]_heapVars => HeapIInv'
<1> SUFFICES ASSUME HeapIInv, [HeapNext]_heapVars PROVE HeapIInv'
  OBVIOUS
<1>1. ASSUME UNCHANGED heapVars PROVE HeapIInv'
  BY <1>1 DEF heapVars, HeapIInv, HeapTypeOK
<1>2. CASE OthersUseFrames
  BY <1>2 DEF OthersUseFrames, HeapIInv, HeapTypeOK
<1> QED
  BY <1>1, <1>2, KmallocOK, ReleaseOK, FreeAgainOK DEF HeapNext

\* Blocks tile the heap, callers own disjoint blocks large enough for what they asked,
\* for all sizes, alignments and sequences of calls (kmalloc, kfree, heap_grow in heap.c).
THEOREM HeapSafe == HeapSpec => []HeapInv
BY HeapInitOK, HeapStep, HeapIInvImplies, PTL DEF HeapSpec

----------------------------------------------------------------------------
(* Virtual memory: walks of the tables.  Path and Mapped are recursive      *)
(* functions; induction is on the least level at which a claim fails.       *)

\* One step of a walk: the table that follows table t on the way to page v.
Hop(m, t, i) == IF t = NoFrame THEN NoFrame ELSE m[t][i].frame

\* The walk's own equation, for the first k levels.
PathEqn(f, root, m, v, k) ==
  f = [n \in 1 .. k |-> IF n = 1 THEN root ELSE Hop(m, f[n - 1], v[n - 1])]

\* The recursive function that Path defines exists, by induction on its length.
LEMMA PathExists ==
  ASSUME NEW root, NEW m, NEW v, NEW N \in Nat
  PROVE  \E f : PathEqn(f, root, m, v, N)
<1> DEFINE Bad == {k \in Nat : ~ \E f : PathEqn(f, root, m, v, k)}
<1>1. SUFFICES ASSUME Bad # {} PROVE FALSE
  OBVIOUS
<1>2. PICK k \in Bad : \A j \in Bad : k <= j
  BY <1>1, LeastElement
<1>3. CASE k = 0
  <2>1. PathEqn([n \in 1 .. 0 |-> 0], root, m, v, 0)
    BY DEF PathEqn
  <2> QED
    BY <1>2, <1>3, <2>1
<1>4. CASE k > 0
  <2>1. k - 1 \in Nat /\ ~(k <= k - 1)
    BY <1>4
  <2>2. PICK f : PathEqn(f, root, m, v, k - 1)
    BY <1>2, <2>1
  <2> DEFINE g == [n \in 1 .. k |-> IF n = 1 THEN root ELSE Hop(m, f[n - 1], v[n - 1])]
  <2>3. \A n \in 1 .. k - 1 : f[n] = IF n = 1 THEN root ELSE Hop(m, f[n - 1], v[n - 1])
    BY <2>2 DEF PathEqn
  <2>4. \A n \in 1 .. k - 1 : g[n] = f[n]
    BY <1>4, <2>3
  <2>5. \A n \in 1 .. k : n # 1 => n - 1 \in 1 .. k - 1
    BY <1>4
  <2>6. g = [n \in 1 .. k |-> IF n = 1 THEN root ELSE Hop(m, g[n - 1], v[n - 1])]
    BY <2>4, <2>5
  <2>7. PathEqn(g, root, m, v, k)
    BY <2>6 DEF PathEqn
  <2> QED
    BY <1>2, <2>7
<1> QED
  BY <1>2, <1>3, <1>4

\* Path satisfies its equation.
LEMMA PathDef ==
  ASSUME NEW root, NEW m, NEW v
  PROVE  Path(root, m, v) = [n \in 1 .. LEVELS |->
           IF n = 1 THEN root ELSE Hop(m, Path(root, m, v)[n - 1], v[n - 1])]
<1>1. \E f : PathEqn(f, root, m, v, LEVELS)
  BY PathExists, VmmAssumption
<1>2. Path(root, m, v) = CHOOSE f : PathEqn(f, root, m, v, LEVELS)
  BY DEF Path, PathEqn, Hop
<1>3. PathEqn(Path(root, m, v), root, m, v, LEVELS)
  BY <1>1, <1>2, Zenon
<1> QED
  BY <1>3 DEF PathEqn

\* Path, level by level.
LEMMA PathFacts ==
  ASSUME NEW root, NEW m, NEW v
  PROVE  /\ DOMAIN Path(root, m, v) = 1 .. LEVELS /\ Path(root, m, v)[1] = root
         /\ \A n \in 1 .. LEVELS - 1 : Path(root, m, v)[n + 1] = Hop(m, Path(root, m, v)[n], v[n])
         /\ 1 \in 1 .. LEVELS /\ LEVELS \in 1 .. LEVELS /\ LEVELS \in Nat /\ LEVELS > 1
<1> DEFINE p == Path(root, m, v)
<1>1. p = [n \in 1 .. LEVELS |-> IF n = 1 THEN root ELSE Hop(m, p[n - 1], v[n - 1])]
  BY PathDef
<1>2. LEVELS \in Nat /\ LEVELS > 1
  BY VmmAssumption
<1> HIDE DEF p
<1>3. DOMAIN p = 1 .. LEVELS /\ \A n \in 1 .. LEVELS : p[n]
        = IF n = 1 THEN root ELSE Hop(m, p[n - 1], v[n - 1])
  BY <1>1
<1>4. ASSUME NEW n \in 1 .. LEVELS - 1 PROVE p[n + 1] = Hop(m, p[n], v[n])
  <2>1. n + 1 \in 1 .. LEVELS /\ n + 1 # 1 /\ (n + 1) - 1 = n
    BY <1>2
  <2> QED
    BY <1>3, <2>1
<1>5. p[1] = root
  BY <1>2, <1>3
<1> QED
  BY <1>2, <1>3, <1>4, <1>5 DEF p

\* A walk that meets the same entries meets the same tables.
LEMMA SamePath ==
  ASSUME NEW root, NEW m, NEW m2, NEW v, NEW K \in 1 .. LEVELS,
         \A n \in 1 .. K - 1 : Path(root, m, v)[n] # NoFrame =>
            m2[Path(root, m, v)[n]][v[n]].frame = m[Path(root, m, v)[n]][v[n]].frame
  PROVE  \A n \in 1 .. K : Path(root, m2, v)[n] = Path(root, m, v)[n]
<1> DEFINE p == Path(root, m, v)
           q == Path(root, m2, v)
           Bad == {n \in 1 .. K : q[n] # p[n]}
<1>0. LEVELS \in Nat /\ K \in Nat /\ K <= LEVELS
  BY VmmAssumption
<1>1. p[1] = root /\ \A n \in 1 .. LEVELS - 1 : p[n + 1] = Hop(m, p[n], v[n])
  BY PathFacts
<1>2. q[1] = root /\ \A n \in 1 .. LEVELS - 1 : q[n + 1] = Hop(m2, q[n], v[n])
  BY PathFacts
<1>3. \A n \in 1 .. K - 1 : p[n] # NoFrame => m2[p[n]][v[n]].frame = m[p[n]][v[n]].frame
  OBVIOUS
<1> HIDE DEF p, q
<1>4. SUFFICES ASSUME Bad # {} PROVE FALSE
  BY DEF p, q
<1>5. PICK n \in Bad : \A j \in Bad : n <= j
  <2>1. Bad \subseteq Nat
    BY <1>0
  <2> QED
    BY <1>4, <2>1, LeastElement
<1>6. n # 1 /\ n \in 1 .. K /\ q[n] # p[n]
  BY <1>1, <1>2, <1>5
<1> DEFINE k == n - 1
<1>7. k \in 1 .. K - 1 /\ k \in 1 .. LEVELS - 1 /\ n = k + 1 /\ k \in 1 .. K /\ ~(n <= k)
  BY <1>0, <1>6
<1> HIDE DEF k
<1>8. q[k] = p[k]
  BY <1>5, <1>7
<1>9. p[n] = Hop(m, p[k], v[k]) /\ q[n] = Hop(m2, p[k], v[k])
  BY <1>1, <1>2, <1>7, <1>8
<1>10. Hop(m2, p[k], v[k]) = Hop(m, p[k], v[k])
  BY <1>3, <1>7 DEF Hop
<1> QED
  BY <1>6, <1>9, <1>10

\* Once a walk has met a gap it finds nothing.
LEMMA GapUpTo ==
  ASSUME NEW root, NEW m, NEW v, NEW K \in 1 .. LEVELS, NEW n \in 1 .. LEVELS, n <= K,
         Path(root, m, v)[n] = NoFrame
  PROVE  Path(root, m, v)[K] = NoFrame
<1> DEFINE p == Path(root, m, v)
           Bad == {j \in n .. K : p[j] # NoFrame}
<1>0. LEVELS \in Nat /\ n \in Nat /\ n <= LEVELS /\ n >= 1 /\ K \in Nat /\ K <= LEVELS
  BY VmmAssumption
<1>1. \A j \in 1 .. LEVELS - 1 : p[j + 1] = Hop(m, p[j], v[j])
  BY PathFacts
<1>2. p[n] = NoFrame
  OBVIOUS
<1> HIDE DEF p
<1>3. Bad = {}
  <2>1. SUFFICES ASSUME Bad # {} PROVE FALSE
    OBVIOUS
  <2>2. PICK j \in Bad : \A i \in Bad : j <= i
    <3>1. Bad \subseteq Nat
      BY <1>0
    <3> QED
      BY <2>1, <3>1, LeastElement
  <2>3. j # n /\ p[j] # NoFrame /\ j \in n .. K
    BY <1>2, <2>2
  <2> DEFINE k == j - 1
  <2>4. k \in n .. K /\ k \in 1 .. LEVELS - 1 /\ j = k + 1 /\ ~(j <= k)
    BY <1>0, <2>3
  <2> HIDE DEF k
  <2>5. p[k] = NoFrame
    BY <2>2, <2>4
  <2> QED
    BY <1>1, <2>3, <2>4, <2>5 DEF Hop
<1>4. p[K] = NoFrame
  BY <1>0, <1>3
<1> QED
  BY <1>4 DEF p

\* From a gap on the path stays in it.
LEMMA Gap ==
  ASSUME NEW root, NEW m, NEW v, NEW n \in 1 .. LEVELS, Path(root, m, v)[n] = NoFrame
  PROVE  Path(root, m, v)[LEVELS] = NoFrame
<1>1. LEVELS \in 1 .. LEVELS /\ n <= LEVELS
  BY VmmAssumption
<1> QED
  BY <1>1, GapUpTo

----------------------------------------------------------------------------
\* What the frames hold, read as tables.
Mem == [PhysFrames -> [Idx -> Entries]]

\* Whether entry i of table t stands for memory of a user.
OfUser(t, i, lv, uf) == IF lv[t] = 1 THEN i \in UserIdx ELSE t \in uf

\* An entry of an inner table: it names a table one level down, of the same half.
TableEntry(e, t, i, u, lv, uf) ==
  /\ lv[t] < LEVELS /\ e.frame \in u /\ lv[e.frame] = lv[t] + 1
  /\ e.frame \in uf <=> OfUser(t, i, lv, uf)

\* An entry of a last table: it names a frame of data or, for the kernel, a device.
LeafEntry(e, t, i, u, lv, uf) ==
  /\ lv[t] = LEVELS
  /\ \/ e.frame \in u /\ lv[e.frame] = LEVELS + 1
     \/ e.frame = Device /\ ~OfUser(t, i, lv, uf)

\* An entry is empty, or leads where its level and its half say, with the USER bit to match.
EntryOK(e, t, i, u, lv, uf) ==
  \/ e = Absent
  \/ /\ e.frame # NoFrame /\ (e.user <=> OfUser(t, i, lv, uf))
     /\ TableEntry(e, t, i, u, lv, uf) \/ LeafEntry(e, t, i, u, lv, uf)

\* Types; lv is the level of a frame as a table, LEVELS + 1 for data.
TreeTypes(m, u, R, lv) ==
  /\ m \in Mem /\ u \subseteq PhysFrames /\ R \subseteq u
  /\ lv \in [PhysFrames -> 1 .. LEVELS + 1]
  /\ \A r \in R : lv[r] = 1

\* The entries of every table in use are sound.
TreeEntries(m, u, lv, uf) ==
  \A t \in u, i \in Idx : lv[t] <= LEVELS => EntryOK(m[t][i], t, i, u, lv, uf)

\* All roots have the same kernel half.
KernelHalf(m, R) == \A r, s \in R, i \in KernelIdx : m[r][i] = m[s][i]

\* No two entries lead to the same table, but for the kernel's entries in the roots.
TreeApart(m, u, lv) ==
  \A t1, t2 \in u, i1, i2 \in Idx :
    /\ lv[t1] < LEVELS /\ lv[t2] < LEVELS
    /\ m[t1][i1].frame # NoFrame
    /\ m[t1][i1].frame = m[t2][i2].frame
    => /\ i1 = i2
       /\ t1 = t2 \/ (i1 \in KernelIdx /\ lv[t1] = 1 /\ lv[t2] = 1)

\* The tables from the roots R form trees that share only what hangs off the kernel half:
\* lv gives every frame its level, uf the tables of user halves.
Tree(m, u, R, lv, uf) ==
  TreeTypes(m, u, R, lv) /\ TreeEntries(m, u, lv, uf) /\ KernelHalf(m, R) /\ TreeApart(m, u, lv)

\* The constants, in the form the proofs use.
LEMMA FrameNumbers ==
  /\ NoFrame \notin PhysFrames /\ Device \notin PhysFrames /\ Device # NoFrame
  /\ Absent \in Entries /\ Absent.frame = NoFrame /\ ~Absent.user /\ Absent.user = FALSE
  /\ LEVELS \in Nat /\ LEVELS > 1 /\ PhysFrames \subseteq Nat
  /\ \A v \in Pages : \A n \in 1 .. LEVELS : v[n] \in Idx
  /\ \A v \in Pages : v[1] \in Idx /\ (v \in UserPages <=> v[1] \in UserIdx)
  /\ \A v \in Pages : v \in KernelPages <=> v[1] \in KernelIdx
  /\ \A v \in KernelPages : v \in Pages
  /\ \A v \in UserPages : v \in Pages
  /\ Zeroed \in [Idx -> Entries] /\ \A i \in Idx : Zeroed[i] = Absent
<1>1. LEVELS \in Nat /\ LEVELS > 1 /\ Device \notin PhysFrames /\ Device # NoFrame
  BY VmmAssumption
<1>2. NoFrame \notin PhysFrames /\ PhysFrames \subseteq Nat
  BY VmmAssumption DEF NoFrame, PhysFrames
<1>3. Absent \in Entries /\ Absent.frame = NoFrame /\ ~Absent.user /\ Absent.user = FALSE
  BY DEF Absent, Entries
<1>4. \A v \in Pages : \A n \in 1 .. LEVELS : v[n] \in Idx
  BY DEF Pages
<1>5. \A v \in Pages : v[1] \in Idx /\ (v \in UserPages <=> v[1] \in UserIdx)
  BY <1>1, <1>4 DEF UserPages
<1>6. \A v \in Pages : v \in KernelPages <=> v[1] \in KernelIdx
  BY <1>5, VmmAssumption DEF KernelPages, Idx
<1>7. Zeroed \in [Idx -> Entries] /\ \A i \in Idx : Zeroed[i] = Absent
  BY <1>3 DEF Zeroed
<1> QED
  BY <1>1, <1>2, <1>3, <1>4, <1>5, <1>6, <1>7 DEF KernelPages, UserPages

\* A walk from a root meets a table of level n at level n, in the page's own half.
LEMMA PathLevels ==
  ASSUME NEW m, NEW u, NEW R, NEW lv, NEW uf, Tree(m, u, R, lv, uf),
         NEW r \in R, NEW v \in Pages, NEW n \in 1 .. LEVELS, Path(r, m, v)[n] # NoFrame
  PROVE  /\ Path(r, m, v)[n] \in u /\ lv[Path(r, m, v)[n]] = n
         /\ OfUser(Path(r, m, v)[n], v[n], lv, uf) <=> v \in UserPages
<1> DEFINE p == Path(r, m, v)
           Good(j) == /\ p[j] \in u /\ lv[p[j]] = j
                      /\ OfUser(p[j], v[j], lv, uf) <=> v \in UserPages
           Bad == {j \in 1 .. LEVELS : p[j] # NoFrame /\ ~Good(j)}
<1>0. LEVELS \in Nat /\ LEVELS > 1
  BY VmmAssumption
<1>1. p[1] = r /\ \A j \in 1 .. LEVELS - 1 : p[j + 1] = Hop(m, p[j], v[j])
  BY PathFacts
<1>2. p[n] # NoFrame
  OBVIOUS
<1>3. TreeTypes(m, u, R, lv) /\ TreeEntries(m, u, lv, uf)
  BY DEF Tree
<1> HIDE DEF p
<1>4. SUFFICES ASSUME Bad # {} PROVE FALSE
  BY <1>2 DEF p
<1>5. PICK j \in Bad : \A i \in Bad : j <= i
  <2>1. Bad \subseteq Nat
    BY <1>0
  <2> QED
    BY <1>4, <2>1, LeastElement
<1>6. j \in 1 .. LEVELS /\ p[j] # NoFrame /\ ~Good(j)
  BY <1>5
<1>7. Good(1)
  <2>1. r \in u /\ lv[r] = 1
    BY <1>3 DEF TreeTypes
  <2> QED
    BY <1>1, <2>1, FrameNumbers DEF OfUser
<1>8. j # 1
  BY <1>6, <1>7
<1> DEFINE k == j - 1
<1>9. k \in 1 .. LEVELS - 1 /\ k \in 1 .. LEVELS /\ j = k + 1 /\ ~(j <= k) /\ k \in Nat /\ k < LEVELS
  BY <1>0, <1>6, <1>8
<1> HIDE DEF k
<1>10. p[j] = Hop(m, p[k], v[k]) /\ p[k] # NoFrame
  BY <1>1, <1>6, <1>9 DEF Hop
<1>11. Good(k)
  BY <1>5, <1>9, <1>10
<1> DEFINE e == m[p[k]][v[k]]
<1>12. p[j] = e.frame /\ v[k] \in Idx
  BY <1>9, <1>10, FrameNumbers DEF Hop
<1>13. EntryOK(e, p[k], v[k], u, lv, uf)
  BY <1>3, <1>9, <1>11, <1>12 DEF TreeEntries
<1>14. TableEntry(e, p[k], v[k], u, lv, uf)
  <2>1. e # Absent
    BY <1>6, <1>12, FrameNumbers
  <2>2. ~LeafEntry(e, p[k], v[k], u, lv, uf)
    BY <1>9, <1>11 DEF LeafEntry
  <2> QED
    BY <1>13, <2>1, <2>2 DEF EntryOK
<1> HIDE DEF e
<1>15. p[j] \in u /\ lv[p[j]] = j /\ (p[j] \in uf <=> v \in UserPages)
  BY <1>9, <1>11, <1>12, <1>14 DEF TableEntry
<1>16. OfUser(p[j], v[j], lv, uf) <=> p[j] \in uf
  BY <1>8, <1>15 DEF OfUser
<1> QED
  BY <1>6, <1>15, <1>16

\* Ring 3 reaches page v through the tables in m.
UserIn(r, m, v) ==
  \A n \in 1 .. LEVELS : Path(r, m, v)[n] # NoFrame /\ m[Path(r, m, v)[n]][v[n]].user

\* What a walk that finds a frame has met.
LEMMA FullWalk ==
  ASSUME NEW m, NEW u, NEW R, NEW lv, NEW uf, Tree(m, u, R, lv, uf),
         NEW r \in R, NEW v \in Pages, Walk(r, m, v) # NoFrame
  PROVE  /\ \A n \in 1 .. LEVELS : /\ Path(r, m, v)[n] # NoFrame
                                   /\ m[Path(r, m, v)[n]][v[n]].frame # NoFrame
                                   /\ m[Path(r, m, v)[n]][v[n]].user <=> v \in UserPages
         /\ Path(r, m, v)[LEVELS] # NoFrame
         /\ Walk(r, m, v) = m[Path(r, m, v)[LEVELS]][v[LEVELS]].frame
         /\ \/ Walk(r, m, v) \in u /\ lv[Walk(r, m, v)] = LEVELS + 1
            \/ Walk(r, m, v) = Device /\ v \notin UserPages
         /\ UserIn(r, m, v) <=> v \in UserPages
<1> DEFINE p == Path(r, m, v)
<1>0. LEVELS \in Nat /\ LEVELS > 1 /\ LEVELS \in 1 .. LEVELS
  BY VmmAssumption
<1>1. \A j \in 1 .. LEVELS - 1 : p[j + 1] = Hop(m, p[j], v[j])
  BY PathFacts
<1>2. p[LEVELS] # NoFrame /\ Walk(r, m, v) = m[p[LEVELS]][v[LEVELS]].frame
  BY DEF Walk, LastTable
<1>3. \A n \in 1 .. LEVELS : p[n] # NoFrame
  BY <1>2, Gap
<1>4. \A n \in 1 .. LEVELS : /\ p[n] \in u /\ lv[p[n]] = n
                             /\ OfUser(p[n], v[n], lv, uf) <=> v \in UserPages
  BY <1>3, PathLevels
<1>5. TreeEntries(m, u, lv, uf)
  BY DEF Tree
<1> HIDE DEF p
<1>6. \A n \in 1 .. LEVELS : m[p[n]][v[n]].frame # NoFrame
  <2> TAKE n \in 1 .. LEVELS
  <2>1. CASE n = LEVELS
    BY <1>2, <2>1
  <2>2. CASE n # LEVELS
    <3>1. n \in 1 .. LEVELS - 1 /\ n + 1 \in 1 .. LEVELS
      BY <1>0, <2>2
    <3>2. Hop(m, p[n], v[n]) # NoFrame
      BY <1>1, <1>3, <3>1
    <3> QED
      BY <1>3, <3>2 DEF Hop
  <2> QED
    BY <2>1, <2>2
<1>7. \A n \in 1 .. LEVELS : EntryOK(m[p[n]][v[n]], p[n], v[n], u, lv, uf) /\ m[p[n]][v[n]] # Absent
  <2> TAKE n \in 1 .. LEVELS
  <2>1. n <= LEVELS /\ v[n] \in Idx
    BY <1>0, FrameNumbers
  <2>2. EntryOK(m[p[n]][v[n]], p[n], v[n], u, lv, uf)
    BY <1>4, <1>5, <2>1 DEF TreeEntries
  <2> QED
    BY <1>6, <2>2, FrameNumbers
<1>8. \A n \in 1 .. LEVELS : m[p[n]][v[n]].user <=> v \in UserPages
  BY <1>4, <1>7 DEF EntryOK
<1>9. LeafEntry(m[p[LEVELS]][v[LEVELS]], p[LEVELS], v[LEVELS], u, lv, uf)
  <2>1. ~TableEntry(m[p[LEVELS]][v[LEVELS]], p[LEVELS], v[LEVELS], u, lv, uf)
    BY <1>0, <1>4 DEF TableEntry
  <2> QED
    BY <1>0, <1>7, <2>1 DEF EntryOK
<1>10. \/ Walk(r, m, v) \in u /\ lv[Walk(r, m, v)] = LEVELS + 1
       \/ Walk(r, m, v) = Device /\ v \notin UserPages
  BY <1>0, <1>2, <1>4, <1>9 DEF LeafEntry
<1>11. UserIn(r, m, v) <=> v \in UserPages
  BY <1>0, <1>3, <1>8 DEF UserIn, p
<1> QED
  BY <1>2, <1>3, <1>6, <1>8, <1>10, <1>11 DEF p

\* Ring 3 reaches nothing where the walk finds nothing.
LEMMA NoUser ==
  ASSUME NEW m, NEW u, NEW R, NEW lv, NEW uf, Tree(m, u, R, lv, uf),
         NEW r \in R, NEW v \in Pages, UserIn(r, m, v)
  PROVE  Walk(r, m, v) # NoFrame
<1> DEFINE p == Path(r, m, v)
<1>0. LEVELS \in Nat /\ LEVELS > 1 /\ LEVELS \in 1 .. LEVELS /\ v[LEVELS] \in Idx
  BY VmmAssumption, FrameNumbers
<1>1. p[LEVELS] # NoFrame /\ m[p[LEVELS]][v[LEVELS]].user
  BY <1>0 DEF UserIn
<1>2. p[LEVELS] \in u /\ lv[p[LEVELS]] = LEVELS
  BY <1>0, <1>1, PathLevels
<1>3. EntryOK(m[p[LEVELS]][v[LEVELS]], p[LEVELS], v[LEVELS], u, lv, uf)
  BY <1>0, <1>2 DEF Tree, TreeEntries
<1>4. m[p[LEVELS]][v[LEVELS]].frame # NoFrame
  BY <1>1, <1>3, FrameNumbers DEF EntryOK
<1> QED
  BY <1>1, <1>4 DEF Walk, LastTable

\* All spaces find the same for a kernel page.
LEMMA KernelSame ==
  ASSUME NEW m, NEW R, KernelHalf(m, R), R \subseteq PhysFrames,
         NEW r \in R, NEW s \in R, NEW v \in KernelPages
  PROVE  /\ \A n \in 2 .. LEVELS : Path(r, m, v)[n] = Path(s, m, v)[n]
         /\ Walk(r, m, v) = Walk(s, m, v)
<1> DEFINE p == Path(r, m, v)
           q == Path(s, m, v)
           Bad == {n \in 2 .. LEVELS : p[n] # q[n]}
<1>0. LEVELS \in Nat /\ LEVELS > 1 /\ LEVELS \in 2 .. LEVELS /\ v[1] \in KernelIdx /\ v \in Pages
      /\ r # NoFrame /\ s # NoFrame
  BY VmmAssumption, FrameNumbers
<1>1. p[1] = r /\ \A n \in 1 .. LEVELS - 1 : p[n + 1] = Hop(m, p[n], v[n])
  BY PathFacts
<1>2. q[1] = s /\ \A n \in 1 .. LEVELS - 1 : q[n + 1] = Hop(m, q[n], v[n])
  BY PathFacts
<1> HIDE DEF p, q
<1>3. p[2] = q[2]
  <2>1. 1 \in 1 .. LEVELS - 1 /\ 1 + 1 = 2
    BY <1>0
  <2>2. p[2] = Hop(m, r, v[1]) /\ q[2] = Hop(m, s, v[1])
    BY <1>1, <1>2, <2>1
  <2>3. m[r][v[1]] = m[s][v[1]]
    BY <1>0 DEF KernelHalf
  <2> QED
    BY <1>0, <2>2, <2>3 DEF Hop
<1>4. Bad = {}
  <2>1. SUFFICES ASSUME Bad # {} PROVE FALSE
    OBVIOUS
  <2>2. PICK n \in Bad : \A j \in Bad : n <= j
    <3>1. Bad \subseteq Nat
      BY <1>0
    <3> QED
      BY <2>1, <3>1, LeastElement
  <2>3. n # 2 /\ n \in 2 .. LEVELS /\ p[n] # q[n]
    BY <1>3, <2>2
  <2> DEFINE k == n - 1
  <2>4. k \in 2 .. LEVELS /\ k \in 1 .. LEVELS - 1 /\ n = k + 1 /\ ~(n <= k)
    BY <1>0, <2>3
  <2> HIDE DEF k
  <2>5. p[k] = q[k]
    BY <2>2, <2>4
  <2> QED
    BY <1>1, <1>2, <2>3, <2>4, <2>5
<1>5. \A n \in 2 .. LEVELS : p[n] = q[n]
  BY <1>4
<1>6. p[LEVELS] = q[LEVELS]
  BY <1>0, <1>5
<1> QED
  BY <1>5, <1>6 DEF p, q, Walk, LastTable

\* Two walks that end at the same entry are the same, or of the same kernel page.
LEMMA ApartPath ==
  ASSUME NEW m, NEW u, NEW R, NEW lv, NEW uf, Tree(m, u, R, lv, uf),
         NEW r \in R, NEW s \in R, NEW v \in Pages, NEW x \in Pages,
         Path(r, m, v)[LEVELS] # NoFrame,
         Path(r, m, v)[LEVELS] = Path(s, m, x)[LEVELS], v[LEVELS] = x[LEVELS]
  PROVE  v = x /\ (r = s \/ v \in KernelPages)
<1> DEFINE p == Path(r, m, v)
           q == Path(s, m, x)
           Bad == {d \in 0 .. LEVELS - 2 : p[LEVELS - d] # q[LEVELS - d]}
<1>0. LEVELS \in Nat /\ LEVELS > 1 /\ LEVELS \in 1 .. LEVELS
  BY VmmAssumption
<1>1. p[1] = r /\ \A n \in 1 .. LEVELS - 1 : p[n + 1] = Hop(m, p[n], v[n])
  BY PathFacts
<1>2. q[1] = s /\ \A n \in 1 .. LEVELS - 1 : q[n + 1] = Hop(m, q[n], x[n])
  BY PathFacts
<1>3. \A n \in 1 .. LEVELS : p[n] # NoFrame /\ q[n] # NoFrame
  BY Gap
<1>4. \A n \in 1 .. LEVELS : p[n] \in u /\ lv[p[n]] = n /\ q[n] \in u /\ lv[q[n]] = n
  BY <1>3, PathLevels
<1>5. TreeApart(m, u, lv)
  BY DEF Tree
<1>6. p[LEVELS] = q[LEVELS] /\ v[LEVELS] = x[LEVELS]
  OBVIOUS
<1> HIDE DEF p, q
<1>7. ASSUME NEW n \in 1 .. LEVELS - 1, p[n + 1] = q[n + 1]
      PROVE  v[n] = x[n] /\ (p[n] = q[n] \/ (n = 1 /\ v[1] \in KernelIdx))
  <2>1. n \in 1 .. LEVELS /\ n + 1 \in 1 .. LEVELS /\ n < LEVELS /\ n \in Nat
    BY <1>0
  <2>2. m[p[n]][v[n]].frame = m[q[n]][x[n]].frame /\ m[p[n]][v[n]].frame # NoFrame
    BY <1>1, <1>2, <1>3, <1>7, <2>1 DEF Hop
  <2>3. lv[p[n]] < LEVELS /\ lv[q[n]] < LEVELS /\ p[n] \in u /\ q[n] \in u /\ lv[p[n]] = n
    BY <1>4, <2>1
  <2>4. v[n] \in Idx /\ x[n] \in Idx
    BY <2>1, FrameNumbers
  <2>5. /\ v[n] = x[n]
        /\ p[n] = q[n] \/ (v[n] \in KernelIdx /\ lv[p[n]] = 1 /\ lv[q[n]] = 1)
    BY <1>5, <2>2, <2>3, <2>4 DEF TreeApart
  <2> QED
    BY <2>3, <2>5
<1>8. Bad = {}
  <2>1. SUFFICES ASSUME Bad # {} PROVE FALSE
    OBVIOUS
  <2>2. PICK d \in Bad : \A j \in Bad : d <= j
    <3>1. Bad \subseteq Nat
      BY <1>0
    <3> QED
      BY <2>1, <3>1, LeastElement
  <2>3. d \in 0 .. LEVELS - 2 /\ p[LEVELS - d] # q[LEVELS - d]
    BY <2>2
  <2>4. d # 0
    BY <1>0, <1>6, <2>3
  <2> DEFINE c == d - 1
             n == LEVELS - d
  <2>5. /\ c \in 0 .. LEVELS - 2 /\ ~(d <= c) /\ LEVELS - c = n + 1
        /\ n \in 1 .. LEVELS - 1 /\ n # 1
    BY <1>0, <2>3, <2>4
  <2>6. p[n] # q[n]
    BY <2>3
  <2>7. p[LEVELS - c] = q[LEVELS - c]
    BY <2>2, <2>5
  <2> HIDE DEF c, n
  <2> QED
    BY <1>7, <2>5, <2>6, <2>7
<1>9. \A n \in 2 .. LEVELS : p[n] = q[n]
  <2> TAKE n \in 2 .. LEVELS
  <2>1. LEVELS - n \in 0 .. LEVELS - 2 /\ LEVELS - (LEVELS - n) = n
    BY <1>0
  <2> QED
    BY <1>8, <2>1
<1>10. \A n \in 1 .. LEVELS - 1 : p[n + 1] = q[n + 1]
  BY <1>0, <1>9
<1>11. \A n \in 1 .. LEVELS : v[n] = x[n]
  <2> TAKE n \in 1 .. LEVELS
  <2>1. n = LEVELS \/ n \in 1 .. LEVELS - 1
    BY <1>0
  <2> QED
    BY <1>6, <1>7, <1>10, <2>1
<1>12. v = x
  <2>1. v = [n \in 1 .. LEVELS |-> v[n]] /\ x = [n \in 1 .. LEVELS |-> x[n]]
    BY DEF Pages
  <2>2. [n \in 1 .. LEVELS |-> v[n]] = [n \in 1 .. LEVELS |-> x[n]]
    BY <1>11
  <2> QED
    BY <2>1, <2>2
<1>13. p[1] = q[1] \/ v[1] \in KernelIdx
  <2>1. 1 \in 1 .. LEVELS - 1
    BY <1>0
  <2> QED
    BY <1>7, <1>10, <2>1
<1> QED
  BY <1>1, <1>2, <1>12, <1>13, FrameNumbers

----------------------------------------------------------------------------
(* What the steps of the manager do to the tables.                          *)

\* A frame that is not in use may hold anything.
LEMMA WriteFree ==
  ASSUME NEW m, NEW u, NEW R, NEW lv, NEW uf, Tree(m, u, R, lv, uf),
         NEW f \in PhysFrames \ u, NEW c \in [Idx -> Entries]
  PROVE  /\ Tree([m EXCEPT ![f] = c], u, R, lv, uf)
         /\ \A r \in R, v \in Pages : Walk(r, [m EXCEPT ![f] = c], v) = Walk(r, m, v)
<1> DEFINE m2 == [m EXCEPT ![f] = c]
<1>1. TreeTypes(m, u, R, lv) /\ TreeEntries(m, u, lv, uf) /\ KernelHalf(m, R) /\ TreeApart(m, u, lv)
  BY DEF Tree
<1>2. m \in Mem /\ u \subseteq PhysFrames /\ R \subseteq u
  BY <1>1 DEF TreeTypes
<1>3. m2 \in Mem
  BY <1>2 DEF Mem
<1>4. \A t \in u : m2[t] = m[t]
  BY <1>2 DEF Mem
<1> HIDE DEF m2
<1>5. Tree(m2, u, R, lv, uf)
  <2>1. TreeTypes(m2, u, R, lv)
    BY <1>1, <1>3 DEF TreeTypes
  <2>2. TreeEntries(m2, u, lv, uf)
    BY <1>1, <1>4 DEF TreeEntries
  <2>3. KernelHalf(m2, R)
    BY <1>1, <1>2, <1>4 DEF KernelHalf
  <2>4. TreeApart(m2, u, lv)
    BY <1>1, <1>4 DEF TreeApart
  <2> QED
    BY <2>1, <2>2, <2>3, <2>4 DEF Tree
<1>6. ASSUME NEW r \in R, NEW v \in Pages PROVE Walk(r, m2, v) = Walk(r, m, v)
  <2> DEFINE p == Path(r, m, v)
  <2>1. LEVELS \in Nat /\ LEVELS \in 1 .. LEVELS
    BY FrameNumbers
  <2>2. \A n \in 1 .. LEVELS : p[n] # NoFrame => p[n] \in u
    BY PathLevels
  <2>3. \A n \in 1 .. LEVELS : p[n] # NoFrame => m2[p[n]][v[n]].frame = m[p[n]][v[n]].frame
    BY <1>4, <2>2
  <2>4. \A n \in 1 .. LEVELS - 1 : p[n] # NoFrame => m2[p[n]][v[n]].frame = m[p[n]][v[n]].frame
    BY <2>1, <2>3
  <2>5. \A n \in 1 .. LEVELS : Path(r, m2, v)[n] = p[n]
    BY <2>1, <2>4, SamePath
  <2>6. Path(r, m2, v)[LEVELS] = p[LEVELS]
    BY <2>1, <2>5
  <2>7. p[LEVELS] # NoFrame => m2[p[LEVELS]][v[LEVELS]].frame = m[p[LEVELS]][v[LEVELS]].frame
    BY <2>1, <2>3
  <2> HIDE DEF p
  <2>8. Walk(r, m2, v) = IF p[LEVELS] = NoFrame THEN NoFrame ELSE m2[p[LEVELS]][v[LEVELS]].frame
    BY <2>6 DEF Walk, LastTable
  <2>9. Walk(r, m, v) = IF p[LEVELS] = NoFrame THEN NoFrame ELSE m[p[LEVELS]][v[LEVELS]].frame
    BY DEF Walk, LastTable, p
  <2> QED
    BY <2>7, <2>8, <2>9
<1> QED
  BY <1>5, <1>6 DEF m2

\* A label for a frame that comes into use leaves the other entries as they were.
LEMMA Relabel ==
  ASSUME NEW m, NEW u, NEW R, NEW lv, NEW uf, Tree(m, u, R, lv, uf),
         NEW f \in PhysFrames \ u, NEW l \in 1 .. LEVELS + 1, NEW uf2,
         \A g \in u : g \in uf2 <=> g \in uf,
         NEW t \in u, NEW i \in Idx, lv[t] <= LEVELS
  PROVE  EntryOK(m[t][i], t, i, u \cup {f}, [lv EXCEPT ![f] = l], uf2)
<1> DEFINE l2 == [lv EXCEPT ![f] = l]
           e == m[t][i]
           u2 == u \cup {f}
<1>1. TreeTypes(m, u, R, lv) /\ EntryOK(e, t, i, u, lv, uf)
  BY DEF Tree, TreeEntries
<1>2. \A g \in u : l2[g] = lv[g]
  BY <1>1 DEF TreeTypes
<1> HIDE DEF l2, e, u2
<1>3. OfUser(t, i, l2, uf2) <=> OfUser(t, i, lv, uf)
  BY <1>2 DEF OfUser
<1>4. TableEntry(e, t, i, u, lv, uf) => TableEntry(e, t, i, u2, l2, uf2)
  BY <1>2, <1>3 DEF TableEntry, u2
<1>5. LeafEntry(e, t, i, u, lv, uf) => LeafEntry(e, t, i, u2, l2, uf2)
  BY <1>2, <1>3 DEF LeafEntry, u2
<1>6. EntryOK(e, t, i, u2, l2, uf2)
  BY <1>1, <1>3, <1>4, <1>5 DEF EntryOK
<1> QED
  BY <1>6 DEF l2, e, u2

\* A frame taken for data.
LEMMA AddData ==
  ASSUME NEW m, NEW u, NEW R, NEW lv, NEW uf, Tree(m, u, R, lv, uf), NEW f \in PhysFrames \ u
  PROVE  Tree(m, u \cup {f}, R, [lv EXCEPT ![f] = LEVELS + 1], uf)
<1> DEFINE l2 == [lv EXCEPT ![f] = LEVELS + 1]
<1>0. LEVELS \in Nat /\ LEVELS > 1 /\ LEVELS + 1 \in 1 .. LEVELS + 1 /\ ~(LEVELS + 1 <= LEVELS)
  BY FrameNumbers
<1>1. TreeTypes(m, u, R, lv) /\ KernelHalf(m, R) /\ TreeApart(m, u, lv)
  BY DEF Tree
<1>2. /\ u \subseteq PhysFrames /\ lv \in [PhysFrames -> 1 .. LEVELS + 1] /\ R \subseteq u
      /\ \A r \in R : lv[r] = 1
  BY <1>1 DEF TreeTypes
<1>3. /\ l2 \in [PhysFrames -> 1 .. LEVELS + 1] /\ l2[f] = LEVELS + 1
      /\ \A g \in u : l2[g] = lv[g]
  BY <1>0, <1>2
<1>4. TreeTypes(m, u \cup {f}, R, l2)
  <2>1. \A r \in R : l2[r] = 1
    BY <1>2, <1>3
  <2>2. m \in Mem /\ u \cup {f} \subseteq PhysFrames /\ R \subseteq u \cup {f}
    BY <1>1 DEF TreeTypes
  <2> QED
    BY <1>3, <2>1, <2>2 DEF TreeTypes
<1>5. TreeEntries(m, u \cup {f}, l2, uf)
  <2>1. ASSUME NEW t \in u \cup {f}, NEW i \in Idx, l2[t] <= LEVELS
        PROVE  EntryOK(m[t][i], t, i, u \cup {f}, l2, uf)
    <3>1. t \in u /\ lv[t] <= LEVELS
      BY <1>0, <1>3, <2>1
    <3> QED
      BY <1>0, <3>1, Relabel
  <2> QED
    BY <2>1 DEF TreeEntries
<1>6. TreeApart(m, u \cup {f}, l2)
  <2> HIDE DEF l2
  <2>1. \A t \in u \cup {f} : l2[t] < LEVELS => t \in u /\ lv[t] < LEVELS /\ lv[t] = l2[t]
    BY <1>0, <1>3
  <2> QED
    BY <1>1, <2>1 DEF TreeApart
<1> QED
  BY <1>1, <1>4, <1>5, <1>6 DEF Tree

\* A fresh root: no user entries, the kernel's entries of the other roots.
LEMMA AddRoot ==
  ASSUME NEW m, NEW u, NEW R, NEW lv, NEW uf, Tree(m, u, R, lv, uf), NEW f \in PhysFrames \ u,
         NEW c \in [Idx -> Entries],
         \A i \in UserIdx : c[i] = Absent,
         R = {} => \A i \in KernelIdx : c[i] = Absent,
         \A i \in KernelIdx, r \in R : c[i] = m[r][i]
  PROVE  Tree([m EXCEPT ![f] = c], u \cup {f}, R \cup {f}, [lv EXCEPT ![f] = 1], uf)
<1> DEFINE l2 == [lv EXCEPT ![f] = 1]
           m1 == [m EXCEPT ![f] = c]
<1>0. LEVELS \in Nat /\ LEVELS > 1 /\ 1 \in 1 .. LEVELS + 1 /\ 1 < LEVELS /\ 1 <= LEVELS
  BY FrameNumbers
<1>1. Tree(m1, u, R, lv, uf)
  BY WriteFree
<1>2. TreeTypes(m1, u, R, lv) /\ KernelHalf(m1, R) /\ TreeApart(m1, u, lv)
  BY <1>1 DEF Tree
<1>3. /\ u \subseteq PhysFrames /\ lv \in [PhysFrames -> 1 .. LEVELS + 1] /\ R \subseteq u
      /\ \A r \in R : lv[r] = 1
  BY <1>2 DEF TreeTypes
<1>4. m \in Mem
  BY DEF Tree, TreeTypes
<1>5. m1[f] = c /\ \A t \in u : m1[t] = m[t]
  BY <1>3, <1>4 DEF Mem
<1>6. /\ l2 \in [PhysFrames -> 1 .. LEVELS + 1] /\ l2[f] = 1
      /\ \A g \in u : l2[g] = lv[g]
  BY <1>0, <1>3
<1>7. \A i \in Idx : i \in UserIdx \/ i \in KernelIdx
  BY DEF Idx
<1>8. \A i \in KernelIdx : i \in Idx /\ i \notin UserIdx
  BY VmmAssumption DEF Idx
<1> HIDE DEF m1
<1>9. TreeTypes(m1, u \cup {f}, R \cup {f}, l2)
  <2>1. \A r \in R \cup {f} : l2[r] = 1
    BY <1>3, <1>6
  <2>2. m1 \in Mem /\ u \cup {f} \subseteq PhysFrames /\ R \cup {f} \subseteq u \cup {f}
    BY <1>2 DEF TreeTypes
  <2> QED
    BY <1>6, <2>1, <2>2 DEF TreeTypes
<1>10. TreeEntries(m1, u \cup {f}, l2, uf)
  <2>1. ASSUME NEW t \in u \cup {f}, NEW i \in Idx, l2[t] <= LEVELS
        PROVE  EntryOK(m1[t][i], t, i, u \cup {f}, l2, uf)
    <3>1. CASE t \in u
      <4>1. lv[t] <= LEVELS
        BY <1>6, <2>1, <3>1
      <4> QED
        BY <1>0, <1>1, <3>1, <4>1, Relabel
    <3>2. CASE t = f
      <4>1. CASE c[i] = Absent
        BY <1>5, <3>2, <4>1 DEF EntryOK
      <4>2. CASE c[i] # Absent
        <5>1. i \in KernelIdx /\ R # {}
          BY <1>7, <4>2
        <5>2. PICK r \in R : TRUE
          BY <5>1
        <5>3. r \in u /\ lv[r] = 1 /\ m1[r][i] = c[i] /\ l2[r] = 1
          BY <1>3, <1>5, <1>6, <5>1, <5>2
        <5>4a. lv[r] <= LEVELS
          BY <1>0, <5>3
        <5>4b. EntryOK(m1[r][i], r, i, u \cup {f}, l2, uf)
          BY <1>0, <1>1, <5>3, <5>4a, Relabel
        <5>4. EntryOK(c[i], r, i, u \cup {f}, l2, uf)
          BY <5>3, <5>4b
        <5>5. l2[f] = l2[r]
          BY <1>6, <5>3
        <5> HIDE DEF l2
        <5>6. OfUser(f, i, l2, uf) <=> OfUser(r, i, l2, uf)
          BY <1>6, <5>3 DEF OfUser
        <5>7. TableEntry(c[i], r, i, u \cup {f}, l2, uf)
                => TableEntry(c[i], f, i, u \cup {f}, l2, uf)
          BY <5>5, <5>6 DEF TableEntry
        <5>8. ~LeafEntry(c[i], r, i, u \cup {f}, l2, uf)
          BY <1>0, <5>3 DEF LeafEntry
        <5>9. EntryOK(c[i], f, i, u \cup {f}, l2, uf)
          BY <4>2, <5>4, <5>6, <5>7, <5>8 DEF EntryOK
        <5> QED
          BY <1>5, <3>2, <5>9
      <4> QED
        BY <4>1, <4>2
    <3> QED
      BY <3>1, <3>2
  <2> QED
    BY <2>1 DEF TreeEntries
<1>11. KernelHalf(m1, R \cup {f})
  <2>1. \A r \in R \cup {f}, i \in KernelIdx : m1[r][i] = c[i]
    BY <1>3, <1>5
  <2> QED
    BY <2>1 DEF KernelHalf
<1>12. TreeApart(m1, u \cup {f}, l2)
  <2> HIDE DEF l2
  <2>1. \A t \in u \cup {f} : t \in u \/ t = f
    OBVIOUS
  <2>2. ASSUME NEW i \in Idx, c[i].frame # NoFrame
        PROVE  i \in KernelIdx /\ \E r \in R : r \in u /\ lv[r] = 1 /\ m1[r][i] = c[i]
    <3>1. i \in KernelIdx /\ R # {}
      BY <1>7, <2>2, FrameNumbers
    <3> QED
      BY <1>3, <1>5, <3>1
  <2>3. ASSUME NEW t1 \in u, NEW i1 \in Idx, NEW i2 \in Idx, lv[t1] < LEVELS,
               c[i2].frame # NoFrame, m1[t1][i1].frame = c[i2].frame
        PROVE  i1 = i2 /\ i2 \in KernelIdx /\ lv[t1] = 1
    <3>1. i2 \in KernelIdx
      BY <2>2, <2>3
    <3>2. PICK r \in R : r \in u /\ lv[r] = 1 /\ m1[r][i2] = c[i2]
      BY <2>2, <2>3
    <3>3. lv[r] < LEVELS /\ m1[t1][i1].frame # NoFrame /\ m1[t1][i1].frame = m1[r][i2].frame
      BY <1>0, <2>3, <3>2
    <3>4. i1 = i2 /\ (t1 = r \/ lv[t1] = 1)
      BY <1>2, <2>3, <3>2, <3>3 DEF TreeApart
    <3> QED
      BY <3>1, <3>2, <3>4
  <2>4. ASSUME NEW t1 \in u \cup {f}, NEW t2 \in u \cup {f}, NEW i1 \in Idx, NEW i2 \in Idx,
               l2[t1] < LEVELS, l2[t2] < LEVELS, m1[t1][i1].frame # NoFrame,
               m1[t1][i1].frame = m1[t2][i2].frame
        PROVE  /\ i1 = i2
               /\ t1 = t2 \/ (i1 \in KernelIdx /\ l2[t1] = 1 /\ l2[t2] = 1)
    <3>1. CASE t1 \in u /\ t2 \in u
      BY <1>2, <1>6, <2>4, <3>1 DEF TreeApart
    <3>2. CASE t1 \in u /\ t2 = f
      BY <1>5, <1>6, <2>3, <2>4, <3>2
    <3>3. CASE t1 = f /\ t2 \in u
      BY <1>5, <1>6, <2>3, <2>4, <3>3
    <3>4. CASE t1 = f /\ t2 = f
      <4>1. PICK r \in R : r \in u /\ lv[r] = 1 /\ m1[r][i1] = c[i1]
        BY <1>5, <2>2, <2>4, <3>4
      <4>2. i1 = i2
        BY <1>0, <1>5, <2>3, <2>4, <3>4, <4>1
      <4> QED
        BY <3>4, <4>2
    <3> QED
      BY <2>1, <3>1, <3>2, <3>3, <3>4
  <2> QED
    BY <2>4 DEF TreeApart
<1> QED
  BY <1>9, <1>10, <1>11, <1>12 DEF Tree, m1

\* The memory with entry i of table t set, and with a cleared table f entered there.
Put(m, t, i, e) == [m EXCEPT ![t][i] = e]
Entered(m, t, i, e) == [m EXCEPT ![t][i] = e, ![e.frame] = Zeroed]

\* A missing table is entered, cleared.
LEMMA NewTableOK ==
  ASSUME NEW m, NEW u, NEW R, NEW lv, NEW uf, Tree(m, u, R, lv, uf), NEW f \in PhysFrames \ u,
         NEW t \in u, NEW i \in Idx, lv[t] < LEVELS, m[t][i] = Absent,
         NEW e \in Entries, e.frame = f, e.user <=> OfUser(t, i, lv, uf),
         lv[t] = 1 /\ i \in KernelIdx => R = {t},
         NEW m2, m2 = Entered(m, t, i, e)
  PROVE  /\ \E l2, uf2 : Tree(m2, u \cup {f}, R, l2, uf2) /\ \A g \in u : l2[g] = lv[g]
         /\ \A r \in R, v \in Pages : Walk(r, m2, v) = Walk(r, m, v)
         /\ m2[t][i].frame = f
         /\ \A t1 \in u, i1 \in Idx : m[t1][i1] # Absent => m2[t1][i1] = m[t1][i1]
<1> DEFINE l2 == [lv EXCEPT ![f] = lv[t] + 1]
           uf2 == IF OfUser(t, i, lv, uf) THEN uf \cup {f} ELSE uf \ {f}
           u2 == u \cup {f}
<1>0. LEVELS \in Nat /\ LEVELS > 1 /\ NoFrame \notin PhysFrames /\ f # NoFrame
  BY FrameNumbers
<1>1. TreeTypes(m, u, R, lv) /\ TreeEntries(m, u, lv, uf) /\ KernelHalf(m, R) /\ TreeApart(m, u, lv)
  BY DEF Tree
<1>2. /\ u \subseteq PhysFrames /\ lv \in [PhysFrames -> 1 .. LEVELS + 1] /\ R \subseteq u
      /\ m \in Mem /\ \A r \in R : lv[r] = 1
  BY <1>1 DEF TreeTypes
<1>3. lv[t] \in 1 .. LEVELS + 1 /\ lv[t] + 1 \in 1 .. LEVELS + 1 /\ t # f
  BY <1>0, <1>2
<1>4. /\ l2 \in [PhysFrames -> 1 .. LEVELS + 1] /\ l2[f] = lv[t] + 1
      /\ \A g \in u : l2[g] = lv[g]
  BY <1>2, <1>3
<1>5. (\A g \in u : g \in uf2 <=> g \in uf) /\ (f \in uf2 <=> OfUser(t, i, lv, uf))
  OBVIOUS
<1>6. e.frame = f /\ e.frame # NoFrame /\ e # Absent
  BY <1>0, FrameNumbers
<1>7. /\ m2 \in Mem /\ m2[f] = Zeroed /\ m2[t][i] = e
      /\ \A i1 \in Idx : i1 # i => m2[t][i1] = m[t][i1]
      /\ \A t1 \in u : t1 # t => m2[t1] = m[t1]
  <2>1. m2 = [[m EXCEPT ![t] = [m[t] EXCEPT ![i] = e]] EXCEPT ![f] = Zeroed]
    BY <1>2, <1>3 DEF Mem, Entered
  <2>2. [m[t] EXCEPT ![i] = e] \in [Idx -> Entries]
    BY <1>2, <1>6 DEF Mem
  <2>3. Zeroed \in [Idx -> Entries]
    BY FrameNumbers
  <2> DEFINE row == [m[t] EXCEPT ![i] = e]
             m1 == [m EXCEPT ![t] = row]
  <2>4. row[i] = e /\ \A i1 \in Idx : i1 # i => row[i1] = m[t][i1]
    BY <1>2 DEF Mem
  <2> HIDE DEF row
  <2>5. m1 \in Mem /\ m1[t] = row /\ \A t1 \in u : t1 # t => m1[t1] = m[t1]
    BY <1>2, <2>2 DEF Mem, row
  <2>6. m2 = [m1 EXCEPT ![f] = Zeroed]
    BY <2>1 DEF row
  <2> HIDE DEF m1
  <2>7. m2 \in Mem /\ m2[f] = Zeroed /\ \A t1 \in u : m2[t1] = m1[t1]
    BY <1>2, <2>3, <2>5, <2>6 DEF Mem
  <2> QED
    BY <2>4, <2>5, <2>7
<1>8. \A t1 \in u, i1 \in Idx : m2[t1][i1] = IF t1 = t /\ i1 = i THEN e ELSE m[t1][i1]
  BY <1>7
<1>9. \A i1 \in Idx : m2[f][i1] = Absent
  BY <1>7, FrameNumbers
<1>10. \A t1 \in u, i1 \in Idx : m[t1][i1] # Absent => m2[t1][i1] = m[t1][i1]
  BY <1>8
<1> HIDE DEF l2, uf2, u2
<1>11. \A t1 \in u2 : t1 \in u \/ t1 = f
  BY DEF u2
<1>12. TreeTypes(m2, u2, R, l2)
  <2>1. \A r \in R : l2[r] = 1
    BY <1>2, <1>4
  <2>2. u2 \subseteq PhysFrames /\ R \subseteq u2
    BY <1>2 DEF u2
  <2> QED
    BY <1>4, <1>7, <2>1, <2>2 DEF TreeTypes
<1>13. TreeEntries(m2, u2, l2, uf2)
  <2>1. ASSUME NEW t1 \in u2, NEW i1 \in Idx, l2[t1] <= LEVELS
        PROVE  EntryOK(m2[t1][i1], t1, i1, u2, l2, uf2)
    <3>1. CASE t1 = f
      BY <1>9, <3>1 DEF EntryOK
    <3>2. CASE t1 = t /\ i1 = i
      <4>1. OfUser(t, i, l2, uf2) <=> OfUser(t, i, lv, uf)
        BY <1>4, <1>5 DEF OfUser
      <4>2. TableEntry(e, t, i, u2, l2, uf2)
        BY <1>4, <1>5, <1>6, <4>1 DEF TableEntry, u2
      <4>3. e.user <=> OfUser(t, i, l2, uf2)
        BY <1>6, <4>1
      <4> QED
        BY <1>6, <1>7, <3>2, <4>2, <4>3 DEF EntryOK
    <3>3. CASE t1 \in u /\ ~(t1 = t /\ i1 = i)
      <4>1. lv[t1] <= LEVELS /\ m2[t1][i1] = m[t1][i1]
        BY <1>4, <1>8, <2>1, <3>3
      <4>2. EntryOK(m[t1][i1], t1, i1, u2, l2, uf2)
        BY <1>3, <1>5, <3>3, <4>1, Relabel DEF u2, l2
      <4> QED
        BY <4>1, <4>2
    <3> QED
      BY <1>11, <3>1, <3>2, <3>3
  <2> QED
    BY <2>1 DEF TreeEntries
<1>14. KernelHalf(m2, R)
  <2>1. ASSUME NEW r \in R, NEW s \in R, NEW k \in KernelIdx PROVE m2[r][k] = m2[s][k]
    <3>1. m[r][k] = m[s][k] /\ k \in Idx /\ r \in u /\ s \in u /\ lv[r] = 1 /\ lv[s] = 1
      BY <1>1, <1>2 DEF KernelHalf, Idx
    <3>2. CASE (r = t \/ s = t) /\ k = i
      <4>1. R = {t}
        BY <3>1, <3>2
      <4> QED
        BY <4>1
    <3>3. CASE ~((r = t \/ s = t) /\ k = i)
      BY <1>8, <3>1, <3>3
    <3> QED
      BY <3>2, <3>3
  <2> QED
    BY <2>1 DEF KernelHalf
<1>15. \A t1 \in u, i1 \in Idx : lv[t1] < LEVELS => m[t1][i1].frame # f
  <2> SUFFICES ASSUME NEW t1 \in u, NEW i1 \in Idx, lv[t1] < LEVELS PROVE m[t1][i1].frame # f
    OBVIOUS
  <2>1. lv[t1] <= LEVELS /\ ~LeafEntry(m[t1][i1], t1, i1, u, lv, uf)
    BY <1>0, <1>2 DEF LeafEntry
  <2>2. EntryOK(m[t1][i1], t1, i1, u, lv, uf)
    BY <1>1, <2>1 DEF TreeEntries
  <2> QED
    BY <1>0, <2>1, <2>2, FrameNumbers DEF EntryOK, TableEntry
<1>16. TreeApart(m2, u2, l2)
  <2>1. ASSUME NEW t1 \in u2, NEW t2 \in u2, NEW i1 \in Idx, NEW i2 \in Idx,
               l2[t1] < LEVELS, l2[t2] < LEVELS, m2[t1][i1].frame # NoFrame,
               m2[t1][i1].frame = m2[t2][i2].frame
        PROVE  /\ i1 = i2
               /\ t1 = t2 \/ (i1 \in KernelIdx /\ l2[t1] = 1 /\ l2[t2] = 1)
    <3>1. t1 \in u /\ t2 \in u /\ l2[t1] = lv[t1] /\ l2[t2] = lv[t2]
      BY <1>4, <1>9, <1>11, <2>1, FrameNumbers
    <3>2. CASE (t1 = t /\ i1 = i) /\ (t2 = t /\ i2 = i)
      BY <3>2
    <3>3. CASE (t1 = t /\ i1 = i) /\ ~(t2 = t /\ i2 = i)
      BY <1>6, <1>8, <1>15, <2>1, <3>1, <3>3
    <3>4. CASE ~(t1 = t /\ i1 = i) /\ (t2 = t /\ i2 = i)
      BY <1>6, <1>8, <1>15, <2>1, <3>1, <3>4
    <3>5. CASE ~(t1 = t /\ i1 = i) /\ ~(t2 = t /\ i2 = i)
      <4>1. m[t1][i1].frame # NoFrame /\ m[t1][i1].frame = m[t2][i2].frame
        BY <1>8, <2>1, <3>1, <3>5
      <4> QED
        BY <1>1, <2>1, <3>1, <4>1 DEF TreeApart
    <3> QED
      BY <3>2, <3>3, <3>4, <3>5
  <2> QED
    BY <2>1 DEF TreeApart
<1>17. Tree(m2, u2, R, l2, uf2)
  BY <1>12, <1>13, <1>14, <1>16 DEF Tree
<1>18. ASSUME NEW r \in R, NEW v \in Pages PROVE Walk(r, m2, v) = Walk(r, m, v)
  <2>0. LEVELS \in 1 .. LEVELS /\ \A n \in 1 .. LEVELS - 1 : n \in 1 .. LEVELS
    BY <1>0
  <2>1. ASSUME Walk(r, m, v) # NoFrame PROVE Walk(r, m2, v) = Walk(r, m, v)
    <3> DEFINE p == Path(r, m, v)
    <3>1. /\ \A n \in 1 .. LEVELS : p[n] # NoFrame /\ m[p[n]][v[n]].frame # NoFrame
          /\ Walk(r, m, v) = m[p[LEVELS]][v[LEVELS]].frame
      BY <2>1, FullWalk
    <3>2. \A n \in 1 .. LEVELS : p[n] \in u /\ v[n] \in Idx
      BY <3>1, PathLevels, FrameNumbers
    <3>3. \A n \in 1 .. LEVELS : m2[p[n]][v[n]] = m[p[n]][v[n]]
      BY <1>10, <3>1, <3>2, FrameNumbers
    <3>4. \A n \in 1 .. LEVELS : Path(r, m2, v)[n] = p[n]
      BY <2>0, <3>3, SamePath
    <3> HIDE DEF p
    <3> QED
      BY <2>0, <3>1, <3>3, <3>4 DEF Walk, LastTable
  <2>2. ASSUME Walk(r, m2, v) # NoFrame PROVE Walk(r, m, v) = Walk(r, m2, v)
    <3> DEFINE p == Path(r, m2, v)
    <3>1. /\ \A n \in 1 .. LEVELS : p[n] # NoFrame /\ m2[p[n]][v[n]].frame # NoFrame
          /\ Walk(r, m2, v) = m2[p[LEVELS]][v[LEVELS]].frame
      BY <1>17, <2>2, FullWalk
    <3>2. \A n \in 1 .. LEVELS : p[n] \in u2 /\ l2[p[n]] = n /\ v[n] \in Idx
      BY <1>17, <3>1, PathLevels, FrameNumbers
    <3>3. \A n \in 1 .. LEVELS : p[n] \in u
      BY <1>9, <1>11, <3>1, <3>2, FrameNumbers
    <3>4. \A n \in 1 .. LEVELS - 1 : p[n + 1] = m2[p[n]][v[n]].frame /\ n + 1 \in 1 .. LEVELS
      <4>1. \A n \in 1 .. LEVELS - 1 : p[n + 1] = Hop(m2, p[n], v[n]) /\ n + 1 \in 1 .. LEVELS
        BY <1>0, PathFacts
      <4> QED
        BY <2>0, <3>1, <4>1 DEF Hop
    <3>5. \A n \in 1 .. LEVELS : ~(p[n] = t /\ v[n] = i)
      <4> SUFFICES ASSUME NEW n \in 1 .. LEVELS, p[n] = t, v[n] = i PROVE FALSE
        OBVIOUS
      <4>1. n = lv[t] /\ n \in 1 .. LEVELS - 1
        BY <1>0, <1>4, <3>2
      <4>2. p[n + 1] = f
        BY <1>6, <1>7, <3>4, <4>1
      <4> QED
        BY <3>3, <3>4, <4>1, <4>2
    <3>6. \A n \in 1 .. LEVELS : m[p[n]][v[n]] = m2[p[n]][v[n]]
      BY <1>8, <3>2, <3>3, <3>5
    <3>7. \A n \in 1 .. LEVELS : Path(r, m, v)[n] = p[n]
      BY <2>0, <3>6, SamePath
    <3> HIDE DEF p
    <3> QED
      BY <2>0, <3>1, <3>6, <3>7 DEF Walk, LastTable
  <2> QED
    BY <2>1, <2>2
<1>19. \E l, x : Tree(m2, u \cup {f}, R, l, x) /\ \A g \in u : l[g] = lv[g]
  BY <1>4, <1>17 DEF u2
<1> QED
  BY <1>6, <1>7, <1>10, <1>18, <1>19

\* An entry of a table of the last level is set.
LEMMA SetLeaf ==
  ASSUME NEW m, NEW u, NEW R, NEW lv, NEW uf, Tree(m, u, R, lv, uf),
         NEW t \in u, NEW i \in Idx, lv[t] = LEVELS, NEW e \in Entries,
         EntryOK(e, t, i, u, lv, uf),
         NEW m2, m2 = Put(m, t, i, e)
  PROVE  /\ Tree(m2, u, R, lv, uf)
         /\ \A r \in R, v \in Pages :
              Walk(r, m2, v) = IF Path(r, m, v)[LEVELS] = t /\ v[LEVELS] = i THEN e.frame
                               ELSE Walk(r, m, v)
<1>0. LEVELS \in Nat /\ LEVELS > 1 /\ LEVELS \in 1 .. LEVELS /\ NoFrame \notin PhysFrames
      /\ \A n \in 1 .. LEVELS - 1 : n \in 1 .. LEVELS /\ n # LEVELS
  BY FrameNumbers
<1>1. TreeTypes(m, u, R, lv) /\ TreeEntries(m, u, lv, uf) /\ KernelHalf(m, R) /\ TreeApart(m, u, lv)
  BY DEF Tree
<1>2. /\ u \subseteq PhysFrames /\ lv \in [PhysFrames -> 1 .. LEVELS + 1] /\ R \subseteq u
      /\ m \in Mem /\ \A r \in R : lv[r] = 1
  BY <1>1 DEF TreeTypes
<1>3. t \in PhysFrames /\ t # NoFrame
  BY <1>0, <1>2
<1>4. /\ m2 \in Mem /\ m2[t][i] = e
      /\ \A i1 \in Idx : i1 # i => m2[t][i1] = m[t][i1]
      /\ \A t1 \in u : t1 # t => m2[t1] = m[t1]
  <2>1. [m[t] EXCEPT ![i] = e] \in [Idx -> Entries]
    BY <1>2, <1>3 DEF Mem
  <2>2. m2 = [m EXCEPT ![t] = [m[t] EXCEPT ![i] = e]]
    BY <1>2, <1>3 DEF Mem, Put
  <2> QED
    BY <1>2, <1>3, <2>1, <2>2 DEF Mem
<1>5. \A t1 \in u, i1 \in Idx : m2[t1][i1] = IF t1 = t /\ i1 = i THEN e ELSE m[t1][i1]
  BY <1>4
<1>6. Tree(m2, u, R, lv, uf)
  <2>1. TreeTypes(m2, u, R, lv)
    BY <1>1, <1>4 DEF TreeTypes
  <2>2. TreeEntries(m2, u, lv, uf)
    BY <1>1, <1>5 DEF TreeEntries
  <2>3. KernelHalf(m2, R)
    BY <1>0, <1>1, <1>2, <1>4 DEF KernelHalf
  <2>4. TreeApart(m2, u, lv)
    <3>1. \A t1 \in u : lv[t1] < LEVELS => m2[t1] = m[t1]
      BY <1>0, <1>4
    <3> QED
      BY <1>1, <3>1 DEF TreeApart
  <2> QED
    BY <2>1, <2>2, <2>3, <2>4 DEF Tree
<1>7. ASSUME NEW r \in R, NEW v \in Pages
      PROVE  Walk(r, m2, v) = IF Path(r, m, v)[LEVELS] = t /\ v[LEVELS] = i THEN e.frame
                              ELSE Walk(r, m, v)
  <2> DEFINE p == Path(r, m, v)
  <2>1. \A n \in 1 .. LEVELS : p[n] # NoFrame => p[n] \in u /\ lv[p[n]] = n /\ v[n] \in Idx
    BY PathLevels, FrameNumbers
  <2>2. \A n \in 1 .. LEVELS - 1 : p[n] # NoFrame => m2[p[n]][v[n]].frame = m[p[n]][v[n]].frame
    BY <1>0, <1>4, <2>1
  <2>3. \A n \in 1 .. LEVELS : Path(r, m2, v)[n] = p[n]
    BY <1>0, <2>2, SamePath
  <2>4. Path(r, m2, v)[LEVELS] = p[LEVELS]
    BY <1>0, <2>3
  <2>5. p[LEVELS] # NoFrame => m2[p[LEVELS]][v[LEVELS]] =
          IF p[LEVELS] = t /\ v[LEVELS] = i THEN e ELSE m[p[LEVELS]][v[LEVELS]]
    BY <1>0, <1>5, <2>1
  <2>6. Walk(r, m2, v) = IF p[LEVELS] = NoFrame THEN NoFrame ELSE m2[p[LEVELS]][v[LEVELS]].frame
    BY <2>4 DEF Walk, LastTable
  <2>7. Walk(r, m, v) = IF p[LEVELS] = NoFrame THEN NoFrame ELSE m[p[LEVELS]][v[LEVELS]].frame
    BY DEF Walk, LastTable
  <2> HIDE DEF p
  <2>8. Walk(r, m2, v) = IF p[LEVELS] = t /\ v[LEVELS] = i THEN e.frame ELSE Walk(r, m, v)
    BY <1>3, <2>5, <2>6, <2>7
  <2> QED
    BY <2>8 DEF p
<1> QED
  BY <1>6, <1>7

----------------------------------------------------------------------------
(* vmm_map_page.                                                            *)

\* pmm_alloc_frame hands out a frame that was free.
LEMMA NextFrameOK ==
  ASSUME NEW u, u \subseteq PhysFrames, ~Exhausted(u)
  PROVE  /\ NextFrame(u) \in PhysFrames \ u
         /\ Taken(u) = u \cup {NextFrame(u)} /\ Taken(u) \subseteq PhysFrames
<1>1. PhysFrames \ u # {} /\ PhysFrames \ u \subseteq Nat
  BY FrameNumbers DEF Exhausted
<1>2. \E f \in PhysFrames \ u : \A g \in PhysFrames \ u : f <= g
  BY <1>1, LeastElement
<1>3. NextFrame(u) \in PhysFrames \ u
  BY <1>2, Zenon DEF NextFrame
<1> QED
  BY <1>3 DEF Taken

\* The walk of vmm_map_page before its first level.
Start(root, m, u) == [mem |-> m, used |-> u, table |-> root, failed |-> FALSE]

\* The first k levels of the walk.
WalkEqn(w, root, m, u, v, user, k) ==
  w = [n \in 1 .. k |-> IF n = 1 THEN Start(root, m, u) ELSE Descend(w[n - 1], v[n - 1], user)]

\* The recursive function that Mapped defines exists.
LEMMA WalkExists ==
  ASSUME NEW root, NEW m, NEW u, NEW v, NEW user, NEW N \in Nat
  PROVE  \E w : WalkEqn(w, root, m, u, v, user, N)
<1> DEFINE Bad == {k \in Nat : ~ \E w : WalkEqn(w, root, m, u, v, user, k)}
<1>1. SUFFICES ASSUME Bad # {} PROVE FALSE
  OBVIOUS
<1>2. PICK k \in Bad : \A j \in Bad : k <= j
  BY <1>1, LeastElement
<1>3. CASE k = 0
  <2>1. WalkEqn([n \in 1 .. 0 |-> 0], root, m, u, v, user, 0)
    BY DEF WalkEqn
  <2> QED
    BY <1>2, <1>3, <2>1
<1>4. CASE k > 0
  <2>1. k - 1 \in Nat /\ ~(k <= k - 1)
    BY <1>4
  <2>2. PICK w : WalkEqn(w, root, m, u, v, user, k - 1)
    BY <1>2, <2>1
  <2> DEFINE g == [n \in 1 .. k |-> IF n = 1 THEN Start(root, m, u)
    ELSE Descend(w[n - 1], v[n - 1], user)]
  <2>3. \A n \in 1 .. k - 1 : w[n]
          = IF n = 1 THEN Start(root, m, u) ELSE Descend(w[n - 1], v[n - 1], user)
    BY <2>2 DEF WalkEqn
  <2>4. \A n \in 1 .. k - 1 : g[n] = w[n]
    BY <1>4, <2>3
  <2>5. \A n \in 1 .. k : n # 1 => n - 1 \in 1 .. k - 1
    BY <1>4
  <2>6. g = [n \in 1 .. k |-> IF n = 1 THEN Start(root, m, u)
          ELSE Descend(g[n - 1], v[n - 1], user)]
    BY <2>4, <2>5
  <2>7. WalkEqn(g, root, m, u, v, user, k)
    BY <2>6 DEF WalkEqn
  <2> QED
    BY <1>2, <2>7
<1> QED
  BY <1>2, <1>3, <1>4

\* The end of vmm_map_page.
Final(w, v, frame, user) ==
  IF w.failed THEN w ELSE [w EXCEPT !.mem[w.table][v[LEVELS]] = [frame |-> frame, user |-> user]]

\* vmm_map_page level by level.
LEMMA MappedDef ==
  ASSUME NEW root, NEW m, NEW u, NEW v, NEW frame, NEW user
  PROVE  \E w : /\ w[1] = Start(root, m, u)
                /\ \A n \in 1 .. LEVELS - 1 : w[n + 1] = Descend(w[n], v[n], user)
                /\ Mapped(root, m, u, v, frame, user) = Final(w[LEVELS], v, frame, user)
<1>0. LEVELS \in Nat /\ LEVELS > 1
  BY FrameNumbers
<1>1. \E w : WalkEqn(w, root, m, u, v, user, LEVELS)
  BY <1>0, WalkExists
<1> DEFINE w == CHOOSE x : WalkEqn(x, root, m, u, v, user, LEVELS)
<1>2. Mapped(root, m, u, v, frame, user) = Final(w[LEVELS], v, frame, user)
  BY DEF Mapped, WalkEqn, Final, Start
<1>3. WalkEqn(w, root, m, u, v, user, LEVELS)
  BY <1>1, Zenon
<1> HIDE DEF w
<1>4. \A n \in 1 .. LEVELS : w[n]
        = IF n = 1 THEN Start(root, m, u) ELSE Descend(w[n - 1], v[n - 1], user)
  BY <1>3 DEF WalkEqn
<1>5. w[1] = Start(root, m, u)
  BY <1>0, <1>4
<1>6. ASSUME NEW n \in 1 .. LEVELS - 1 PROVE w[n + 1] = Descend(w[n], v[n], user)
  <2>1. n + 1 \in 1 .. LEVELS /\ n + 1 # 1 /\ (n + 1) - 1 = n
    BY <1>0
  <2> QED
    BY <1>4, <2>1
<1> QED
  BY <1>2, <1>5, <1>6

\* The record of a walk.
WalkType == [mem : Mem, used : SUBSET PhysFrames, table : PhysFrames, failed : BOOLEAN]

\* The record of a walk that fails.
LEMMA FailedRecord ==
  ASSUME NEW w \in WalkType, NEW d, d = [w EXCEPT !.failed = TRUE]
  PROVE  d \in WalkType /\ d.mem = w.mem /\ d.used = w.used /\ d.failed
BY DEF WalkType

\* A kernel page's first table is there, or there is no other space that has to see it.
KernelReady(root, m, v, R) == v \in KernelPages => R = {root} \/ m[root][v[1]] # Absent

\* The walk leaves a tree whose labels extend those it started from.
Labelled(w, u, R, lv) == \E l2, f2 : Tree(w.mem, w.used, R, l2, f2) /\ \A g \in u : l2[g] = lv[g]

\* What holds of the walk when it has reached level n.
WalkOK(w, n, root, m, u, v, R, lv) ==
  /\ w \in WalkType /\ u \subseteq w.used /\ Labelled(w, u, R, lv)
  /\ \A s \in R, x \in Pages : Walk(s, w.mem, x) = Walk(s, m, x)
  /\ ~w.failed => w.table = Path(root, w.mem, v)[n]
  /\ n = 1 => KernelReady(root, w.mem, v, R)

\* vmm_map_page is told to set the USER bit for user pages, and only for them.
UserFlag(user, v) == user \in BOOLEAN /\ (user <=> v \in UserPages)

\* One level of vmm_map_page: a table that is there gains no bit it had not, a missing one
\* comes from the free frames.
LEMMA DescendOK ==
  ASSUME NEW m, NEW u, NEW R, NEW lv, NEW root \in R, NEW v \in Pages, NEW user,
         UserFlag(user, v), NEW n \in 1 .. LEVELS - 1, NEW w,
         WalkOK(w, n, root, m, u, v, R, lv)
  PROVE  WalkOK(Descend(w, v[n], user), n + 1, root, m, u, v, R, lv)
<1> DEFINE d == Descend(w, v[n], user)
           i == v[n]
           t == w.table
           wm == w.mem
           wu == w.used
<1>0. LEVELS \in Nat /\ LEVELS > 1 /\ n \in 1 .. LEVELS /\ n + 1 \in 1 .. LEVELS /\ n < LEVELS
      /\ n + 1 # 1 /\ n \in Nat /\ n > 0
  BY FrameNumbers
<1>0a. user \in BOOLEAN /\ (user <=> v \in UserPages)
  BY DEF UserFlag
<1>1. /\ w \in WalkType /\ u \subseteq wu
      /\ \A s \in R, x \in Pages : Walk(s, wm, x) = Walk(s, m, x)
      /\ ~w.failed => t = Path(root, wm, v)[n]
      /\ n = 1 => KernelReady(root, wm, v, R)
  BY DEF WalkOK
<1>2. PICK l2, f2 : Tree(wm, wu, R, l2, f2) /\ \A g \in u : l2[g] = lv[g]
  BY DEF WalkOK, Labelled
<1>3. /\ wm \in Mem /\ wu \subseteq PhysFrames /\ t \in PhysFrames /\ w.failed \in BOOLEAN
      /\ w = [mem |-> wm, used |-> wu, table |-> t, failed |-> w.failed]
  BY <1>1 DEF WalkType
<1>4. i \in Idx /\ t # NoFrame
  BY <1>0, <1>3, FrameNumbers
<1>5. CASE w.failed
  <2>1. d = w
    BY <1>5 DEF Descend
  <2> QED
    BY <1>0, <1>5, <2>1 DEF WalkOK
<1>6. CASE ~w.failed
  <2> HIDE DEF i, t, wm, wu
  <2>1. t \in wu /\ l2[t] = n /\ (OfUser(t, i, l2, f2) <=> v \in UserPages)
    BY <1>0, <1>1, <1>2, <1>4, <1>6, PathLevels DEF i
  <2>2. EntryOK(wm[t][i], t, i, wu, l2, f2) /\ wm[t][i] \in Entries
    <3>1. n <= LEVELS
      BY <1>0
    <3> QED
      BY <1>2, <1>3, <1>4, <2>1, <3>1 DEF Tree, TreeEntries, Mem
  <2>3. Path(root, wm, v)[n + 1] = wm[t][i].frame
    <3>1. Path(root, wm, v)[n + 1] = Hop(wm, Path(root, wm, v)[n], v[n])
      BY PathFacts
    <3> QED
      BY <1>1, <1>4, <1>6, <3>1 DEF Hop, i
  <2>4. CASE Present(wm[t][i])
    <3>1. wm[t][i].frame # NoFrame /\ wm[t][i] # Absent
      BY <2>4, FrameNumbers DEF Present
    <3>2. TableEntry(wm[t][i], t, i, wu, l2, f2) /\ (wm[t][i].user <=> user)
      <4>1. ~LeafEntry(wm[t][i], t, i, wu, l2, f2)
        BY <1>0, <2>1 DEF LeafEntry
      <4> QED
        BY <1>0a, <2>1, <2>2, <3>1, <4>1 DEF EntryOK
    <3>3. wm[t][i].frame \in PhysFrames
      BY <1>3, <3>2 DEF TableEntry
    <3>4. wm[t][i].user \in BOOLEAN
      BY <2>2 DEF Entries
    <3>5. (wm[t][i].user \/ user) = wm[t][i].user
      BY <1>0a, <3>2, <3>4
    <3>6. d = [w EXCEPT !.mem[t][i].user = wm[t][i].user \/ user, !.table = wm[t][i].frame]
      BY <1>6, <2>4 DEF Descend, OldTable, i, t, wm
    <3>7. [wm EXCEPT ![t][i].user = wm[t][i].user \/ user] = wm
      <4>1. [wm[t][i] EXCEPT !.user = wm[t][i].user] = wm[t][i]
        BY <2>2 DEF Entries
      <4>2. [wm[t] EXCEPT ![i] = wm[t][i]] = wm[t]
        BY <1>3, <1>4 DEF Mem
      <4>3. [wm EXCEPT ![t] = wm[t]] = wm
        BY <1>3 DEF Mem
      <4> QED
        BY <3>5, <4>1, <4>2, <4>3
    <3>9. d \in WalkType /\ d.mem = wm /\ d.used = wu /\ d.table = wm[t][i].frame
      <4> DEFINE b == wm[t][i].user \/ user
      <4>1. d = [w EXCEPT !.mem[t][i].user = b, !.table = wm[t][i].frame]
        BY <3>6
      <4>2. [wm EXCEPT ![t][i].user = b] = wm
        BY <3>7
      <4> HIDE DEF b, d
      <4>3. w \in WalkType /\ [w.mem EXCEPT ![t][i].user = b] = w.mem
        BY <1>1, <4>2 DEF wm
      <4>4. d \in WalkType /\ d.mem = w.mem /\ d.used = w.used /\ d.table = wm[t][i].frame
        <5>1. d \in WalkType
          BY <3>3, <4>1, <4>3 DEF WalkType
        <5>2. d.mem = w.mem /\ d.used = w.used /\ d.table = wm[t][i].frame
          BY <3>3, <4>1, <4>3 DEF WalkType
        <5> QED
          BY <5>1, <5>2
      <4> QED
        BY <4>4 DEF wm, wu
    <3>10. Labelled(d, u, R, lv)
      BY <1>2, <3>9 DEF Labelled
    <3> HIDE DEF d
    <3>11. WalkOK(d, n + 1, root, m, u, v, R, lv)
      BY <1>0, <1>1, <2>3, <3>9, <3>10 DEF WalkOK, wm, wu
    <3> QED
      BY <3>11 DEF d
  <2>5. CASE ~Present(wm[t][i]) /\ Exhausted(wu)
    <3>1. d = [w EXCEPT !.failed = TRUE]
      BY <1>6, <2>5 DEF Descend, i, t, wm, wu
    <3>3. d \in WalkType /\ d.mem = wm /\ d.used = wu /\ d.failed
      BY <1>1, <3>1, FailedRecord DEF wm, wu
    <3>4. Labelled(d, u, R, lv)
      BY <1>2, <3>3 DEF Labelled
    <3> HIDE DEF d
    <3>5. WalkOK(d, n + 1, root, m, u, v, R, lv)
      BY <1>0, <1>1, <3>3, <3>4 DEF WalkOK, wm, wu
    <3> QED
      BY <3>5 DEF d
  <2>6. CASE ~Present(wm[t][i]) /\ ~Exhausted(wu)
    <3> DEFINE f == NextFrame(wu)
               e == [frame |-> f, user |-> user]
               m2 == Entered(wm, t, i, e)
    <3>1. f \in PhysFrames \ wu /\ Taken(wu) = wu \cup {f} /\ Taken(wu) \subseteq PhysFrames
      BY <1>3, <2>6, NextFrameOK
    <3>2. d = [mem |-> m2, used |-> Taken(wu), table |-> f, failed |-> FALSE]
      BY <1>6, <2>6 DEF Descend, NewTable, Entered, i, t, wm, wu
    <3>3. wm[t][i] = Absent
      BY <2>2, <2>6 DEF Present, EntryOK
    <3>4. l2[t] < LEVELS
      BY <1>0, <2>1
    <3>5. l2[t] = 1 /\ i \in KernelIdx => R = {t}
      <4> SUFFICES ASSUME l2[t] = 1, i \in KernelIdx PROVE R = {t}
        OBVIOUS
      <4>1. n = 1 /\ t = root
        BY <1>1, <1>6, <2>1, PathFacts
      <4>2. v \in KernelPages /\ wm[root][v[1]] = Absent
        BY <3>3, <4>1, FrameNumbers DEF i
      <4> QED
        BY <1>1, <4>1, <4>2 DEF KernelReady
    <3>6a. e \in Entries /\ e.frame = f /\ (e.user <=> OfUser(t, i, l2, f2))
      BY <1>0a, <2>1, <3>1 DEF Entries
    <3> HIDE DEF f, m2, e
    <3>6. /\ \E l3, f3 : Tree(m2, wu \cup {f}, R, l3, f3) /\ \A g \in wu : l3[g] = l2[g]
          /\ \A r \in R, x \in Pages : Walk(r, m2, x) = Walk(r, wm, x)
          /\ m2[t][i].frame = f
          /\ \A t1 \in wu, i1 \in Idx : wm[t1][i1] # Absent => m2[t1][i1] = wm[t1][i1]
      <4>1. m2 = Entered(wm, t, i, e)
        BY DEF m2
      <4> HIDE DEF d
      <4> QED
        BY <1>2, <1>4, <2>1, <3>1, <3>3, <3>4, <3>5, <3>6a, <4>1, NewTableOK
    <3>6b. PICK l3, f3 : Tree(m2, wu \cup {f}, R, l3, f3) /\ \A g \in wu : l3[g] = l2[g]
      BY <3>6
    <3>7. d \in WalkType /\ d.mem = m2 /\ d.used = wu \cup {f} /\ d.table = f /\ ~d.failed
      <4>1. m2 \in Mem
        BY <3>6b DEF Tree, TreeTypes
      <4> QED
        BY <3>1, <3>2, <4>1 DEF WalkType
    <3>8. Labelled(d, u, R, lv)
      <4>1. \A g \in u : l3[g] = lv[g]
        BY <1>1, <1>2, <3>6b
      <4> QED
        BY <3>6b, <3>7, <4>1 DEF Labelled
    <3>9. Path(root, m2, v)[n + 1] = f
      <4> DEFINE p == Path(root, wm, v)
      <4>1. \A k \in 1 .. n - 1 : p[k + 1] # NoFrame
        <5>1. p[n] # NoFrame
          BY <1>1, <1>4, <1>6
        <5>2. SUFFICES ASSUME NEW k \in 1 .. n - 1, p[k + 1] = NoFrame PROVE FALSE
          OBVIOUS
        <5>3. k + 1 \in 1 .. LEVELS /\ k + 1 <= n
          BY <1>0
        <5> QED
          BY <1>0, <5>1, <5>2, <5>3, GapUpTo
      <4>2. \A k \in 1 .. n - 1 : k \in 1 .. LEVELS - 1 /\ k \in 1 .. LEVELS
        BY <1>0
      <4>3. \A k \in 1 .. LEVELS - 1 : p[k + 1] = Hop(wm, p[k], v[k])
        BY PathFacts
      <4>4. \A k \in 1 .. LEVELS : p[k] # NoFrame => p[k] \in wu /\ v[k] \in Idx
        BY <1>2, PathLevels, FrameNumbers
      <4>5. \A k \in 1 .. n - 1 : p[k] # NoFrame => m2[p[k]][v[k]].frame = wm[p[k]][v[k]].frame
        <5> HIDE DEF p
        <5> SUFFICES ASSUME NEW k \in 1 .. n - 1, p[k] # NoFrame
                     PROVE  m2[p[k]][v[k]].frame = wm[p[k]][v[k]].frame
          OBVIOUS
        <5>1. wm[p[k]][v[k]].frame # NoFrame
          BY <4>1, <4>2, <4>3 DEF Hop
        <5>2. wm[p[k]][v[k]] # Absent
          BY <5>1, FrameNumbers
        <5> QED
          BY <3>6, <4>2, <4>4, <5>2
      <4>6. \A k \in 1 .. n : Path(root, m2, v)[k] = p[k]
        BY <1>0, <4>5, SamePath
      <4>7. Path(root, m2, v)[n] = t
        BY <1>0, <1>1, <1>6, <4>6
      <4>8. Path(root, m2, v)[n + 1] = Hop(m2, Path(root, m2, v)[n], v[n])
        BY PathFacts
      <4> QED
        BY <1>4, <3>6, <4>7, <4>8 DEF Hop, i
    <3> HIDE DEF d
    <3>10. u \subseteq d.used
      BY <1>1, <3>7
    <3>11. \A s \in R, x \in Pages : Walk(s, d.mem, x) = Walk(s, m, x)
      BY <1>1, <3>6, <3>7
    <3>12. WalkOK(d, n + 1, root, m, u, v, R, lv)
      BY <1>0, <3>7, <3>8, <3>9, <3>10, <3>11 DEF WalkOK
    <3> QED
      BY <3>12 DEF d
  <2> QED
    BY <2>4, <2>5, <2>6
<1> QED
  BY <1>3, <1>5, <1>6

\* What vmm_map_page does to the spaces of R.
MapsPage(w, root, m, u, v, frame, R) ==
  /\ w.failed \in BOOLEAN /\ u \subseteq w.used
  /\ \E l2, f2 : Tree(w.mem, w.used, R, l2, f2)
  /\ w.failed => \A s \in R, x \in Pages : Walk(s, w.mem, x) = Walk(s, m, x)
  /\ ~w.failed => \A s \in R, x \in Pages :
       Walk(s, w.mem, x) = IF x = v /\ (s = root \/ v \in KernelPages) THEN frame ELSE Walk(s, m, x)

\* The walk of vmm_map_page, from the root to the last table.
LEMMA WalkReaches ==
  ASSUME NEW m, NEW u, NEW R, NEW lv, NEW uf, Tree(m, u, R, lv, uf), NEW root \in R,
         NEW v \in Pages, NEW user, UserFlag(user, v), KernelReady(root, m, v, R),
         NEW w, w[1] = Start(root, m, u),
         \A n \in 1 .. LEVELS - 1 : w[n + 1] = Descend(w[n], v[n], user)
  PROVE  WalkOK(w[LEVELS], LEVELS, root, m, u, v, R, lv)
<1> DEFINE Bad == {n \in 1 .. LEVELS : ~WalkOK(w[n], n, root, m, u, v, R, lv)}
<1>0. LEVELS \in Nat /\ LEVELS > 1 /\ LEVELS \in 1 .. LEVELS
  BY FrameNumbers
<1>1. WalkOK(w[1], 1, root, m, u, v, R, lv)
  <2>1. m \in Mem /\ u \subseteq PhysFrames /\ root \in PhysFrames
    BY DEF Tree, TreeTypes
  <2>2. /\ w[1] \in WalkType /\ w[1].mem = m /\ w[1].used = u /\ w[1].table = root
    BY <2>1 DEF Start, WalkType
  <2>3. Labelled(w[1], u, R, lv)
    BY <2>2 DEF Labelled
  <2>4. Path(root, m, v)[1] = root
    BY PathFacts
  <2> QED
    BY <2>2, <2>3, <2>4 DEF WalkOK
<1>2. SUFFICES ASSUME Bad # {} PROVE FALSE
  BY <1>0
<1>3. PICK n \in Bad : \A j \in Bad : n <= j
  <2>1. Bad \subseteq Nat
    BY <1>0
  <2> QED
    BY <1>2, <2>1, LeastElement
<1>4. n # 1 /\ n \in 1 .. LEVELS /\ ~WalkOK(w[n], n, root, m, u, v, R, lv)
  BY <1>1, <1>3
<1> DEFINE k == n - 1
<1>5. k \in 1 .. LEVELS - 1 /\ k \in 1 .. LEVELS /\ n = k + 1 /\ ~(n <= k)
  BY <1>0, <1>4
<1> HIDE DEF k
<1>6. WalkOK(w[k], k, root, m, u, v, R, lv)
  BY <1>3, <1>5
<1>7. WalkOK(Descend(w[k], v[k], user), k + 1, root, m, u, v, R, lv)
  BY <1>5, <1>6, DescendOK
<1> QED
  BY <1>4, <1>5, <1>7

\* The walks that end at the same entry as the walk to page v from root.
LEMMA LeafOf ==
  ASSUME NEW m, NEW u, NEW R, NEW lv, NEW uf, Tree(m, u, R, lv, uf), NEW root \in R,
         NEW v \in Pages, NEW t, t = Path(root, m, v)[LEVELS], t # NoFrame
  PROVE  \A s \in R, x \in Pages :
           (Path(s, m, x)[LEVELS] = t /\ x[LEVELS] = v[LEVELS])
             <=> (x = v /\ (s = root \/ v \in KernelPages))
<1> SUFFICES ASSUME NEW s \in R, NEW x \in Pages
             PROVE  (Path(s, m, x)[LEVELS] = t /\ x[LEVELS] = v[LEVELS])
                      <=> (x = v /\ (s = root \/ v \in KernelPages))
  OBVIOUS
<1>1. ASSUME Path(s, m, x)[LEVELS] = t, x[LEVELS] = v[LEVELS]
      PROVE  x = v /\ (s = root \/ v \in KernelPages)
  <2>1. v = x /\ (root = s \/ v \in KernelPages)
    BY <1>1, ApartPath
  <2> QED
    BY <2>1
<1>2. ASSUME x = v, s = root \/ v \in KernelPages
      PROVE  Path(s, m, x)[LEVELS] = t /\ x[LEVELS] = v[LEVELS]
  <2>1. CASE s = root
    BY <1>2, <2>1
  <2>2. CASE v \in KernelPages
    <3>1. KernelHalf(m, R) /\ R \subseteq PhysFrames
      BY DEF Tree, TreeTypes
    <3>2. LEVELS \in 2 .. LEVELS
      BY FrameNumbers
    <3>3. Path(s, m, v)[LEVELS] = Path(root, m, v)[LEVELS]
      BY <2>2, <3>1, <3>2, KernelSame
    <3> QED
      BY <1>2, <3>3
  <2> QED
    BY <1>2, <2>1, <2>2
<1> QED
  BY <1>1, <1>2

\* vmm_map_page as a whole.
LEMMA MappedOK ==
  ASSUME NEW m, NEW u, NEW R, NEW lv, NEW uf, Tree(m, u, R, lv, uf), NEW root \in R,
         NEW v \in Pages, NEW user, UserFlag(user, v), KernelReady(root, m, v, R), NEW frame,
         (frame \in u /\ lv[frame] = LEVELS + 1) \/ (frame = Device /\ v \in KernelPages)
  PROVE  MapsPage(Mapped(root, m, u, v, frame, user), root, m, u, v, frame, R)
<1>0. LEVELS \in Nat /\ LEVELS > 1 /\ LEVELS \in 1 .. LEVELS /\ v[LEVELS] \in Idx /\ LEVELS # 1
      /\ user \in BOOLEAN /\ (user <=> v \in UserPages) /\ NoFrame \notin PhysFrames
  BY FrameNumbers DEF UserFlag
<1>1. PICK g : /\ g[1] = Start(root, m, u)
               /\ \A n \in 1 .. LEVELS - 1 : g[n + 1] = Descend(g[n], v[n], user)
               /\ Mapped(root, m, u, v, frame, user) = Final(g[LEVELS], v, frame, user)
  BY MappedDef
<1> DEFINE w == g[LEVELS]
           d == Final(w, v, frame, user)
<1>2. WalkOK(w, LEVELS, root, m, u, v, R, lv)
  BY <1>1, WalkReaches
<1> HIDE DEF w
<1>3. /\ w \in WalkType /\ u \subseteq w.used
      /\ \A s \in R, x \in Pages : Walk(s, w.mem, x) = Walk(s, m, x)
      /\ ~w.failed => w.table = Path(root, w.mem, v)[LEVELS]
  BY <1>2 DEF WalkOK
<1>4. PICK l2, f2 : Tree(w.mem, w.used, R, l2, f2) /\ \A q \in u : l2[q] = lv[q]
  BY <1>2 DEF WalkOK, Labelled
<1>5. w.failed \in BOOLEAN /\ w.table \in PhysFrames /\ w.mem \in Mem
  BY <1>3 DEF WalkType
<1>6. CASE w.failed
  <2>1. d = w
    BY <1>6 DEF Final
  <2> HIDE DEF d
  <2>2. MapsPage(d, root, m, u, v, frame, R)
    BY <1>3, <1>4, <1>5, <1>6, <2>1 DEF MapsPage
  <2> QED
    BY <1>1, <2>2 DEF d, w
<1>7. CASE ~w.failed
  <2> DEFINE e == [frame |-> frame, user |-> user]
             t == w.table
             i == v[LEVELS]
  <2>1. d = [w EXCEPT !.mem[t][i] = e]
    BY <1>7 DEF Final
  <2>2. e \in Entries /\ e.frame = frame /\ (e.user <=> v \in UserPages)
    <3>1. frame \in PhysFrames \cup {NoFrame, Device}
      BY DEF Tree, TreeTypes
    <3> QED
      BY <1>0, <3>1 DEF Entries
  <2> HIDE DEF e, d, t, i
  <2>3. /\ d.mem = Put(w.mem, t, i, e) /\ d.used = w.used /\ d.failed = w.failed
    BY <1>3, <2>1 DEF WalkType, Put
  <2>4. t \in w.used /\ l2[t] = LEVELS /\ (OfUser(t, i, l2, f2) <=> v \in UserPages)
    BY <1>0, <1>3, <1>4, <1>5, <1>7, PathLevels DEF t, i
  <2>5. EntryOK(e, t, i, w.used, l2, f2)
    <3>1. LeafEntry(e, t, i, w.used, l2, f2)
      BY <1>3, <1>4, <2>2, <2>4, FrameNumbers DEF LeafEntry, KernelPages
    <3>2. e.frame # NoFrame
      BY <2>2, FrameNumbers DEF Tree, TreeTypes
    <3> QED
      BY <2>2, <2>4, <3>1, <3>2 DEF EntryOK
  <2>6. i \in Idx
    BY <1>0 DEF i
  <2>7. /\ Tree(d.mem, w.used, R, l2, f2)
        /\ \A s \in R, x \in Pages :
             Walk(s, d.mem, x) = IF Path(s, w.mem, x)[LEVELS] = t /\ x[LEVELS] = i THEN e.frame
                                 ELSE Walk(s, w.mem, x)
    BY <1>4, <2>2, <2>3, <2>4, <2>5, <2>6, SetLeaf
  <2>8. \A s \in R, x \in Pages :
          (Path(s, w.mem, x)[LEVELS] = t /\ x[LEVELS] = i)
            <=> (x = v /\ (s = root \/ v \in KernelPages))
    <3>1. Path(root, w.mem, v)[LEVELS] = t /\ t # NoFrame
      BY <1>0, <1>3, <1>5, <1>7 DEF t
    <3> QED
      BY <1>4, <3>1, LeafOf DEF i
  <2>9. \A s \in R, x \in Pages :
          Walk(s, d.mem, x)
            = IF x = v /\ (s = root \/ v \in KernelPages) THEN frame ELSE Walk(s, m, x)
    BY <1>3, <2>2, <2>7, <2>8
  <2>10. d.failed \in BOOLEAN /\ ~d.failed
    BY <1>5, <1>7, <2>3
  <2>11. \E l, f : Tree(d.mem, d.used, R, l, f)
    BY <2>3, <2>7
  <2>12. MapsPage(d, root, m, u, v, frame, R)
    BY <1>3, <2>3, <2>9, <2>10, <2>11 DEF MapsPage
  <2> QED
    BY <1>1, <2>12 DEF d, w
<1> QED
  BY <1>5, <1>6, <1>7

----------------------------------------------------------------------------
(* The manager's state.                                                     *)

\* The labels are not part of the state: some labels fit.
TreeThere(m, u, R) == \E lv, uf : Tree(m, u, R, lv, uf)

\* Types of the state beside memory; before vmm_init no frame is in use.
VmmTypes ==
  /\ roots \in Seq(used) /\ Len(roots) <= MAX_TASKS + 1
  /\ loading \in BOOLEAN /\ halted \in BOOLEAN
  /\ current_pml4 \in used \cup {NoFrame} /\ cr3 \in used \cup {NoFrame}
  /\ ~halted /\ roots = <<>> => used = {}

\* While the kernel runs its root and the processor's are roots of tasks, and the
\* direct map is there.
RootsOK ==
  Running => /\ current_pml4 \in Range(roots) /\ cr3 \in Range(roots)
             /\ ~loading => current_pml4 = Kernel
             /\ Walk(Kernel, mem, HhdmPage) = Device

\* The inductive invariant: the tables of all tasks form a tree.
VmmIInv == VmmTypes /\ TreeThere(mem, used, Range(roots)) /\ RootsOK

\* The roots as a set.
LEMMA RootFacts ==
  ASSUME NEW u, roots \in Seq(u)
  PROVE  /\ Range(roots) \subseteq u
         /\ roots # <<>> => Kernel \in Range(roots) /\ 1 \in DOMAIN roots
         /\ Len(roots) = 1 => Range(roots) = {Kernel}
         /\ Len(roots) \in Nat /\ DOMAIN roots = 1 .. Len(roots)
         /\ \A k \in DOMAIN roots : roots[k] \in Range(roots)
<1>1. /\ Len(roots) \in Nat /\ DOMAIN roots = 1 .. Len(roots)
      /\ \A k \in DOMAIN roots : roots[k] \in u
  OBVIOUS
<1>2. roots # <<>> => Len(roots) > 0
  BY <1>1
<1>3. Range(roots) \subseteq u /\ \A k \in DOMAIN roots : roots[k] \in Range(roots)
  BY <1>1 DEF Range
<1>4. roots # <<>> => 1 \in DOMAIN roots
  BY <1>1, <1>2
<1>5. Len(roots) = 1 => DOMAIN roots = {1}
  BY <1>1
<1> QED
  BY <1>1, <1>3, <1>4, <1>5 DEF Range, Kernel

\* Before vmm_init no table is in use.
LEMMA VmmInitOK == VmmInit => VmmIInv
<1> SUFFICES ASSUME VmmInit PROVE VmmIInv
  OBVIOUS
<1>1. /\ mem = [f \in PhysFrames |-> Stale] /\ used = {} /\ roots = <<>> /\ loading = FALSE
      /\ halted = FALSE /\ current_pml4 = NoFrame /\ cr3 = NoFrame
  BY DEF VmmInit
<1>2. VmmTypes
  <2>1. roots \in Seq(used) /\ Len(roots) = 0
    BY <1>1
  <2>2. 0 <= MAX_TASKS + 1
    BY VmmAssumption
  <2> QED
    BY <1>1, <2>1, <2>2 DEF VmmTypes
<1>3. Range(roots) = {}
  BY <1>1 DEF Range
<1> DEFINE lv == [f \in PhysFrames |-> 1]
<1>4. mem \in Mem
  <2>1. [frame |-> 1, user |-> TRUE] \in Entries
    BY VmmAssumption DEF Entries, PhysFrames
  <2>2. Stale \in [Idx -> Entries]
    BY <2>1 DEF Stale
  <2> QED
    BY <1>1, <2>2 DEF Mem
<1>5. lv \in [PhysFrames -> 1 .. LEVELS + 1]
  BY FrameNumbers
<1> HIDE DEF lv
<1>6. Tree(mem, used, Range(roots), lv, {})
  BY <1>1, <1>3, <1>4, <1>5 DEF Tree, TreeTypes, TreeEntries, KernelHalf, TreeApart
<1>7. RootsOK
  BY <1>1 DEF RootsOK, Running
<1> QED
  BY <1>2, <1>6, <1>7 DEF VmmIInv, TreeThere

\* UserAt, for the memory as it is.
LEMMA UserAtIs == ASSUME NEW r, NEW v PROVE UserAt(r, v) <=> UserIn(r, mem, v)
BY DEF UserAt, UserIn

\* The invariant implies what the run checks.
LEMMA VmmIInvImplies == VmmIInv => VmmInv
<1> SUFFICES ASSUME VmmIInv PROVE VmmInv
  OBVIOUS
<1>1. VmmTypes /\ RootsOK
  BY DEF VmmIInv
<1>2. PICK lv, uf : Tree(mem, used, Range(roots), lv, uf)
  BY DEF VmmIInv, TreeThere
<1>3. mem \in Mem /\ used \subseteq PhysFrames
  BY <1>2 DEF Tree, TreeTypes
<1>4. VmmTypeOK
  <2>1. mem \in [PhysFrames -> [Idx -> Entries]]
    BY <1>3 DEF Mem
  <2>2. {loading, halted} \subseteq BOOLEAN
    BY <1>1 DEF VmmTypes
  <2>3. {current_pml4, cr3} \subseteq used \cup {NoFrame}
    BY <1>1 DEF VmmTypes
  <2> QED
    BY <1>1, <1>3, <2>1, <2>2, <2>3 DEF VmmTypeOK, VmmTypes
<1>5. TablesHidden
  <2> SUFFICES ASSUME NEW s \in Range(roots), NEW t \in Range(roots), NEW v \in Pages, UserAt(s, v)
               PROVE  Walk(s, mem, v)
                        \notin Tables(t) \cup (PhysFrames \ used) \cup {NoFrame, Device}
    BY DEF TablesHidden
  <2>1. UserIn(s, mem, v)
    BY UserAtIs
  <2>2. Walk(s, mem, v) # NoFrame
    BY <1>2, <2>1, NoUser
  <2>3. Walk(s, mem, v) \in used /\ lv[Walk(s, mem, v)] = LEVELS + 1
    BY <1>2, <2>1, <2>2, FullWalk
  <2>4. ASSUME NEW x \in Pages, NEW n \in 1 .. LEVELS, Path(t, mem, x)[n] # NoFrame
        PROVE  Path(t, mem, x)[n] # Walk(s, mem, v)
    <3>1. lv[Path(t, mem, x)[n]] = n
      BY <1>2, <2>4, PathLevels
    <3>2. n # LEVELS + 1
      BY FrameNumbers
    <3> QED
      BY <2>3, <3>1, <3>2
  <2>5. Walk(s, mem, v) \notin Tables(t)
    <3>1. \A x \in Pages : DOMAIN Path(t, mem, x) = 1 .. LEVELS
      BY PathFacts
    <3>2. SUFFICES ASSUME Walk(s, mem, v) \in Tables(t) PROVE FALSE
      OBVIOUS
    <3>3. PICK x \in Pages : Walk(s, mem, v) \in Range(Path(t, mem, x))
      BY <3>2 DEF Tables
    <3>4. PICK n \in 1 .. LEVELS : Walk(s, mem, v) = Path(t, mem, x)[n]
      BY <3>1, <3>3 DEF Range
    <3> QED
      BY <2>2, <2>4, <3>4
  <2>6. Walk(s, mem, v) # Device
    BY <1>3, <2>3, FrameNumbers
  <2> QED
    BY <2>2, <2>3, <2>5, <2>6
<1>6. TranslatesKernel
  <2> SUFFICES ASSUME Running, ~loading, NEW v \in KernelPages
               PROVE  vmm_virt_to_phys(v) = Walk(cr3, mem, v)
    BY DEF TranslatesKernel
  <2>1. /\ current_pml4 \in Range(roots) /\ cr3 \in Range(roots)
        /\ current_pml4 = Kernel /\ Walk(Kernel, mem, HhdmPage) = Device
    BY <1>1 DEF RootsOK
  <2>2. KernelHalf(mem, Range(roots)) /\ Range(roots) \subseteq PhysFrames
    BY <1>2 DEF Tree, TreeTypes
  <2>3. Walk(current_pml4, mem, v) = Walk(cr3, mem, v)
    BY <2>1, <2>2, KernelSame
  <2>4. current_pml4 # NoFrame
    BY <2>1, <2>2, FrameNumbers
  <2> QED
    BY <2>1, <2>3, <2>4 DEF vmm_virt_to_phys
<1> QED
  BY <1>4, <1>5, <1>6 DEF VmmInv

\* Fewer spaces are as sound as more.
LEMMA FewerRoots ==
  ASSUME NEW m, NEW u, NEW R, TreeThere(m, u, R), NEW S, S \subseteq R
  PROVE  TreeThere(m, u, S)
<1>1. PICK lv, uf : Tree(m, u, R, lv, uf)
  BY DEF TreeThere
<1>2. Tree(m, u, S, lv, uf)
  <2>1. TreeTypes(m, u, S, lv) /\ KernelHalf(m, S)
    BY <1>1 DEF Tree, TreeTypes, KernelHalf
  <2> QED
    BY <1>1, <2>1 DEF Tree
<1> QED
  BY <1>2 DEF TreeThere

\* A root without an entry for the page's first index.
LEMMA BlankRoot ==
  ASSUME NEW r, r # NoFrame, NEW m, NEW v \in Pages, m[r][v[1]].frame = NoFrame
  PROVE  Walk(r, m, v) = NoFrame
<1>0. 1 \in 1 .. LEVELS - 1 /\ 2 \in 1 .. LEVELS /\ 1 + 1 = 2
  BY FrameNumbers
<1>1. Path(r, m, v)[2] = Hop(m, r, v[1])
  BY <1>0, PathFacts
<1>2. Path(r, m, v)[2] = NoFrame
  BY <1>1 DEF Hop
<1>3. Path(r, m, v)[LEVELS] = NoFrame
  BY <1>0, <1>2, Gap
<1> QED
  BY <1>3 DEF Walk, LastTable

----------------------------------------------------------------------------
(* The actions.                                                             *)

\* No space sees a difference, or only at page v: of the space r, or of all spaces.
WalksKept == \A s \in Range(roots), x \in Pages : Walk(s, mem', x) = Walk(s, mem, x)

PageSet(r, v, f) ==
  \A s \in Range(roots), x \in Pages :
    Walk(s, mem', x) = IF x = v /\ (s = r \/ v \in KernelPages) THEN f ELSE Walk(s, mem, x)

\* A step that leaves the roots alone and the direct map where it is.
LEMMA KeepsState ==
  ASSUME VmmIInv, Running, UNCHANGED <<roots, current_pml4, cr3, loading>>,
         halted' \in BOOLEAN, used \subseteq used', TreeThere(mem', used', Range(roots)),
         WalksKept \/ \E v \in Pages \ {HhdmPage} : \E r, f : PageSet(r, v, f)
  PROVE  VmmIInv'
<1>1. VmmTypes /\ RootsOK
  BY DEF VmmIInv
<1>2. roots # <<>> /\ roots \in Seq(used) /\ Kernel' = Kernel
  BY <1>1 DEF Running, VmmTypes, Kernel
<1>3. Kernel \in Range(roots) /\ HhdmPage \in Pages
  BY <1>2, RootFacts, VmmAssumption, FrameNumbers
<1>4. Walk(Kernel, mem', HhdmPage) = Walk(Kernel, mem, HhdmPage)
  BY <1>3 DEF WalksKept, PageSet
<1>5. VmmTypes'
  <2>1. roots' \in Seq(used')
    BY <1>2
  <2> QED
    BY <1>1, <1>2, <2>1 DEF VmmTypes
<1>6. RootsOK'
  BY <1>1, <1>2, <1>4 DEF RootsOK, Running
<1> QED
  BY <1>5, <1>6 DEF VmmIInv

\* A page of the space the manager works on is given a frame.
LEMMA StoreOK ==
  ASSUME VmmIInv, Running, UNCHANGED <<roots, current_pml4, cr3, loading>>,
         NEW u, used \subseteq u, NEW lv, NEW uf, Tree(mem, u, Range(roots), lv, uf),
         NEW v \in Pages \ {HhdmPage}, NEW user, UserFlag(user, v), NEW frame,
         KernelReady(current_pml4, mem, v, Range(roots)),
         (frame \in u /\ lv[frame] = LEVELS + 1) \/ (frame = Device /\ v \in KernelPages),
         Store(Mapped(current_pml4, mem, u, v, frame, user))
  PROVE  VmmIInv' /\ (WalksKept \/ PageSet(current_pml4, v, frame))
<1> DEFINE w == Mapped(current_pml4, mem, u, v, frame, user)
<1>1. current_pml4 \in Range(roots)
  BY DEF VmmIInv, RootsOK
<1>2. MapsPage(w, current_pml4, mem, u, v, frame, Range(roots))
  BY <1>1, MappedOK
<1>3. mem' = w.mem /\ used' = w.used /\ halted' = w.failed
  BY DEF Store
<1> HIDE DEF w
<1>4. WalksKept \/ PageSet(current_pml4, v, frame)
  BY <1>2, <1>3 DEF MapsPage, WalksKept, PageSet
<1>5. halted' \in BOOLEAN /\ used \subseteq used' /\ TreeThere(mem', used', Range(roots))
  BY <1>2, <1>3 DEF MapsPage, TreeThere
<1>6. VmmIInv'
  BY <1>4, <1>5, KeepsState
<1> QED
  BY <1>4, <1>6

\* elf_load maps a page.
LEMMA SpaceLoadPageOK ==
  ASSUME ImagesInUserHalf, VmmIInv, SpaceLoadPage
  PROVE  /\ VmmIInv' /\ UNCHANGED roots /\ current_pml4 \in Range(roots)
         /\ WalksKept \/ \E v \in UserPages, f \in PhysFrames \ used : PageSet(current_pml4, v, f)
<1>1. /\ Running /\ loading /\ ~Exhausted(used)
      /\ UNCHANGED <<current_pml4, cr3, roots, loading>>
  BY DEF SpaceLoadPage
<1>2. PICK v \in UserPages : Store(Mapped(current_pml4, mem, Taken(used), v, NextFrame(used), TRUE))
  BY DEF SpaceLoadPage, ImagesInUserHalf
<1>3. PICK lv, uf : Tree(mem, used, Range(roots), lv, uf)
  BY DEF VmmIInv, TreeThere
<1>4. used \subseteq PhysFrames /\ lv \in [PhysFrames -> 1 .. LEVELS + 1]
  BY <1>3 DEF Tree, TreeTypes
<1> DEFINE f == NextFrame(used)
           l2 == [lv EXCEPT ![f] = LEVELS + 1]
<1>5. f \in PhysFrames \ used /\ Taken(used) = used \cup {f}
  BY <1>1, <1>4, NextFrameOK
<1>6. l2[f] = LEVELS + 1
  BY <1>4, <1>5
<1>7. Tree(mem, Taken(used), Range(roots), l2, uf)
  BY <1>3, <1>5, AddData
<1>8. v \in Pages \ {HhdmPage} /\ v \notin KernelPages
  BY VmmAssumption, FrameNumbers DEF KernelPages
<1>9. UserFlag(TRUE, v) /\ KernelReady(current_pml4, mem, v, Range(roots))
  BY <1>8 DEF UserFlag, KernelReady
<1>10. f \in Taken(used) /\ used \subseteq Taken(used)
  BY <1>5
<1>11. Store(Mapped(current_pml4, mem, Taken(used), v, f, TRUE))
  BY <1>2
<1> HIDE DEF f, l2
<1>12. VmmIInv' /\ (WalksKept \/ PageSet(current_pml4, v, f))
  BY <1>1, <1>6, <1>7, <1>8, <1>9, <1>10, <1>11, StoreOK
<1>13. current_pml4 \in Range(roots)
  BY <1>1 DEF VmmIInv, RootsOK
<1> QED
  BY <1>1, <1>5, <1>12, <1>13

\* A kernel page may be mapped where all spaces see it.
LEMMA SharedReady ==
  ASSUME VmmIInv, Running, ~loading, NEW v \in KernelPages, Shared(v)
  PROVE  KernelReady(current_pml4, mem, v, Range(roots)) /\ current_pml4 \in Range(roots)
<1>1. roots \in Seq(used) /\ current_pml4 = Kernel /\ current_pml4 \in Range(roots)
  BY DEF VmmIInv, VmmTypes, RootsOK
<1>2. Len(roots) = 1 => Range(roots) = {Kernel}
  BY <1>1, RootFacts
<1>3. Present(mem[Kernel][v[1]]) => mem[Kernel][v[1]] # Absent
  BY FrameNumbers DEF Present
<1> QED
  BY <1>1, <1>2, <1>3 DEF KernelReady, Shared

\* The heap grows by a page.
LEMMA GrowHeapOK ==
  ASSUME VmmIInv, GrowHeap
  PROVE  /\ VmmIInv' /\ UNCHANGED roots /\ current_pml4 \in Range(roots)
         /\ WalksKept \/ \E v \in KernelPages, f \in PhysFrames \ used : PageSet(current_pml4, v, f)
<1>1. /\ Running /\ ~loading /\ ~Exhausted(used)
      /\ UNCHANGED <<current_pml4, cr3, roots, loading>>
  BY DEF GrowHeap
<1>2. PICK v \in KernelPages \ {HhdmPage} :
        Shared(v) /\ Store(Mapped(current_pml4, mem, Taken(used), v, NextFrame(used), FALSE))
  BY DEF GrowHeap
<1>3. PICK lv, uf : Tree(mem, used, Range(roots), lv, uf)
  BY DEF VmmIInv, TreeThere
<1>4. used \subseteq PhysFrames /\ lv \in [PhysFrames -> 1 .. LEVELS + 1]
  BY <1>3 DEF Tree, TreeTypes
<1> DEFINE f == NextFrame(used)
           l2 == [lv EXCEPT ![f] = LEVELS + 1]
<1>5. f \in PhysFrames \ used /\ Taken(used) = used \cup {f}
  BY <1>1, <1>4, NextFrameOK
<1>6. l2[f] = LEVELS + 1
  BY <1>4, <1>5
<1>7. Tree(mem, Taken(used), Range(roots), l2, uf)
  BY <1>3, <1>5, AddData
<1>8. v \in Pages \ {HhdmPage} /\ v \notin UserPages
  BY FrameNumbers DEF KernelPages
<1>9. UserFlag(FALSE, v)
  BY <1>8 DEF UserFlag
<1>9a. KernelReady(current_pml4, mem, v, Range(roots)) /\ current_pml4 \in Range(roots)
  BY <1>1, <1>2, SharedReady
<1>10. f \in Taken(used) /\ used \subseteq Taken(used)
  BY <1>5
<1>11. Store(Mapped(current_pml4, mem, Taken(used), v, f, FALSE))
  BY <1>2
<1> HIDE DEF f, l2
<1>12. VmmIInv' /\ (WalksKept \/ PageSet(current_pml4, v, f))
  BY <1>1, <1>6, <1>7, <1>8, <1>9, <1>9a, <1>10, <1>11, StoreOK
<1> QED
  BY <1>1, <1>5, <1>9a, <1>12

\* The registers of a device are mapped.
LEMMA MapDeviceOK ==
  ASSUME VmmIInv, MapDevice
  PROVE  /\ VmmIInv' /\ UNCHANGED roots /\ current_pml4 \in Range(roots)
         /\ WalksKept \/ \E v \in KernelPages : PageSet(current_pml4, v, Device)
<1>1. /\ Running /\ ~loading
      /\ UNCHANGED <<current_pml4, cr3, roots, loading>>
  BY DEF MapDevice
<1>2. PICK v \in KernelPages \ {HhdmPage} :
        Shared(v) /\ Store(Mapped(current_pml4, mem, used, v, Device, FALSE))
  BY DEF MapDevice
<1>3. PICK lv, uf : Tree(mem, used, Range(roots), lv, uf)
  BY DEF VmmIInv, TreeThere
<1>8. v \in Pages \ {HhdmPage} /\ v \notin UserPages
  BY FrameNumbers DEF KernelPages
<1>9. UserFlag(FALSE, v)
  BY <1>8 DEF UserFlag
<1>9a. KernelReady(current_pml4, mem, v, Range(roots)) /\ current_pml4 \in Range(roots)
  BY <1>1, <1>2, SharedReady
<1>12. VmmIInv' /\ (WalksKept \/ PageSet(current_pml4, v, Device))
  BY <1>1, <1>2, <1>3, <1>8, <1>9, <1>9a, StoreOK
<1> QED
  BY <1>1, <1>9a, <1>12

\* vmm_unmap_page.
LEMMA UnmapOK ==
  ASSUME VmmIInv, vmm_unmap_page
  PROVE  /\ VmmIInv' /\ UNCHANGED roots /\ current_pml4 \in Range(roots)
         /\ \E v \in Pages : PageSet(current_pml4, v, NoFrame)
<1>1. Running /\ UNCHANGED <<used, current_pml4, cr3, roots, loading, halted>>
  BY DEF vmm_unmap_page
<1>2. PICK v \in Pages \ {HhdmPage} :
        /\ LastTable(current_pml4, mem, v) # NoFrame
        /\ mem' = [mem EXCEPT ![LastTable(current_pml4, mem, v)][v[LEVELS]] = Absent]
  BY DEF vmm_unmap_page
<1>3. PICK lv, uf : Tree(mem, used, Range(roots), lv, uf)
  BY DEF VmmIInv, TreeThere
<1>4. current_pml4 \in Range(roots) /\ halted \in BOOLEAN
  BY <1>1 DEF VmmIInv, RootsOK, VmmTypes
<1> DEFINE t == Path(current_pml4, mem, v)[LEVELS]
<1>5. t # NoFrame /\ mem' = Put(mem, t, v[LEVELS], Absent)
  BY <1>2 DEF LastTable, Put
<1>6. LEVELS \in 1 .. LEVELS /\ v[LEVELS] \in Idx /\ Absent \in Entries /\ Absent.frame = NoFrame
  BY FrameNumbers
<1>7. t \in used /\ lv[t] = LEVELS
  BY <1>3, <1>4, <1>5, <1>6, PathLevels
<1>8. \A s \in Range(roots), x \in Pages :
        (Path(s, mem, x)[LEVELS] = t /\ x[LEVELS] = v[LEVELS])
          <=> (x = v /\ (s = current_pml4 \/ v \in KernelPages))
  BY <1>3, <1>4, <1>5, LeafOf
<1> HIDE DEF t
<1>9. EntryOK(Absent, t, v[LEVELS], used, lv, uf)
  BY DEF EntryOK
<1>10. /\ Tree(mem', used, Range(roots), lv, uf)
       /\ \A s \in Range(roots), x \in Pages :
            Walk(s, mem', x)
              = IF Path(s, mem, x)[LEVELS] = t /\ x[LEVELS] = v[LEVELS] THEN Absent.frame
                               ELSE Walk(s, mem, x)
  BY <1>3, <1>5, <1>6, <1>7, <1>9, SetLeaf
<1>11. PageSet(current_pml4, v, NoFrame)
  BY <1>6, <1>8, <1>10 DEF PageSet
<1>12. VmmIInv'
  <2>1. TreeThere(mem', used', Range(roots)) /\ halted' \in BOOLEAN /\ used \subseteq used'
    BY <1>1, <1>4, <1>10 DEF TreeThere
  <2> QED
    BY <1>1, <1>11, <2>1, KeepsState
<1> QED
  BY <1>1, <1>4, <1>11, <1>12

\* The steps that touch no table.
LEMMA RootStepOK ==
  ASSUME VmmIInv, SpaceLoadBegin \/ SpaceLoadEnd \/ task_switch \/ UNCHANGED vmmVars
  PROVE  VmmIInv' /\ UNCHANGED roots /\ WalksKept
<1>1. VmmTypes /\ RootsOK /\ TreeThere(mem, used, Range(roots))
  BY DEF VmmIInv
<1>2. UNCHANGED <<mem, used, roots, halted>>
  BY DEF SpaceLoadBegin, SpaceLoadEnd, task_switch, vmmVars
<1>3. roots \in Seq(used)
  BY <1>1 DEF VmmTypes
<1>4. /\ Range(roots) \subseteq used /\ DOMAIN roots = 1 .. Len(roots) /\ Len(roots) \in Nat
      /\ \A k \in DOMAIN roots : roots[k] \in Range(roots)
      /\ roots # <<>> => Kernel \in Range(roots)
  BY <1>3, RootFacts
<1>5. \/ current_pml4' \in Range(roots) /\ loading' = TRUE /\ cr3' = cr3 /\ Running
      \/ current_pml4' = Kernel /\ loading' = FALSE /\ cr3' = cr3 /\ Running
      \/ cr3' \in Range(roots) /\ UNCHANGED <<current_pml4, loading>> /\ Running
      \/ UNCHANGED <<current_pml4, loading, cr3>>
  <2>1. CASE SpaceLoadBegin
    <3>1. PICK k \in 2 .. Len(roots) : current_pml4' = roots[k]
      BY <2>1 DEF SpaceLoadBegin
    <3>2. k \in DOMAIN roots
      BY <1>4
    <3> QED
      BY <1>4, <2>1, <3>1, <3>2 DEF SpaceLoadBegin
  <2>2. CASE SpaceLoadEnd
    BY <2>2 DEF SpaceLoadEnd
  <2>3. CASE task_switch
    BY <1>4, <2>3 DEF task_switch
  <2>4. CASE UNCHANGED vmmVars
    BY <2>4 DEF vmmVars
  <2> QED
    BY <2>1, <2>2, <2>3, <2>4
<1>6. Running => roots # <<>>
  BY DEF Running
<1>7. VmmTypes'
  BY <1>1, <1>2, <1>4, <1>5, <1>6 DEF VmmTypes
<1>8. Running' = Running /\ Kernel' = Kernel
  BY <1>2 DEF Running, Kernel
<1>9. RootsOK'
  BY <1>1, <1>2, <1>4, <1>5, <1>6, <1>8 DEF RootsOK
<1>10. TreeThere(mem, used, Range(roots))'
  BY <1>1, <1>2
<1> QED
  BY <1>2, <1>7, <1>9, <1>10 DEF VmmIInv, WalksKept

\* vmm_init: the kernel's own space shows the direct map and nothing else.
LEMMA VmmInitStepOK ==
  ASSUME VmmIInv, vmm_init
  PROVE  /\ VmmIInv' /\ roots = <<>>
         /\ \/ roots' = <<>>
            \/ \E f \in PhysFrames :
                 /\ roots' = <<f>>
                 /\ \A x \in Pages : Walk(f, mem', x) = IF x = HhdmPage THEN Device ELSE NoFrame
<1> DEFINE f == NextFrame(used)
           m == [mem EXCEPT ![f] = Zeroed]
           u == Taken(used)
           w == Mapped(f, m, u, HhdmPage, Device, FALSE)
<1>1. /\ roots = <<>> /\ ~halted /\ Store(w) /\ current_pml4' = f /\ loading' = loading
      /\ IF w.failed THEN UNCHANGED <<cr3, roots>> ELSE cr3' = f /\ roots' = <<f>>
  BY DEF vmm_init
<1>2. VmmTypes /\ TreeThere(mem, used, Range(roots))
  BY DEF VmmIInv
<1>3. used = {} /\ Range(roots) = {}
  BY <1>1, <1>2 DEF VmmTypes, Range
<1>4. PICK lv, uf : Tree(mem, used, {}, lv, uf)
  BY <1>2, <1>3 DEF TreeThere
<1>5. mem \in Mem /\ lv \in [PhysFrames -> 1 .. LEVELS + 1]
  BY <1>4 DEF Tree, TreeTypes
<1>6. f \in PhysFrames \ used /\ u = used \cup {f}
  <2>1. ~Exhausted(used)
    BY <1>3, VmmAssumption DEF Exhausted, PhysFrames
  <2> QED
    BY <1>3, <2>1, NextFrameOK
<1> HIDE DEF f, u
<1>7. Tree(m, u, {f}, [lv EXCEPT ![f] = 1], uf)
  <2>1. Tree(m, used \cup {f}, {} \cup {f}, [lv EXCEPT ![f] = 1], uf)
    <3>1. \A i \in UserIdx : Zeroed[i] = Absent
      BY FrameNumbers DEF Idx
    <3>2. \A i \in KernelIdx : Zeroed[i] = Absent
      BY FrameNumbers DEF Idx
    <3>3. Zeroed \in [Idx -> Entries]
      BY FrameNumbers
    <3> QED
      BY <1>4, <1>6, <3>1, <3>2, <3>3, AddRoot
  <2>2. {} \cup {f} = {f}
    OBVIOUS
  <2> QED
    BY <1>6, <2>1, <2>2
<1>8. m[f] = Zeroed
  BY <1>5, <1>6 DEF Mem
<1> HIDE DEF m
<1>9. HhdmPage \in KernelPages /\ HhdmPage \in Pages /\ HhdmPage \notin UserPages
  BY VmmAssumption, FrameNumbers DEF KernelPages
<1>10. UserFlag(FALSE, HhdmPage) /\ KernelReady(f, m, HhdmPage, {f})
  BY <1>9 DEF UserFlag, KernelReady
<1>11. MapsPage(w, f, m, u, HhdmPage, Device, {f})
  BY <1>7, <1>9, <1>10, MappedOK
<1> HIDE DEF w
<1>12. mem' = w.mem /\ used' = w.used /\ halted' = w.failed
  BY <1>1 DEF Store
<1>13. /\ halted' \in BOOLEAN /\ f \in used' /\ TreeThere(mem', used', {f})
       /\ ~halted' => \A x \in Pages : Walk(f, mem', x)
            = IF x = HhdmPage THEN Device ELSE Walk(f, m, x)
  BY <1>6, <1>9, <1>11, <1>12 DEF MapsPage, TreeThere
<1>14. \A x \in Pages : Walk(f, m, x) = NoFrame
  <2>1. f # NoFrame
    BY <1>6, FrameNumbers
  <2>2. \A x \in Pages : m[f][x[1]].frame = NoFrame
    BY <1>8, FrameNumbers
  <2> QED
    BY <2>1, <2>2, BlankRoot
<1>15. CASE w.failed
  <2>1. roots' = <<>> /\ cr3' = cr3 /\ Range(roots') = {} /\ halted'
    BY <1>1, <1>12, <1>15 DEF Range
  <2>2. cr3 = NoFrame
    BY <1>2, <1>3 DEF VmmTypes
  <2>3. VmmTypes'
    <3>1. roots' \in Seq(used') /\ Len(roots') = 0 /\ 0 <= MAX_TASKS + 1
      BY <2>1, VmmAssumption
    <3> QED
      BY <1>1, <1>2, <1>13, <2>1, <2>2, <3>1 DEF VmmTypes
  <2>4. TreeThere(mem', used', Range(roots'))
    BY <1>13, <2>1, FewerRoots
  <2>5. RootsOK'
    BY <2>1 DEF RootsOK, Running
  <2> QED
    BY <1>1, <2>1, <2>3, <2>4, <2>5 DEF VmmIInv
<1>16. CASE ~w.failed
  <2>1. roots' = <<f>> /\ cr3' = f /\ ~halted'
    BY <1>1, <1>12, <1>16
  <2>2. Range(roots') = {f} /\ Kernel' = f /\ Len(roots') = 1 /\ roots' # <<>>
    BY <2>1 DEF Range, Kernel
  <2>3. VmmTypes'
    <3>1. roots' \in Seq(used') /\ 1 <= MAX_TASKS + 1
      BY <1>13, <2>1, VmmAssumption
    <3> QED
      BY <1>1, <1>2, <1>13, <2>1, <2>2, <3>1 DEF VmmTypes
  <2>4. \A x \in Pages : Walk(f, mem', x) = IF x = HhdmPage THEN Device ELSE NoFrame
    BY <1>13, <1>14, <2>1
  <2>5. RootsOK'
    BY <1>1, <1>9, <2>1, <2>2, <2>4 DEF RootsOK
  <2>6. TreeThere(mem', used', Range(roots'))
    BY <1>13, <2>2
  <2> QED
    BY <1>1, <1>6, <2>1, <2>3, <2>4, <2>5, <2>6 DEF VmmIInv
<1>17. w.failed \in BOOLEAN
  BY <1>12, <1>13
<1> QED
  BY <1>15, <1>16, <1>17

\* A new space r: the kernel's pages, and frame f at the stack page.
SpaceMade(r, f) ==
  /\ roots' = Append(roots, r) /\ r \in PhysFrames \ used
  /\ \A s \in Range(roots), x \in Pages : Walk(s, mem', x) = Walk(s, mem, x)
  /\ \A x \in Pages : Walk(r, mem', x) = IF x \in KernelPages THEN Walk(Kernel, mem, x)
                                         ELSE IF x = TASK_USER_STACK_PAGE THEN f ELSE NoFrame

\* The spaces with one more.
LEMMA MoreRoots ==
  ASSUME NEW u, roots \in Seq(u), NEW u2, u \subseteq u2, NEW r \in u2
  PROVE  /\ Append(roots, r) \in Seq(u2) /\ Len(Append(roots, r)) = Len(roots) + 1
         /\ Append(roots, r) # <<>> /\ Range(Append(roots, r)) = Range(roots) \cup {r}
         /\ roots # <<>> => Append(roots, r)[1] = Kernel
<1> DEFINE q == Append(roots, r)
<1>1. roots \in Seq(u2) /\ Len(roots) \in Nat
  OBVIOUS
<1>2. /\ q \in Seq(u2) /\ Len(q) = Len(roots) + 1
      /\ \A i \in 1 .. Len(roots) : q[i] = roots[i]
      /\ q[Len(roots) + 1] = r
  BY <1>1
<1>3. DOMAIN roots = 1 .. Len(roots) /\ DOMAIN q = 1 .. Len(roots) + 1
  BY <1>1, <1>2
<1> HIDE DEF q
<1>4. Range(q) = Range(roots) \cup {r}
  <2>1. \A i \in 1 .. Len(roots) + 1 : i \in 1 .. Len(roots) \/ i = Len(roots) + 1
    BY <1>1
  <2>2. \A i \in 1 .. Len(roots) : i \in 1 .. Len(roots) + 1
    BY <1>1
  <2>3. Len(roots) + 1 \in 1 .. Len(roots) + 1
    BY <1>1
  <2> QED
    BY <1>2, <1>3, <2>1, <2>2, <2>3 DEF Range
<1>5. q # <<>>
  BY <1>1, <1>2
<1>6. roots # <<>> => 1 \in 1 .. Len(roots)
  BY <1>1
<1> QED
  BY <1>2, <1>4, <1>5, <1>6 DEF q, Kernel

\* task_create_user, when there is no frame for the stack.
LEMMA SpaceFailsOK ==
  ASSUME VmmIInv, CreateSpace, Exhausted(Taken(used))
  PROVE  VmmIInv' /\ UNCHANGED roots /\ WalksKept
<1> DEFINE f == NextFrame(used)
           c == NewRoot(current_pml4)
<1>1. /\ Running /\ ~loading /\ ~Exhausted(used) /\ mem' = [mem EXCEPT ![f] = c]
      /\ UNCHANGED <<used, current_pml4, roots, halted, cr3, loading>>
  BY DEF CreateSpace
<1>2. PICK lv, uf : Tree(mem, used, Range(roots), lv, uf)
  BY DEF VmmIInv, TreeThere
<1>3. mem \in Mem /\ used \subseteq PhysFrames /\ Range(roots) \subseteq PhysFrames
  BY <1>2 DEF Tree, TreeTypes
<1>4. f \in PhysFrames \ used
  BY <1>1, <1>3, NextFrameOK
<1>5. c \in [Idx -> Entries]
  <2>1. current_pml4 \in PhysFrames
    BY <1>1, <1>3 DEF VmmIInv, RootsOK
  <2> QED
    BY <1>3, <2>1, FrameNumbers DEF NewRoot, Mem
<1> HIDE DEF f, c
<1>6. Tree(mem', used, Range(roots), lv, uf) /\ WalksKept
  <2> DEFINE m2 == [mem EXCEPT ![f] = c]
  <2>1. Tree(m2, used, Range(roots), lv, uf)
    BY <1>2, <1>4, <1>5, WriteFree
  <2>2. \A s \in Range(roots), x \in Pages : Walk(s, m2, x) = Walk(s, mem, x)
    BY <1>2, <1>4, <1>5, WriteFree
  <2>3. mem' = m2
    BY <1>1
  <2> HIDE DEF m2
  <2> QED
    BY <2>1, <2>2, <2>3 DEF WalksKept
<1>7. halted' \in BOOLEAN /\ used \subseteq used' /\ TreeThere(mem', used', Range(roots))
  BY <1>1, <1>6 DEF TreeThere, VmmIInv, VmmTypes
<1>8. VmmIInv'
  BY <1>1, <1>6, <1>7, KeepsState
<1> QED
  BY <1>1, <1>6, <1>8

\* task_create_user, when there is one.
LEMMA SpaceGoesOnOK ==
  ASSUME VmmIInv, CreateSpace, ~Exhausted(Taken(used))
  PROVE  /\ VmmIInv' /\ roots # <<>>
         /\ \E r : \E f \in {NoFrame} \cup (PhysFrames \ used) : SpaceMade(r, f)
<1> DEFINE r == NextFrame(used)
           c == NewRoot(current_pml4)
           m == [mem EXCEPT ![r] = c]
           u == Taken(used)
           f == NextFrame(u)
           w == Mapped(r, m, Taken(u), TASK_USER_STACK_PAGE, f, TRUE)
           R == Range(roots)
           R2 == R \cup {r}
<1>1. /\ Running /\ ~loading /\ Len(roots) <= MAX_TASKS /\ ~Exhausted(used) /\ Store(w)
      /\ roots' = Append(roots, r) /\ UNCHANGED <<cr3, loading>>
      /\ current_pml4' = IF w.failed THEN r ELSE current_pml4
  BY DEF CreateSpace
<1>2. PICK lv, uf : Tree(mem, used, R, lv, uf)
  BY DEF VmmIInv, TreeThere
<1>3. /\ mem \in Mem /\ used \subseteq PhysFrames /\ R \subseteq used /\ KernelHalf(mem, R)
      /\ lv \in [PhysFrames -> 1 .. LEVELS + 1]
  BY <1>2 DEF Tree, TreeTypes
<1>4. r \in PhysFrames \ used /\ u = used \cup {r} /\ u \subseteq PhysFrames
  BY <1>1, <1>3, NextFrameOK
<1>5. f \in PhysFrames \ u /\ Taken(u) = u \cup {f}
  BY <1>4, NextFrameOK
<1>6. /\ current_pml4 = Kernel /\ Kernel \in R /\ cr3 \in R /\ roots # <<>>
      /\ Walk(Kernel, mem, HhdmPage) = Device
  BY <1>1 DEF VmmIInv, RootsOK, Running
<1>7. /\ c \in [Idx -> Entries] /\ \A i \in UserIdx : c[i] = Absent
      /\ \A i \in KernelIdx : c[i] = mem[Kernel][i]
  <2>1. Kernel \in PhysFrames
    BY <1>3, <1>6
  <2>2. \A i \in Idx : c[i] = IF i \in UserIdx THEN Absent ELSE mem[Kernel][i]
    BY <1>6 DEF NewRoot
  <2>3. c \in [Idx -> Entries]
    BY <1>3, <1>6, <2>1, FrameNumbers DEF NewRoot, Mem
  <2>4. \A i \in UserIdx : i \in Idx
    BY DEF Idx
  <2>5. \A i \in KernelIdx : i \in Idx /\ i \notin UserIdx
    BY VmmAssumption DEF Idx
  <2> HIDE DEF c
  <2> QED
    BY <2>2, <2>3, <2>4, <2>5
<1> HIDE DEF r, c, u, f, w, R, R2
<1> DEFINE l1 == [lv EXCEPT ![r] = 1]
           l2 == [l1 EXCEPT ![f] = LEVELS + 1]
<1>8. \A i \in KernelIdx, s \in R : c[i] = mem[s][i]
  BY <1>3, <1>6, <1>7 DEF KernelHalf
<1>9. Tree(m, u, R2, l1, uf)
  <2>1. R = {} => \A i \in KernelIdx : c[i] = Absent
    BY <1>6
  <2> QED
    BY <1>2, <1>4, <1>7, <1>8, <2>1, AddRoot DEF R2
<1>10. /\ m[r] = c /\ \A s \in R, x \in Pages : Walk(s, m, x) = Walk(s, mem, x)
  <2>1. \A s \in R, x \in Pages : Walk(s, m, x) = Walk(s, mem, x)
    BY <1>2, <1>4, <1>7, WriteFree
  <2>2. m[r] = c
    BY <1>3, <1>4 DEF Mem
  <2> QED
    BY <2>1, <2>2
<1> HIDE DEF m, l1
<1>11. Tree(m, Taken(u), R2, l2, uf)
  BY <1>5, <1>9, AddData
<1>12. l2[f] = LEVELS + 1 /\ f \in Taken(u)
  BY <1>5, <1>9 DEF Tree, TreeTypes
<1> HIDE DEF l2
<1>13. TASK_USER_STACK_PAGE \in UserPages /\ TASK_USER_STACK_PAGE \in Pages
       /\ TASK_USER_STACK_PAGE \notin KernelPages
  BY VmmAssumption, FrameNumbers DEF KernelPages
<1>14. UserFlag(TRUE, TASK_USER_STACK_PAGE) /\ KernelReady(r, m, TASK_USER_STACK_PAGE, R2)
  BY <1>13 DEF UserFlag, KernelReady
<1>15. MapsPage(w, r, m, Taken(u), TASK_USER_STACK_PAGE, f, R2)
  <2>1. r \in R2
    BY DEF R2
  <2> QED
    BY <1>11, <1>12, <1>13, <1>14, <2>1, MappedOK DEF w
<1>16. mem' = w.mem /\ used' = w.used /\ halted' = w.failed
  BY <1>1 DEF Store
<1>17. /\ halted' \in BOOLEAN /\ Taken(u) \subseteq used' /\ TreeThere(mem', used', R2)
       /\ halted' => \A s \in R2, x \in Pages : Walk(s, mem', x) = Walk(s, m, x)
       /\ ~halted' => \A s \in R2, x \in Pages :
            Walk(s, mem', x) = IF x = TASK_USER_STACK_PAGE /\ s = r THEN f ELSE Walk(s, m, x)
  BY <1>13, <1>15, <1>16 DEF MapsPage, TreeThere
<1>18. r \in used' /\ used \subseteq used'
  BY <1>4, <1>5, <1>17
<1>19. \A x \in UserPages : Walk(r, m, x) = NoFrame
  <2>1. r # NoFrame
    BY <1>4, FrameNumbers
  <2>2. \A x \in UserPages : x \in Pages /\ m[r][x[1]].frame = NoFrame
    BY <1>7, <1>10, FrameNumbers
  <2> QED
    BY <2>1, <2>2, BlankRoot
<1>20. \A x \in KernelPages : Walk(r, m, x) = Walk(Kernel, mem, x)
  <2>1. KernelHalf(m, R2) /\ R2 \subseteq PhysFrames /\ r \in R2 /\ Kernel \in R2
    BY <1>6, <1>9 DEF Tree, TreeTypes, R2
  <2>2. \A x \in KernelPages : Walk(r, m, x) = Walk(Kernel, m, x)
    BY <2>1, KernelSame
  <2> QED
    BY <1>6, <1>10, <2>2, FrameNumbers
<1>21. \A s \in R, x \in Pages : Walk(s, mem', x) = Walk(s, mem, x)
  <2>1. \A s \in R : s # r /\ s \in R2
    BY <1>3, <1>4 DEF R2
  <2> QED
    BY <1>10, <1>17, <2>1
<1>22. \E g \in {NoFrame} \cup (PhysFrames \ used) :
         \A x \in Pages : Walk(r, mem', x) = IF x \in KernelPages THEN Walk(Kernel, mem, x)
                                         ELSE IF x = TASK_USER_STACK_PAGE THEN g ELSE NoFrame
  <2>1. r \in R2
    BY DEF R2
  <2>2. \A x \in Pages : x \in UserPages \/ x \in KernelPages
    BY DEF KernelPages
  <2>3. CASE halted'
    BY <1>13, <1>17, <1>19, <1>20, <2>1, <2>2, <2>3
  <2>4. CASE ~halted'
    <3>1. f \in PhysFrames \ used
      BY <1>4, <1>5
    <3>2. \A x \in Pages : Walk(r, mem', x) = IF x \in KernelPages THEN Walk(Kernel, mem, x)
                                         ELSE IF x = TASK_USER_STACK_PAGE THEN f ELSE NoFrame
      BY <1>13, <1>17, <1>19, <1>20, <2>1, <2>2, <2>4
    <3> QED
      BY <3>1, <3>2
  <2> QED
    BY <1>17, <2>3, <2>4
<1>23. \E g \in {NoFrame} \cup (PhysFrames \ used) : SpaceMade(r, g)
  BY <1>1, <1>4, <1>21, <1>22 DEF SpaceMade, R
<1>24. roots \in Seq(used) /\ Len(roots) \in Nat
  BY DEF VmmIInv, VmmTypes
<1>25. /\ roots' \in Seq(used') /\ Len(roots') = Len(roots) + 1 /\ roots' # <<>>
       /\ Range(roots') = R2 /\ Kernel' = Kernel
  BY <1>1, <1>6, <1>18, <1>24, MoreRoots DEF Kernel, R, R2
<1>26. VmmTypes'
  <2>1. Len(roots') <= MAX_TASKS + 1
    BY <1>1, <1>24, <1>25, VmmAssumption
  <2>2. current_pml4' \in used' /\ cr3' \in used'
    BY <1>1, <1>3, <1>6, <1>18
  <2>3. loading' \in BOOLEAN
    BY <1>1 DEF VmmIInv, VmmTypes
  <2> QED
    BY <1>17, <1>25, <2>1, <2>2, <2>3 DEF VmmTypes
<1>27. RootsOK'
  <2> SUFFICES ASSUME Running' PROVE RootsOK'
    BY DEF RootsOK
  <2>1. ~halted' /\ current_pml4' = current_pml4
    BY <1>1, <1>16 DEF Running
  <2>2. current_pml4' \in R2 /\ cr3' \in R2 /\ current_pml4' = Kernel'
    BY <1>1, <1>6, <1>25, <2>1 DEF R2
  <2>3. Walk(Kernel, mem', HhdmPage) = Device
    BY <1>6, <1>21, VmmAssumption, FrameNumbers
  <2> QED
    BY <1>25, <2>2, <2>3 DEF RootsOK
<1>28. VmmIInv'
  BY <1>17, <1>25, <1>26, <1>27 DEF VmmIInv
<1> QED
  BY <1>6, <1>23, <1>28

\* Every step keeps the invariant.
LEMMA VmmStep == ASSUME ImagesInUserHalf PROVE VmmIInv /\ [VmmNext]_vmmVars => VmmIInv'
<1> SUFFICES ASSUME VmmIInv, [VmmNext]_vmmVars PROVE VmmIInv'
  OBVIOUS
<1>1. CASE vmm_init
  BY <1>1, VmmInitStepOK
<1>2. CASE CreateSpace
  BY <1>2, SpaceFailsOK, SpaceGoesOnOK
<1>3. CASE SpaceLoadPage
  BY <1>3, SpaceLoadPageOK
<1>4. CASE GrowHeap
  BY <1>4, GrowHeapOK
<1>5. CASE MapDevice
  BY <1>5, MapDeviceOK
<1>6. CASE vmm_unmap_page
  BY <1>6, UnmapOK
<1>7. CASE SpaceLoadBegin \/ SpaceLoadEnd \/ task_switch \/ UNCHANGED vmmVars
  BY <1>7, RootStepOK
<1> QED
  BY <1>1, <1>2, <1>3, <1>4, <1>5, <1>6, <1>7 DEF VmmNext

\* vmm_map_page, vmm_unmap_page, task_create_user and elf_load keep page tables
\* out of the sight of ring 3, and translation right, for every number of levels,
\* frames and tasks, when images keep to the user half.
THEOREM VmmSafe == ImagesInUserHalf => (VmmSpec => []VmmInv)
<1> SUFFICES ASSUME ImagesInUserHalf PROVE VmmSpec => []VmmInv
  OBVIOUS
<1>1. VmmInit => VmmIInv
  BY VmmInitOK
<1>2. VmmIInv /\ [VmmNext]_vmmVars => VmmIInv'
  BY VmmStep
<1>3. VmmIInv => VmmInv
  BY VmmIInvImplies
<1> QED
  BY <1>1, <1>2, <1>3, PTL DEF VmmSpec

----------------------------------------------------------------------------
(* The tables stand for maps.                                               *)

\* What a map says of page x when the walk finds frame f there, and the map of space r.
Cell(f, x) == IF f = NoFrame THEN Absent ELSE [frame |-> f, user |-> x \in UserPages]
CellsOf(r, m) == [x \in Pages |-> Cell(Walk(r, m, x), x)]

\* The cases of Cell.
LEMMA CellFacts ==
  ASSUME NEW f, NEW x
  PROVE  /\ Cell(NoFrame, x) = Absent
         /\ f # NoFrame /\ x \in UserPages => Cell(f, x) = [frame |-> f, user |-> TRUE]
         /\ f # NoFrame /\ x \notin UserPages => Cell(f, x) = [frame |-> f, user |-> FALSE]
         /\ Cell(f, x).frame = f
<1>1. (x \in UserPages) \in BOOLEAN
  OBVIOUS
<1> QED
  BY <1>1, FrameNumbers DEF Cell

\* Ring 3 reaches the user pages that are mapped, and no others.
LEMMA ViewCell ==
  ASSUME NEW m, NEW u, NEW R, TreeThere(m, u, R), NEW r \in R, NEW x \in Pages
  PROVE  Walk(r, m, x) # NoFrame => (UserIn(r, m, x) <=> x \in UserPages)
<1>1. PICK lv, uf : Tree(m, u, R, lv, uf)
  BY DEF TreeThere
<1>2. SUFFICES ASSUME Walk(r, m, x) # NoFrame PROVE UserIn(r, m, x) <=> x \in UserPages
  OBVIOUS
<1>3. \A n \in 1 .. LEVELS : /\ Path(r, m, x)[n] # NoFrame
                             /\ m[Path(r, m, x)[n]][x[n]].user <=> x \in UserPages
  BY <1>1, <1>2, FullWalk
<1>4. 1 \in 1 .. LEVELS
  BY FrameNumbers
<1> QED
  BY <1>3, <1>4 DEF UserIn

\* The maps are what the walks find.
LEMMA SpaceMapIs ==
  VmmIInv => /\ DOMAIN SpaceMap = Range(roots)
             /\ SpaceMap = [s \in Range(roots) |-> CellsOf(s, mem)]
<1> SUFFICES ASSUME VmmIInv
             PROVE  /\ DOMAIN SpaceMap = Range(roots)
                    /\ SpaceMap = [s \in Range(roots) |-> CellsOf(s, mem)]
  OBVIOUS
<1>1. ASSUME NEW s \in Range(roots) PROVE View(s) = CellsOf(s, mem)
  <2>1. ASSUME NEW x \in Pages, Walk(s, mem, x) # NoFrame
        PROVE  [frame |-> Walk(s, mem, x), user |-> UserAt(s, x)]
                 = [frame |-> Walk(s, mem, x), user |-> x \in UserPages]
    <3>1. UserIn(s, mem, x) <=> x \in UserPages
      BY <2>1, ViewCell DEF VmmIInv
    <3>2. UserAt(s, x) <=> x \in UserPages
      BY <3>1, UserAtIs
    <3>3. UserAt(s, x) \in BOOLEAN
      BY Zenon DEF UserAt
    <3>4. UserAt(s, x) = (x \in UserPages)
      BY <3>2, <3>3
    <3> QED
      BY <3>4
  <2>2. \A x \in Pages : (LET f == Walk(s, mem, x) IN
            IF f = NoFrame THEN Absent ELSE [frame |-> f, user |-> UserAt(s, x)])
          = Cell(Walk(s, mem, x), x)
    BY <2>1 DEF Cell
  <2> QED
    BY <2>2, Zenon DEF View, CellsOf
<1> QED
  BY <1>1, Zenon DEF SpaceMap

\* The same after a step.
LEMMA SpaceMapNext ==
  (VmmIInv => /\ DOMAIN SpaceMap = Range(roots)
              /\ SpaceMap = [s \in Range(roots) |-> CellsOf(s, mem)])'
BY SpaceMapIs, PTL

\* A frame that ring 3 can reach is in use.
LEMMA ReachableUsed == VmmIInv => Maps!Reachable \subseteq used
<1> SUFFICES ASSUME VmmIInv, NEW f \in Maps!Reachable PROVE f \in used
  OBVIOUS
<1>1. PICK s \in DOMAIN SpaceMap :
        \E x \in Maps!Pages : SpaceMap[s][x] = [frame |-> f, user |-> TRUE]
  BY DEF Maps!Reachable, Maps!Live
<1>2. PICK x \in Maps!Pages : SpaceMap[s][x] = [frame |-> f, user |-> TRUE]
  BY <1>1
<1>3. x \in Pages
  BY <1>2 DEF Maps!Pages, UserPages, KernelPages
<1>4. s \in Range(roots) /\ SpaceMap[s] = CellsOf(s, mem)
  BY SpaceMapIs
<1>5. Cell(Walk(s, mem, x), x) = [frame |-> f, user |-> TRUE]
  BY <1>2, <1>3, <1>4 DEF CellsOf
<1>6. Walk(s, mem, x) = f
  BY <1>5, CellFacts
<1>7. f # NoFrame /\ x \in UserPages
  BY <1>5, <1>6, CellFacts, FrameNumbers
<1>8. PICK lv, uf : Tree(mem, used, Range(roots), lv, uf)
  BY DEF VmmIInv, TreeThere
<1> QED
  BY <1>3, <1>4, <1>6, <1>7, <1>8, FullWalk

\* A step of the maps, or none.
SpacesStep == Maps!Next \/ UNCHANGED SpaceMap

\* Nothing changes for any space.
LEMMA KeptStutters ==
  ASSUME VmmIInv, VmmIInv', UNCHANGED roots, WalksKept
  PROVE  UNCHANGED SpaceMap
<1>1. SpaceMap = [s \in Range(roots) |-> CellsOf(s, mem)]
  BY SpaceMapIs
<1>2. SpaceMap' = [s \in Range(roots') |-> CellsOf(s, mem')]
  BY SpaceMapNext
<1>3. \A s \in Range(roots) : CellsOf(s, mem') = CellsOf(s, mem)
  BY DEF WalksKept, CellsOf
<1> QED
  BY <1>1, <1>2, <1>3

\* One page of a map, set.
LEMMA CellSet ==
  ASSUME NEW g, NEW h, DOMAIN g = Pages, DOMAIN h = Pages, NEW c, NEW v \in Pages,
         g = [x \in Pages |-> g[x]], h = [x \in Pages |-> h[x]],
         \A x \in Pages : h[x] = IF x = v THEN c ELSE g[x]
  PROVE  h = [g EXCEPT ![v] = c]
<1> DEFINE k == [g EXCEPT ![v] = c]
<1>1. k = [x \in Pages |-> IF x = v THEN c ELSE g[x]]
  OBVIOUS
<1> QED
  BY <1>1

\* A page of one space, or a kernel page of all spaces, is given another frame.
LEMMA PageStep ==
  ASSUME VmmIInv, VmmIInv', UNCHANGED roots, NEW r \in Range(roots), NEW v \in Pages, NEW f,
         PageSet(r, v, f),
         f = NoFrame \/ f \in PhysFrames \ used \/ (f = Device /\ v \in KernelPages)
  PROVE  SpacesStep
<1> DEFINE R == Range(roots)
           M == SpaceMap
           N == SpaceMap'
           c == Cell(f, v)
<1>1. DOMAIN M = R /\ M = [s \in R |-> CellsOf(s, mem)]
  BY SpaceMapIs
<1>2. DOMAIN N = R /\ N = [s \in R |-> CellsOf(s, mem')]
  BY SpaceMapNext
<1>3. /\ \A s \in R : DOMAIN M[s] = Pages /\ M[s] = [x \in Pages |-> M[s][x]]
      /\ \A s \in R, x \in Pages : M[s][x] = Cell(Walk(s, mem, x), x)
  BY <1>1 DEF CellsOf
<1>4. /\ \A s \in R : DOMAIN N[s] = Pages /\ N[s] = [x \in Pages |-> N[s][x]]
      /\ \A s \in R, x \in Pages : N[s][x] = Cell(Walk(s, mem', x), x)
  BY <1>2 DEF CellsOf
<1>5. \A s \in R, x \in Pages :
        N[s][x] = IF x = v /\ (s = r \/ v \in KernelPages) THEN c ELSE M[s][x]
  <2> HIDE DEF M, N
  <2> QED
    BY <1>3, <1>4 DEF PageSet
<1>6. \A s \in R : v \in KernelPages => M[s][v] = M[r][v]
  <2>1. KernelHalf(mem, R) /\ R \subseteq PhysFrames
    BY DEF VmmIInv, TreeThere, Tree, TreeTypes
  <2> HIDE DEF M
  <2> QED
    BY <1>3, <2>1, KernelSame
<1>7. v \in UserPages \/ v \in KernelPages
  BY DEF KernelPages
<1>8. v \in UserPages => v \notin KernelPages
  BY DEF KernelPages
<1>9. c.frame = f /\ (f = NoFrame => c = Absent)
  BY CellFacts
<1>10. f # NoFrame => f \in (PhysFrames \cup {Device}) \ Maps!Reachable
  <2>1. Maps!Reachable \subseteq used /\ used \subseteq PhysFrames
    BY ReachableUsed DEF VmmIInv, TreeThere, Tree, TreeTypes
  <2> QED
    BY <2>1, FrameNumbers
<1>11. r \in R /\ N[r][v] = c
  BY <1>5
<1>12. v \in Maps!Pages /\ Maps!Live = R
  BY <1>1, <1>7 DEF Maps!Pages, Maps!Live
<1> HIDE DEF M, N, R
<1>13. v \in UserPages => N = [M EXCEPT ![r][v] = c]
  <2>1. SUFFICES ASSUME v \in UserPages PROVE N = [M EXCEPT ![r][v] = c]
    OBVIOUS
  <2>2. ASSUME NEW s \in R, s # r PROVE N[s] = M[s]
    <3>1. \A x \in Pages : N[s][x] = M[s][x]
      BY <1>5, <1>8, <2>1, <2>2
    <3>2. N[s] = [x \in Pages |-> N[s][x]] /\ M[s] = [x \in Pages |-> M[s][x]]
      BY <1>3, <1>4
    <3> QED
      BY <3>1, <3>2, Zenon
  <2>3. N[r] = [M[r] EXCEPT ![v] = c]
    <3>1. \A x \in Pages : N[r][x] = IF x = v THEN c ELSE M[r][x]
      BY <1>5, <1>11
    <3>2. DOMAIN M[r] = Pages /\ M[r] = [x \in Pages |-> M[r][x]]
      BY <1>3, <1>11
    <3>3. DOMAIN N[r] = Pages /\ N[r] = [x \in Pages |-> N[r][x]]
      BY <1>4, <1>11
    <3> HIDE DEF c
    <3> QED
      BY <3>1, <3>2, <3>3, CellSet
  <2> DEFINE h == [M[r] EXCEPT ![v] = c]
             K == [M EXCEPT ![r] = h]
  <2> HIDE DEF h
  <2>4. N[r] = h
    BY <2>3 DEF h
  <2>5. K = [s \in R |-> IF s = r THEN h ELSE M[s]]
    BY <1>1
  <2>6. N = [s \in R |-> N[s]]
    BY <1>2
  <2>7. N = K
    BY <1>11, <2>2, <2>4, <2>5, <2>6
  <2> QED
    BY <2>7 DEF h
<1>14. v \in KernelPages => N = [t \in R |-> [M[t] EXCEPT ![v] = c]]
  <2>1. SUFFICES ASSUME v \in KernelPages PROVE N = [t \in R |-> [M[t] EXCEPT ![v] = c]]
    OBVIOUS
  <2>2. ASSUME NEW s \in R PROVE N[s] = [M[s] EXCEPT ![v] = c]
    <3>1. \A x \in Pages : N[s][x] = IF x = v THEN c ELSE M[s][x]
      BY <1>5, <2>1
    <3>2. DOMAIN M[s] = Pages /\ M[s] = [x \in Pages |-> M[s][x]]
      BY <1>3
    <3>3. DOMAIN N[s] = Pages /\ N[s] = [x \in Pages |-> N[s][x]]
      BY <1>4
    <3> HIDE DEF c
    <3> QED
      BY <3>1, <3>2, <3>3, CellSet
  <2>3. N = [s \in R |-> N[s]]
    BY <1>2
  <2> QED
    BY <2>2, <2>3, Zenon
<1>15. CASE N[r][v] = M[r][v]
  <2>1. \A s \in R, x \in Pages : N[s][x] = M[s][x]
    BY <1>5, <1>6, <1>11, <1>15
  <2>2. \A s \in R : N[s] = M[s]
    BY <1>3, <1>4, <2>1
  <2>3. N = M
    BY <1>1, <1>2, <2>2
  <2> QED
    BY <2>3 DEF SpacesStep, M, N
<1>16. CASE N[r][v] # M[r][v]
  <2>1. CASE f = NoFrame
    <3>1. Maps!Unmap(r, v)
      <4>1. N = IF v \in UserPages THEN [M EXCEPT ![r][v] = Absent]
                ELSE [t \in Maps!Live |-> [M[t] EXCEPT ![v] = Absent]]
        BY <1>7, <1>9, <1>12, <1>13, <1>14, <2>1
      <4> QED
        BY <4>1 DEF Maps!Unmap, M, N
    <3> QED
      BY <1>11, <1>12, <1>16, <3>1 DEF SpacesStep, Maps!Next, M, N, R
  <2>2. CASE f # NoFrame /\ v \in UserPages
    <3>1. c = [frame |-> f, user |-> TRUE] /\ N[r][v].frame = f
      BY <1>9, <1>11, <2>2, CellFacts
    <3>2. Maps!MapUser(r, v)
      BY <1>10, <1>13, <2>2, <3>1 DEF Maps!MapUser, M, N
    <3> QED
      BY <1>11, <1>12, <1>16, <2>2, <3>2 DEF SpacesStep, Maps!Next, M, N, R
  <2>3. CASE f # NoFrame /\ v \in KernelPages
    <3>1. c = [frame |-> f, user |-> FALSE] /\ N[r][v].frame = f
      BY <1>8, <1>9, <1>11, <2>3, CellFacts
    <3>2. Maps!MapKernel(r, v)
      BY <1>10, <1>12, <1>14, <2>3, <3>1 DEF Maps!MapKernel, M, N
    <3> QED
      BY <1>11, <1>12, <1>16, <2>3, <3>2 DEF SpacesStep, Maps!Next, M, N, R
  <2> QED
    BY <1>7, <2>1, <2>2, <2>3
<1> QED
  BY <1>15, <1>16

\* vmm_init makes the kernel's own map.
LEMMA BootStep ==
  ASSUME VmmIInv, VmmIInv', roots = <<>>, NEW f \in PhysFrames, roots' = <<f>>,
         \A x \in Pages : Walk(f, mem', x) = IF x = HhdmPage THEN Device ELSE NoFrame
  PROVE  SpacesStep
<1> DEFINE M == SpaceMap
           N == SpaceMap'
<1>1. Range(roots) = {} /\ Range(roots') = {f}
  BY DEF Range
<1>2. DOMAIN M = {}
  BY <1>1, SpaceMapIs
<1>3. N = [s \in {f} |-> CellsOf(s, mem')]
  BY <1>1, SpaceMapNext
<1>4. CellsOf(f, mem') = BootMap
  <2>1. HhdmPage \notin UserPages /\ Device # NoFrame
    BY VmmAssumption, FrameNumbers DEF KernelPages
  <2>2. Cell(Device, HhdmPage) = [frame |-> Device, user |-> FALSE]
    BY <2>1, CellFacts
  <2>3. \A x \in Pages : Cell(NoFrame, x) = Absent
    BY CellFacts
  <2>4. \A x \in Pages : Cell(Walk(f, mem', x), x)
                           = IF x = HhdmPage THEN [frame |-> Device, user |-> FALSE] ELSE Absent
    BY <2>2, <2>3
  <2> QED
    BY <2>4, Zenon DEF CellsOf, BootMap
<1> HIDE DEF M, N
<1>5. N = [y \in DOMAIN M \cup {f} |-> IF y = f THEN BootMap ELSE M[y]]
  BY <1>2, <1>3, <1>4
<1>6. Maps!Boot(f)
  BY <1>2, <1>5 DEF Maps!Boot, Maps!With, Maps!Live, M, N
<1> QED
  BY <1>6 DEF SpacesStep, Maps!Next

\* task_create_user makes a map with the kernel's pages.
LEMMA CreateStep ==
  ASSUME VmmIInv, VmmIInv', roots # <<>>, NEW r, NEW f \in {NoFrame} \cup (PhysFrames \ used),
         SpaceMade(r, f)
  PROVE  SpacesStep
<1> DEFINE R == Range(roots)
           M == SpaceMap
           N == SpaceMap'
           v == TASK_USER_STACK_PAGE
           bare == [x \in Maps!Pages |-> IF x \in UserPages THEN Absent ELSE M[Kernel][x]]
<1>1. DOMAIN M = R /\ M = [s \in R |-> CellsOf(s, mem)]
  BY SpaceMapIs
<1>2. /\ roots' = Append(roots, r) /\ r \in PhysFrames \ used
      /\ \A s \in R, x \in Pages : Walk(s, mem', x) = Walk(s, mem, x)
      /\ \A x \in Pages : Walk(r, mem', x) = IF x \in KernelPages THEN Walk(Kernel, mem, x)
                                             ELSE IF x = v THEN f ELSE NoFrame
  BY DEF SpaceMade
<1>3. roots \in Seq(used) /\ used \subseteq PhysFrames
  BY DEF VmmIInv, VmmTypes, TreeThere, Tree, TreeTypes
<1>4. R \subseteq used /\ Kernel \in R /\ Range(roots') = R \cup {r}
  <2>1. R \subseteq used /\ Kernel \in R
    BY <1>3, RootFacts
  <2>2. roots \in Seq(PhysFrames)
    BY <1>3
  <2>3. Range(Append(roots, r)) = R \cup {r}
    BY <1>2, <2>2, MoreRoots
  <2> QED
    BY <1>2, <2>1, <2>3
<1>5. N = [s \in R \cup {r} |-> CellsOf(s, mem')]
  BY <1>4, SpaceMapNext
<1>6. \A s \in R : CellsOf(s, mem') = M[s]
  BY <1>1, <1>2 DEF CellsOf
<1>7. r \notin R /\ R # {}
  BY <1>2, <1>4
<1>8. v \in UserPages /\ v \in Pages /\ v \notin KernelPages
  BY VmmAssumption, FrameNumbers DEF KernelPages
<1>9. Maps!Pages = Pages /\ \A x \in Pages : x \in UserPages <=> x \notin KernelPages
  BY DEF Maps!Pages, KernelPages, UserPages
<1>10. \A x \in Pages : bare[x] = IF x \in UserPages THEN Absent ELSE Cell(Walk(Kernel, mem, x), x)
  <2>1. \A x \in Pages : M[Kernel][x] = Cell(Walk(Kernel, mem, x), x)
    BY <1>1, <1>4 DEF CellsOf
  <2> HIDE DEF M
  <2> QED
    BY <1>9, <2>1
<1>11. \A x \in Pages : Cell(NoFrame, x) = Absent
  BY CellFacts
<1>12. bare = [x \in Pages |-> bare[x]] /\ DOMAIN bare = Pages
  BY <1>9
<1> DEFINE h == CellsOf(r, mem')
<1>13. h = [x \in Pages |-> h[x]] /\ DOMAIN h = Pages
  BY DEF CellsOf
<1>14. \A x \in Pages : h[x] = IF x = v THEN Cell(f, v) ELSE bare[x]
  <2>1. \A x \in Pages : h[x] = Cell(Walk(r, mem', x), x)
    BY DEF CellsOf
  <2> HIDE DEF h, bare, v
  <2> QED
    BY <1>2, <1>8, <1>9, <1>10, <1>11, <2>1
<1> HIDE DEF R, M, N, h, bare, v
<1>15. N = [y \in DOMAIN M \cup {r} |-> IF y = r THEN h ELSE M[y]]
  BY <1>1, <1>5, <1>6, <1>7 DEF h
<1>16. Maps!Live = R /\ r \in DOMAIN N /\ N[r] = h
  BY <1>1, <1>15 DEF Maps!Live, M
<1>17. CASE f = NoFrame
  <2>1. \A x \in Pages : h[x] = bare[x]
    BY <1>8, <1>10, <1>11, <1>14, <1>17
  <2>2. h = bare
    BY <1>12, <1>13, <2>1, Zenon
  <2>3. N = Maps!With(M, r, bare)
    BY <1>15, <2>2 DEF Maps!With
  <2>4. Maps!Create(r)
    BY <1>4, <1>7, <1>16, <2>3 DEF Maps!Create, M, N, bare
  <2> QED
    BY <1>2, <2>4 DEF SpacesStep, Maps!Next
<1>18. CASE f # NoFrame
  <2>1. Cell(f, v) = [frame |-> f, user |-> TRUE]
    BY <1>8, <1>18, CellFacts
  <2> DEFINE b2 == [bare EXCEPT ![v] = [frame |-> f, user |-> TRUE]]
  <2>2. h = b2
    BY <1>8, <1>12, <1>13, <1>14, <2>1, CellSet
  <2>3. N[r][v].frame = f
    BY <1>8, <1>14, <1>16, <2>1
  <2>4. N = Maps!With(M, r, b2)
    <3> HIDE DEF b2
    <3> QED
      BY <1>15, <2>2 DEF Maps!With
  <2>5. f \in (PhysFrames \cup {Device}) \ Maps!Reachable
    <3>1. Maps!Reachable \subseteq used
      BY ReachableUsed
    <3> QED
      BY <1>18, <3>1
  <2>6. Maps!Create(r)
    BY <1>4, <1>7, <1>8, <1>16, <2>3, <2>4, <2>5 DEF Maps!Create, M, N, bare
  <2> QED
    BY <1>2, <2>6 DEF SpacesStep, Maps!Next
<1> QED
  BY <1>17, <1>18

\* Every step of the manager is a step of the maps, or none.
LEMMA SpacesNext ==
  ASSUME ImagesInUserHalf PROVE VmmIInv /\ VmmIInv' /\ [VmmNext]_vmmVars => SpacesStep
<1> SUFFICES ASSUME VmmIInv, VmmIInv', [VmmNext]_vmmVars PROVE SpacesStep
  OBVIOUS
<1>0. \A x \in UserPages : x \in Pages
  BY FrameNumbers
<1>00. \A x \in KernelPages : x \in Pages
  BY FrameNumbers
<1>1. CASE vmm_init
  <2>1. roots = <<>>
    BY <1>1, VmmInitStepOK
  <2>2. CASE roots' = <<>>
    BY <2>1, <2>2, KeptStutters DEF SpacesStep, WalksKept, Range
  <2>3. CASE \E f \in PhysFrames :
               /\ roots' = <<f>>
               /\ \A x \in Pages : Walk(f, mem', x) = IF x = HhdmPage THEN Device ELSE NoFrame
    BY <2>1, <2>3, BootStep
  <2> QED
    BY <1>1, <2>2, <2>3, VmmInitStepOK
<1>2. CASE CreateSpace
  <2>1. CASE Exhausted(Taken(used))
    BY <1>2, <2>1, SpaceFailsOK, KeptStutters DEF SpacesStep
  <2>2. CASE ~Exhausted(Taken(used))
    BY <1>2, <2>2, SpaceGoesOnOK, CreateStep
  <2> QED
    BY <2>1, <2>2
<1>3. CASE SpaceLoadPage
  BY <1>0, <1>3, SpaceLoadPageOK, KeptStutters, PageStep DEF SpacesStep
<1>4. CASE GrowHeap
  BY <1>00, <1>4, GrowHeapOK, KeptStutters, PageStep DEF SpacesStep
<1>5. CASE MapDevice
  BY <1>00, <1>5, MapDeviceOK, KeptStutters, PageStep DEF SpacesStep
<1>6. CASE vmm_unmap_page
  BY <1>6, UnmapOK, PageStep
<1>7. CASE SpaceLoadBegin \/ SpaceLoadEnd \/ task_switch \/ UNCHANGED vmmVars
  BY <1>7, RootStepOK, KeptStutters DEF SpacesStep
<1> QED
  BY <1>1, <1>2, <1>3, <1>4, <1>5, <1>6, <1>7 DEF VmmNext

\* Page tables implement independent maps that share the kernel's pages: every call
\* of the manager changes one page of one space, or one kernel page of all of them,
\* when images keep to the user half.
THEOREM VmmImplementsSpaces == ImagesInUserHalf => (VmmSpec => ImplementsSpaces)
<1> SUFFICES ASSUME ImagesInUserHalf PROVE VmmSpec => ImplementsSpaces
  OBVIOUS
<1>1. VmmInit => Maps!Init
  <2> SUFFICES ASSUME VmmInit PROVE Maps!Init
    OBVIOUS
  <2>1. Range(roots) = {}
    BY DEF VmmInit, Range
  <2> QED
    BY <2>1 DEF Maps!Init, SpaceMap
<1>2. VmmIInv /\ [VmmNext]_vmmVars => VmmIInv' /\ [Maps!Next]_SpaceMap
  BY VmmStep, SpacesNext DEF SpacesStep
<1>3. VmmInit => VmmIInv
  BY VmmInitOK
<1> QED
  BY <1>1, <1>2, <1>3, PTL DEF VmmSpec, ImplementsSpaces, Maps!Spec

----------------------------------------------------------------------------
(* Task creation and the ELF loader.                                        *)

\* Division keeps the order.
LEMMA DivMono ==
  ASSUME NEW a \in Nat, NEW b \in Nat, NEW d \in Nat, d > 0, a <= b
  PROVE  a \div d <= b \div d
<1> DEFINE x == a \div d
           y == b \div d
<1>1. x \in Nat /\ y \in Nat /\ x * d <= a /\ b < y * d + d
  BY DivFacts
<1>2. SUFFICES ASSUME x > y PROVE FALSE
  BY <1>1
<1> HIDE DEF x, y
<1>3. y + 1 <= x /\ y + 1 \in Nat
  BY <1>1, <1>2
<1>4. (y + 1) * d <= x * d /\ (y + 1) * d \in Nat /\ x * d \in Nat
  BY <1>1, <1>3, MulMono
<1>5. (y + 1) * d = y * d + d /\ y * d \in Nat
  BY <1>1
<1> QED
  BY <1>1, <1>4, <1>5

\* The images that may be loaded, the entry points, tasks and bytes.
Images == UsbImages \cup {Embedded}
Rips == {0} \cup {img.entry : img \in Images}
TaskType == [state : {"UNUSED", "READY"}, id : Nat, rip : Rips]
Byte == Nat \cup {Unmapped, Zero, Junk}

\* The places at which utask is the task being made or made.
Making == {"caps", "kstack", "pml4", "stack", "map", "open", "read", "load", "segment", "page",
           "sched", "done"}

\* Types of the loader's state, and the limits of heap and frames.
LoaderTypes ==
  /\ max_tasks \in Nat \ {0} /\ pc \in Making \cup {"kernel", "slot", "halted"}
  /\ from \in {"usb", "embedded"}
  /\ task_table \in [Slots -> TaskType] /\ next_task_id \in Nat
  /\ utask \in Slots \cup {NoTask} /\ pml4_task \in Slots
  /\ heapRoom \in Nat /\ frameRoom \in Nat
  /\ IsFiniteSet(heap) /\ Cardinality(heap) <= heapRoom
  /\ IsFiniteSet(frames) /\ Cardinality(frames) <= frameRoom
  /\ image \in Images /\ size \in Nat
  /\ space \in [Slots -> [Addrs -> Byte]]

\* Ids handed out so far at most.
Ids(p, f) == IF p = "kernel" THEN 0
             ELSE IF f = "usb" THEN (IF p = "slot" THEN 1 ELSE 2)
             ELSE IF p = "slot" THEN 2 ELSE 3

\* Which ids are given out, and which tasks are there, at each place.
Creation ==
  /\ next_task_id <= Ids(pc, from) /\ (next_task_id > 1 => max_tasks > 1)
  /\ pc = "kernel" => /\ from = "usb" /\ heap = {} /\ frames = {}
                      /\ \A t \in Slots : task_table[t].state = "UNUSED"
  /\ pc # "kernel" => task_table[KernelTask].state = "READY"
  /\ pc \in Making => utask \in Slots \ {KernelTask} /\ task_table[utask].state = "READY"

\* What utask may own on the heap at each place.
HeapAt(p) == IF p = "caps" THEN {} ELSE IF p = "kstack" THEN {"caps"}
             ELSE IF p \in {"read", "load", "segment", "page"} THEN {"caps", "kstack", "buf"}
             ELSE {"caps", "kstack"}

\* Every allocation belongs to a task that is there.
Owned ==
  pc # "halted" =>
    /\ heap \subseteq Slots \X {"caps", "kstack", "buf"}
    /\ \A x \in heap : /\ task_table[x[1]].state = "READY"
                       /\ x[2] \in IF x[1] = utask /\ pc \in Making THEN HeapAt(pc)
                                   ELSE {"caps", "kstack"}
    /\ \A x \in frames : /\ x[1] \in Slots /\ task_table[x[1]].state = "READY"
                         /\ pc \in {"caps", "kstack", "pml4"} => x[1] # utask
                         /\ pc = "stack" /\ x[1] = utask => x = <<utask, "pml4">>

Right(a, s) == space[utask][a] = IF a < s.vaddr + s.filesz THEN s.offset + (a - s.vaddr) ELSE Zero
SegLoaded(k) == \A a \in Addrs : Loadable(Segs[k]) /\ Within(a, Segs[k]) => Right(a, Segs[k])

\* The segment under way is loaded up to its current page.
UnderWay ==
  /\ seg <= Len(Segs) /\ Segment.load /\ ~Truncated
  /\ page \in Nat /\ page >= Segment.vaddr \div PAGE
  /\ \A a \in Addrs :
       Loadable(Segment) /\ Within(a, Segment) /\ a \div PAGE < page => Right(a, Segment)

\* What is in memory of the image under way, at each place.
Loading ==
  /\ from = "embedded" => /\ pc \notin {"open", "read"}
                          /\ pc \in {"load", "segment", "page", "sched", "done"} => image = Embedded
                          /\ pc \in Making => task_table[utask].rip = Embedded.entry
  /\ pc \notin {"segment", "page", "halted"} => pml4_task = KernelTask
  /\ pc \in {"segment", "page"} =>
       /\ seg \in Nat \ {0} /\ image.good
       /\ \A k \in 1 .. Len(Segs) : k < seg => SegLoaded(k)
  /\ pc = "page" => UnderWay
  /\ pc \in {"sched", "done"} =>
       /\ image.good /\ \A k \in 1 .. Len(Segs) : SegLoaded(k)
       /\ task_table[utask].rip = image.entry
  /\ pc = "done" => queue = <<KernelTask, utask>>

\* The inductive invariant of the loader.
LoaderIInv == LoaderTypes /\ Creation /\ Owned /\ Loading

\* The kernel's slot, and the slot numbers.
LEMMA KernelSlot ==
  ASSUME max_tasks \in Nat \ {0}
  PROVE  KernelTask \in Slots /\ NoTask \notin Slots /\ Slots \subseteq Nat
BY DEF KernelTask, Slots, NoTask

\* task_create takes the lowest idle slot.
LEMMA SlotFacts ==
  ASSUME max_tasks \in Nat \ {0}, IdleSlots # {}
  PROVE  Slot \in IdleSlots /\ Slot \in Slots /\ \A t \in IdleSlots : Slot <= t
<1>1. IdleSlots \subseteq Nat /\ IdleSlots \subseteq Slots
  BY KernelSlot DEF IdleSlots
<1>2. \E t \in IdleSlots : \A u \in IdleSlots : t <= u
  BY <1>1, LeastElement
<1>3. Slot \in IdleSlots /\ \A t \in IdleSlots : Slot <= t
  BY <1>2, Zenon DEF Slot
<1> QED
  BY <1>1, <1>3

\* The initial state satisfies the invariant.
LEMMA LoaderInitOK == ImagesLaidOut /\ LoaderInit => LoaderIInv
<1> SUFFICES ASSUME ImagesLaidOut, LoaderInit PROVE LoaderIInv
  OBVIOUS
<1> USE LoaderAssumption
<1>1. max_tasks \in Nat \ {0} /\ heapRoom \in Nat /\ frameRoom \in Nat
  BY DEF LoaderInit
<1>2. KernelTask \in Slots
  BY <1>1, KernelSlot
<1>3. UnusedTask \in TaskType /\ UnusedTask.state = "UNUSED"
  BY DEF UnusedTask, TaskType, Rips
<1>4. /\ pc = "kernel" /\ from = "usb" /\ next_task_id = 0 /\ utask = NoTask
      /\ heap = {} /\ frames = {} /\ image = Embedded /\ size = 0 /\ pml4_task = KernelTask
      /\ task_table = [t \in Slots |-> UnusedTask]
      /\ space = [t \in Slots |-> [a \in Addrs |-> Unmapped]]
  BY DEF LoaderInit
<1>5. task_table \in [Slots -> TaskType] /\ \A t \in Slots : task_table[t].state = "UNUSED"
  BY <1>3, <1>4
<1>6. space \in [Slots -> [Addrs -> Byte]]
  BY <1>4 DEF Byte
<1>7. IsFiniteSet({}) /\ Cardinality({}) = 0
  BY FS_EmptySet
<1>8. LoaderTypes
  BY <1>1, <1>2, <1>4, <1>5, <1>6, <1>7 DEF LoaderTypes, Images
<1>9. Creation
  BY <1>4, <1>5 DEF Creation, Ids, Making
<1>10. Owned
  BY <1>4 DEF Owned
<1>11. Loading
  BY <1>4 DEF Loading, Making
<1> QED
  BY <1>8, <1>9, <1>10, <1>11 DEF LoaderIInv

\* The invariant implies what the run checks.
LEMMA LoaderIInvImplies == ImagesLaidOut /\ LoaderIInv => LoaderInv
<1> SUFFICES ASSUME ImagesLaidOut, LoaderIInv PROVE LoaderInv
  OBVIOUS
<1> USE LoaderAssumption
<1>1. LoaderTypes /\ Creation /\ Owned /\ Loading
  BY DEF LoaderIInv
<1>2. max_tasks \in Nat \ {0} /\ next_task_id \in Nat
  BY <1>1 DEF LoaderTypes
<1>3. next_task_id \in 0 .. max_tasks + 1
  <2>1. next_task_id <= 3 /\ (next_task_id > 1 => max_tasks > 1)
    BY <1>1, <1>2 DEF Creation, Ids
  <2> QED
    BY <1>2, <2>1
<1>4. LoaderTypeOK
  <2>1. \A t \in Slots : task_table[t].state \in {"UNUSED", "READY"}
    BY <1>1 DEF LoaderTypes, TaskType
  <2> QED
    BY <1>1, <1>3, <2>1 DEF LoaderTypeOK, LoaderTypes, Byte
<1>5. RollbackComplete
  BY <1>1 DEF RollbackComplete, Owned, Loading, HeapAt, Making
<1>6. LaidOut(image)
  BY <1>1 DEF ImagesLaidOut, LoaderTypes, Images
<1>7. image.segs \in Seq(SegType) /\ DOMAIN image.segs = 1 .. Len(image.segs)
      /\ \A k \in DOMAIN image.segs : image.segs[k] \in SegType
  BY <1>6 DEF LaidOut
<1>5a. \A k \in DOMAIN image.segs : image.segs[k].vaddr \in Nat /\ image.segs[k].offset \in Nat /\ image.segs[k].memsz \in Nat
  <2>1. 0 .. WORD - 1 \subseteq Nat
    OBVIOUS
  <2> QED
    BY <1>7, <2>1 DEF SegType
<1>5b. ASSUME pc = "done", NEW k \in DOMAIN image.segs, NEW a \in Addrs,
              Loadable(image.segs[k]), Within(a, image.segs[k])
       PROVE  Right(a, image.segs[k])
  <2>1. Segs = image.segs
    BY <1>5b DEF Segs, Loadable
  <2>2. SegLoaded(k)
    BY <1>1, <1>5b, <1>7, <2>1 DEF Loading
  <2> QED
    BY <1>5b, <2>1, <2>2 DEF SegLoaded
<1>8. LoadedExactly
  BY <1>5b DEF LoadedExactly, Right
<1>9. EntryMatches
  <2> SUFFICES ASSUME pc = "done" PROVE EntryMatches
    BY DEF EntryMatches
  <2>1. /\ queue = <<KernelTask, utask>> /\ task_table[utask].rip = image.entry
        /\ from = "embedded" => image = Embedded
    BY <1>1 DEF Loading
  <2>2. queue[2] = utask
    BY <2>1
  <2>3. ASSUME image.entry \in Addrs, NEW k \in DOMAIN image.segs,
               Loadable(image.segs[k]), Within(image.entry, image.segs[k])
        PROVE  space[utask][image.entry] # Unmapped
    <3>1. Right(image.entry, image.segs[k])
      BY <1>5b, <2>3
    <3>2. image.segs[k].vaddr \in Nat /\ image.segs[k].offset \in Nat /\ image.segs[k].memsz \in Nat
          /\ image.entry \in Nat /\ image.entry >= image.segs[k].vaddr
      BY <1>5a, <2>3 DEF Within, Addrs
    <3>3. space[utask][image.entry] \in Nat \/ space[utask][image.entry] = Zero
      BY <3>1, <3>2 DEF Right
    <3> QED
      BY <3>3 DEF Unmapped, Zero
  <2> QED
    BY <2>1, <2>2, <2>3 DEF EntryMatches
<1> QED
  BY <1>4, <1>5, <1>8, <1>9 DEF LoaderInv

\* An attempt that has failed leaves nothing behind.
LEMMA FailOK ==
  ASSUME Creation, Fails, pc # "kernel", LoaderTypes, LoaderTypes',
           UNCHANGED <<max_tasks, next_task_id>>,
         task_table'[KernelTask].state = "READY", pml4_task' = KernelTask,
         heap' \subseteq Slots \X {"caps", "kstack"},
         \A x \in heap' : task_table'[x[1]].state = "READY",
         \A x \in frames' : x[1] \in Slots /\ task_table'[x[1]].state = "READY"
  PROVE  LoaderIInv'
<1>1. Slots' = Slots
  BY DEF Slots
<1>2. /\ from = "usb" => pc' = "slot" /\ from' = "embedded"
      /\ from = "embedded" => pc' = "halted" /\ from' = "embedded"
      /\ from \in {"usb", "embedded"}
  BY DEF Fails, LoaderTypes
<1>3. next_task_id \in Nat /\ next_task_id <= Ids(pc, from) /\ (next_task_id > 1 => max_tasks > 1)
  BY DEF Creation, LoaderTypes
<1>4. Ids(pc, from) <= Ids(pc', from') /\ Ids(pc, from) \in Nat /\ Ids(pc', from') \in Nat
  BY <1>2 DEF Ids
<1>5. pc' \notin Making /\ pc' # "kernel"
  BY <1>2 DEF Making
<1>6. Creation'
  BY <1>3, <1>4, <1>5 DEF Creation
<1>7. Owned'
  <2>1. heap' \subseteq Slots' \X {"caps", "kstack", "buf"} /\ \A x \in heap' : x[2] \in {"caps",
          "kstack"}
    BY <1>1
  <2>2. pc' \notin {"caps", "kstack", "pml4", "stack"}
    BY <1>2
  <2> QED
    BY <1>1, <1>5, <2>1, <2>2 DEF Owned
<1>8. Loading'
  <2>1. pc' \in {"slot", "halted"}
    BY <1>2
  <2> QED
    BY <1>5, <2>1 DEF Loading
<1> QED
  BY <1>6, <1>7, <1>8 DEF LoaderIInv

\* A slot of the table is filled.
LEMMA TaskMade ==
  ASSUME LoaderTypes, NEW rip \in Rips, IdleSlots # {}, NewTask(Slot, rip)
  PROVE  /\ UNCHANGED max_tasks /\ Slots' = Slots /\ utask' = Slot /\ Slot \in Slots
         /\ task_table[Slot].state = "UNUSED" /\ next_task_id' = next_task_id + 1
         /\ task_table' \in [Slots -> TaskType]
         /\ task_table'[Slot].state = "READY" /\ task_table'[Slot].rip = rip
         /\ \A t \in Slots : t # Slot => task_table'[t] = task_table[t]
         /\ \A t \in IdleSlots : Slot <= t
<1>1. max_tasks \in Nat \ {0} /\ next_task_id \in Nat /\ task_table \in [Slots -> TaskType]
  BY DEF LoaderTypes
<1>2. Slot \in IdleSlots /\ Slot \in Slots /\ \A t \in IdleSlots : Slot <= t
  BY <1>1, SlotFacts
<1> DEFINE new == [state |-> "READY", id |-> next_task_id, rip |-> rip]
<1>3. new \in TaskType /\ new.state = "READY" /\ new.rip = rip
  BY <1>1 DEF TaskType
<1>4. task_table' = [task_table EXCEPT ![Slot] = new] /\ UNCHANGED max_tasks /\ utask' = Slot
      /\ next_task_id' = next_task_id + 1
  BY DEF NewTask
<1>5. Slots' = Slots
  BY <1>4 DEF Slots
<1> HIDE DEF new
<1>6. task_table' \in [Slots -> TaskType] /\ task_table'[Slot] = new
      /\ \A t \in Slots : t # Slot => task_table'[t] = task_table[t]
  BY <1>1, <1>2, <1>3, <1>4
<1>7. task_table[Slot].state = "UNUSED"
  BY <1>2 DEF IdleSlots
<1> QED
  BY <1>2, <1>3, <1>4, <1>5, <1>6, <1>7

\* task_create of the kernel task.
LEMMA CreateKernelOK == ASSUME LoaderIInv, CreateKernel PROVE LoaderIInv'
<1>1. LoaderTypes /\ Creation /\ Owned /\ Loading
  BY DEF LoaderIInv
<1>2. /\ pc = "kernel" /\ IdleSlots # {} /\ NewTask(Slot, 0) /\ pc' = "slot"
      /\ UNCHANGED <<heap, frames, heapRoom, frameRoom, loadVars, space, pml4_task, queue>>
      /\ from' \in {"usb", "embedded"}
  BY DEF CreateKernel
<1>3. 0 \in Rips
  BY DEF Rips
<1>4. /\ UNCHANGED max_tasks /\ Slots' = Slots /\ utask' = Slot /\ Slot \in Slots
      /\ next_task_id' = next_task_id + 1 /\ task_table' \in [Slots -> TaskType]
      /\ task_table'[Slot].state = "READY" /\ \A t \in IdleSlots : Slot <= t
  BY <1>1, <1>2, <1>3, TaskMade
<1>5. max_tasks \in Nat \ {0} /\ next_task_id \in Nat
  BY <1>1 DEF LoaderTypes
<1>6. KernelTask \in Slots /\ Slots \subseteq Nat
  BY <1>5, KernelSlot
<1>7. Slot = KernelTask
  <2>1. KernelTask \in IdleSlots
    BY <1>1, <1>2, <1>6 DEF Creation, IdleSlots
  <2>2. Slot <= 0 /\ Slot \in Nat
    BY <1>4, <1>6, <2>1 DEF KernelTask
  <2> QED
    BY <2>2 DEF KernelTask
<1>8. next_task_id = 0 /\ heap = {} /\ frames = {}
  BY <1>1, <1>2, <1>5 DEF Creation, Ids
<1>9. LoaderTypes'
  BY <1>1, <1>2, <1>4, <1>5 DEF LoaderTypes, loadVars, Making
<1>10. Creation'
  <2>1. pc' # "kernel" /\ pc' \notin Making
    BY <1>2 DEF Making
  <2>2. next_task_id' = 1 /\ 1 <= Ids(pc', from')
    BY <1>2, <1>4, <1>8 DEF Ids
  <2> QED
    BY <1>4, <1>7, <2>1, <2>2 DEF Creation
<1>11. Owned'
  BY <1>2, <1>8 DEF Owned
<1>12. Loading'
  <2>1. pml4_task' = KernelTask
    BY <1>1, <1>2 DEF Loading
  <2> QED
    BY <1>2, <2>1 DEF Loading, Making
<1> QED
  BY <1>9, <1>10, <1>11, <1>12 DEF LoaderIInv

\* task_create_user finds a slot.
LEMMA CreateSlotOK == ASSUME LoaderIInv, CreateSlot PROVE LoaderIInv'
<1>1. LoaderTypes /\ Creation /\ Owned /\ Loading
  BY DEF LoaderIInv
<1> DEFINE rip == IF from = "usb" THEN 0 ELSE Embedded.entry
<1>2. /\ pc = "slot" /\ IdleSlots # {} /\ NewTask(Slot, rip) /\ pc' = "caps"
      /\ UNCHANGED <<from, heap, frames, heapRoom, frameRoom, loadVars, space, pml4_task, queue>>
  BY DEF CreateSlot
<1>3. rip \in Rips
  BY DEF Rips, Images
<1>3a. from = "embedded" => rip = Embedded.entry
  OBVIOUS
<1> HIDE DEF rip
<1>4. /\ UNCHANGED max_tasks /\ Slots' = Slots /\ utask' = Slot /\ Slot \in Slots
      /\ task_table[Slot].state = "UNUSED" /\ next_task_id' = next_task_id + 1
      /\ task_table' \in [Slots -> TaskType]
      /\ task_table'[Slot].state = "READY" /\ task_table'[Slot].rip = rip
      /\ \A t \in Slots : t # Slot => task_table'[t] = task_table[t]
  BY <1>1, <1>2, <1>3, TaskMade
<1>5. max_tasks \in Nat \ {0} /\ next_task_id \in Nat /\ from \in {"usb", "embedded"}
  BY <1>1 DEF LoaderTypes
<1>6. KernelTask \in Slots /\ Slots = 0 .. max_tasks - 1
  BY <1>5, KernelSlot DEF Slots
<1>7. Slot # KernelTask /\ task_table[KernelTask].state = "READY"
  BY <1>1, <1>2, <1>4 DEF Creation
<1>8. max_tasks > 1
  BY <1>4, <1>5, <1>6, <1>7 DEF KernelTask
<1>9. LoaderTypes'
  BY <1>1, <1>2, <1>4, <1>5 DEF LoaderTypes, loadVars, Making
<1>10. Creation'
  <2>1. pc' # "kernel" /\ task_table'[KernelTask].state = "READY"
    BY <1>2, <1>4, <1>6, <1>7
  <2>2. next_task_id <= Ids("slot", from)
    BY <1>1, <1>2 DEF Creation
  <2>3. next_task_id' <= Ids(pc', from')
    BY <1>2, <1>4, <1>5, <2>2 DEF Ids
  <2> QED
    BY <1>4, <1>7, <1>8, <2>1, <2>3 DEF Creation
<1>11. Owned'
  <2>1. /\ heap \subseteq Slots \X {"caps", "kstack", "buf"}
        /\ \A x \in heap : task_table[x[1]].state = "READY" /\ x[2] \in {"caps", "kstack"}
        /\ \A x \in frames : x[1] \in Slots /\ task_table[x[1]].state = "READY"
    BY <1>1, <1>2 DEF Owned, Making
  <2>2. \A x \in heap : x[1] \in Slots /\ x[1] # Slot /\ task_table'[x[1]].state = "READY"
    BY <1>4, <2>1
  <2>3. \A x \in frames : x[1] # Slot /\ task_table'[x[1]].state = "READY"
    BY <1>4, <2>1
  <2> QED
    BY <1>2, <1>4, <2>1, <2>2, <2>3 DEF Owned
<1>12. Loading'
  <2>1. pml4_task' = KernelTask
    BY <1>1, <1>2 DEF Loading
  <2> QED
    BY <1>2, <1>3a, <1>4, <2>1 DEF Loading
<1> QED
  BY <1>9, <1>10, <1>11, <1>12 DEF LoaderIInv

\* A step inside an attempt leaves the tasks alone.
LEMMA CreationKept ==
  ASSUME Creation, pc \in Making, pc' \in Making \cup {"halted"},
           UNCHANGED <<from, max_tasks, next_task_id, utask>>,
         Slots' = Slots, KernelTask \in Slots,
         \A t \in Slots : task_table'[t].state = task_table[t].state
  PROVE  Creation'
<1>1. pc # "kernel" /\ pc # "slot" /\ pc' # "kernel" /\ pc' # "slot"
  BY DEF Making
<1>2. Ids(pc', from') = Ids(pc, from)
  BY <1>1 DEF Ids
<1> QED
  BY <1>1, <1>2 DEF Creation

\* Adding to and taking from a finite set.
LEMMA Room ==
  ASSUME NEW A, IsFiniteSet(A), NEW m \in Nat
  PROVE  /\ \A x : Cardinality(A) < m => IsFiniteSet(A \cup {x}) /\ Cardinality(A \cup {x}) <= m
         /\ \A B : Cardinality(A) <= m => IsFiniteSet(A \ B) /\ Cardinality(A \ B) <= m
         /\ Cardinality(A) \in Nat
<1>1. Cardinality(A) \in Nat
  BY FS_CardinalityType
<1>2. ASSUME NEW x, Cardinality(A) < m PROVE IsFiniteSet(A \cup {x}) /\ Cardinality(A \cup {x}) <= m
  <2>1. IsFiniteSet(A \cup {x})
        /\ Cardinality(A \cup {x}) = IF x \in A THEN Cardinality(A) ELSE Cardinality(A) + 1
    BY FS_AddElement
  <2> QED
    BY <1>1, <1>2, <2>1
<1>3. ASSUME NEW B, Cardinality(A) <= m PROVE IsFiniteSet(A \ B) /\ Cardinality(A \ B) <= m
  <2>1. A \ B \subseteq A
    OBVIOUS
  <2>2. IsFiniteSet(A \ B) /\ Cardinality(A \ B) <= Cardinality(A)
    BY <2>1, FS_Subset
  <2>3. Cardinality(A \ B) \in Nat
    BY <2>2, FS_CardinalityType
  <2> QED
    BY <1>1, <1>3, <2>2, <2>3
<1> QED
  BY <1>1, <1>2, <1>3

\* task_create_user finds none.
LEMMA NoSlotOK == ASSUME LoaderIInv, NoSlot PROVE LoaderIInv'
<1>1. LoaderTypes /\ Creation /\ Owned /\ Loading
  BY DEF LoaderIInv
<1>2. /\ pc = "slot" /\ Fails
      /\ UNCHANGED <<taskVars, heap, frames, heapRoom, frameRoom, loadVars, space, pml4_task,
           queue>>
  BY DEF NoSlot
<1>3. Slots' = Slots
  BY <1>2 DEF Slots, taskVars
<1>4. LoaderTypes'
  BY <1>1, <1>2, <1>3 DEF LoaderTypes, loadVars, taskVars, Making, Fails
<1>5. /\ heap \subseteq Slots \X {"caps", "kstack", "buf"}
      /\ \A x \in heap : task_table[x[1]].state = "READY" /\ x[2] \in {"caps", "kstack"}
      /\ \A x \in frames : x[1] \in Slots /\ task_table[x[1]].state = "READY"
  BY <1>1, <1>2 DEF Owned, Making
<1>6. heap \subseteq Slots \X {"caps", "kstack"}
  BY <1>5
<1>7. task_table[KernelTask].state = "READY" /\ pml4_task = KernelTask
  BY <1>1, <1>2 DEF Creation, Loading
<1> QED
  BY <1>1, <1>2, <1>4, <1>5, <1>6, <1>7, FailOK DEF taskVars

\* An allocation from the heap.
LEMMA TakeHeapOK ==
  ASSUME LoaderIInv, NEW what, NEW next, TakeHeap(what, next),
         \/ pc = "caps" /\ what = "caps" /\ next = "kstack"
         \/ pc = "kstack" /\ what = "kstack" /\ next = "pml4"
  PROVE  LoaderIInv'
<1>1. LoaderTypes /\ Creation /\ Owned /\ Loading
  BY DEF LoaderIInv
<1>2. /\ HeapLeft /\ heap' = heap \cup {<<utask, what>>} /\ pc' = next
      /\ UNCHANGED <<from, taskVars, frames, heapRoom, frameRoom, loadVars, space, pml4_task,
           queue>>
  BY DEF TakeHeap
<1>3. /\ Slots' = Slots
      /\ UNCHANGED <<max_tasks, task_table, next_task_id, utask, image, size, seg, page>>
  BY <1>2 DEF Slots, taskVars, loadVars
<1>4. IsFiniteSet(heap') /\ Cardinality(heap') <= heapRoom
  BY <1>1, <1>2, Room DEF LoaderTypes, HeapLeft
<1>5. LoaderTypes'
  BY <1>1, <1>2, <1>3, <1>4 DEF LoaderTypes, Making
<1>6. pc \in Making /\ pc' \in Making
  BY <1>2 DEF Making
<1>7. Creation'
  <2>1. KernelTask \in Slots
    BY <1>1, KernelSlot DEF LoaderTypes
  <2> QED
    BY <1>1, <1>2, <1>3, <1>6, <2>1, CreationKept
<1>8. utask \in Slots /\ task_table[utask].state = "READY"
  BY <1>1, <1>6 DEF Creation
<1>9. Owned'
  <2>1. pc # "halted" /\ pc \in {"caps", "kstack"} /\ pc' \in {"kstack", "pml4"}
    BY <1>2
  <2>2. /\ heap \subseteq Slots \X {"caps", "kstack", "buf"}
        /\ \A x \in heap : task_table[x[1]].state = "READY"
        /\ \A x \in heap : x[2]
             \in IF x[1] = utask /\ pc \in Making THEN HeapAt(pc) ELSE {"caps", "kstack"}
        /\ \A x \in frames : x[1] \in Slots /\ task_table[x[1]].state = "READY" /\ x[1] # utask
    BY <1>1, <2>1 DEF Owned
  <2>3. heap' \subseteq Slots \X {"caps", "kstack", "buf"}
    BY <1>2, <1>8, <2>2
  <2>4. \A x \in heap' : x \in heap \/ (x[1] = utask /\ x[2] = what)
    BY <1>2
  <2>5. what \in HeapAt(pc') /\ HeapAt(pc) \subseteq HeapAt(pc')
    BY <1>2 DEF HeapAt
  <2>6. \A x \in heap' : /\ task_table[x[1]].state = "READY"
                         /\ x[2]
                              \in IF x[1] = utask /\ pc' \in Making THEN HeapAt(pc') ELSE {"caps", "kstack"}
    BY <1>6, <1>8, <2>2, <2>4, <2>5
  <2> QED
    BY <1>2, <1>3, <2>1, <2>2, <2>3, <2>6 DEF Owned
<1>10. Loading'
  <2>1. pml4_task' = KernelTask /\ (from = "embedded" => task_table[utask].rip = Embedded.entry)
    BY <1>1, <1>2, <1>6 DEF Loading
  <2> QED
    BY <1>2, <1>3, <2>1 DEF Loading
<1> QED
  BY <1>5, <1>7, <1>9, <1>10 DEF LoaderIInv

\* An allocation of a frame.
LEMMA TakeFrameOK ==
  ASSUME LoaderIInv, NEW what, NEW next, TakeFrame(what, next),
         \/ pc = "pml4" /\ what = "pml4" /\ next = "stack"
         \/ pc = "stack" /\ what = "stack" /\ next = "map"
  PROVE  LoaderIInv'
<1>1. LoaderTypes /\ Creation /\ Owned /\ Loading
  BY DEF LoaderIInv
<1>2. /\ FramesLeft /\ frames' = frames \cup {<<utask, what>>} /\ pc' = next
      /\ UNCHANGED <<from, taskVars, heap, heapRoom, frameRoom, loadVars, space, pml4_task, queue>>
  BY DEF TakeFrame
<1>3. /\ Slots' = Slots
      /\ UNCHANGED <<max_tasks, task_table, next_task_id, utask, image, size, seg, page>>
  BY <1>2 DEF Slots, taskVars, loadVars
<1>4. IsFiniteSet(frames') /\ Cardinality(frames') <= frameRoom
  BY <1>1, <1>2, Room DEF LoaderTypes, FramesLeft
<1>5. LoaderTypes'
  BY <1>1, <1>2, <1>3, <1>4 DEF LoaderTypes, Making
<1>6. pc \in Making /\ pc' \in Making
  BY <1>2 DEF Making
<1>7. Creation'
  <2>1. KernelTask \in Slots
    BY <1>1, KernelSlot DEF LoaderTypes
  <2> QED
    BY <1>1, <1>2, <1>3, <1>6, <2>1, CreationKept
<1>8. utask \in Slots /\ task_table[utask].state = "READY"
  BY <1>1, <1>6 DEF Creation
<1>9. Owned'
  <2>1. pc # "halted" /\ pc \in {"pml4", "stack"} /\ pc' \in {"stack", "map"}
    BY <1>2
  <2>2. /\ heap \subseteq Slots \X {"caps", "kstack", "buf"}
        /\ \A x \in heap : task_table[x[1]].state = "READY"
        /\ \A x \in heap : x[2]
             \in IF x[1] = utask /\ pc \in Making THEN HeapAt(pc) ELSE {"caps", "kstack"}
        /\ \A x \in frames : x[1] \in Slots /\ task_table[x[1]].state = "READY"
        /\ pc = "pml4" => \A x \in frames : x[1] # utask
    BY <1>1, <2>1 DEF Owned
  <2>3. HeapAt(pc') = HeapAt(pc)
    BY <1>2 DEF HeapAt
  <2>4. \A x \in frames' : x \in frames \/ (x = <<utask, what>> /\ x[1] = utask)
    BY <1>2
  <2>5. \A x \in frames' : /\ x[1] \in Slots /\ task_table[x[1]].state = "READY"
                           /\ pc' = "stack" /\ x[1] = utask => x = <<utask, "pml4">>
    BY <1>2, <1>8, <2>2, <2>4
  <2> QED
    BY <1>2, <1>3, <1>6, <2>1, <2>2, <2>3, <2>5 DEF Owned
<1>10. Loading'
  <2>1. pml4_task' = KernelTask /\ (from = "embedded" => task_table[utask].rip = Embedded.entry)
    BY <1>1, <1>2, <1>6 DEF Loading
  <2> QED
    BY <1>2, <1>3, <2>1 DEF Loading
<1> QED
  BY <1>5, <1>7, <1>9, <1>10 DEF LoaderIInv

\* task_create_user gives up and undoes what it did.
LEMMA CreateFailsOK ==
  ASSUME LoaderIInv, NEW H, NEW F, CreateFails(H, F), pc \in {"caps", "kstack", "pml4", "stack"},
         HeapAt(pc) \subseteq H, pc = "stack" => "pml4" \in F
  PROVE  LoaderIInv'
<1>1. LoaderTypes /\ Creation /\ Owned /\ Loading
  BY DEF LoaderIInv
<1>2. /\ heap' = HeapWithout(H) /\ frames' = frames \ {<<utask, w>> : w \in F}
      /\ task_table' = [task_table EXCEPT ![utask].state = "UNUSED"] /\ Fails
      /\ UNCHANGED <<max_tasks, next_task_id, utask, heapRoom, frameRoom, loadVars, space,
           pml4_task, queue>>
  BY DEF CreateFails
<1>3. Slots' = Slots /\ pc \in Making
  BY <1>2 DEF Slots, Making
<1>4. utask \in Slots \ {KernelTask} /\ task_table[KernelTask].state = "READY" /\ KernelTask \in Slots
  BY <1>1, <1>3, KernelSlot DEF Creation, LoaderTypes, Making
<1>5. /\ task_table \in [Slots -> TaskType] /\ IsFiniteSet(heap) /\ Cardinality(heap) <= heapRoom
      /\ IsFiniteSet(frames) /\ Cardinality(frames) <= frameRoom /\ heapRoom \in Nat /\ frameRoom \in Nat
  BY <1>1 DEF LoaderTypes
<1>6. /\ task_table' \in [Slots -> TaskType]
      /\ \A t \in Slots : t # utask => task_table'[t] = task_table[t]
  BY <1>2, <1>4, <1>5 DEF TaskType
<1>7. /\ IsFiniteSet(heap') /\ Cardinality(heap') <= heapRoom
      /\ IsFiniteSet(frames') /\ Cardinality(frames') <= frameRoom
  BY <1>2, <1>5, Room DEF HeapWithout
<1>8. LoaderTypes'
  BY <1>1, <1>2, <1>3, <1>6, <1>7 DEF LoaderTypes, loadVars, Fails, Making
<1>9. /\ heap \subseteq Slots \X {"caps", "kstack", "buf"}
      /\ \A x \in heap : task_table[x[1]].state = "READY"
      /\ \A x \in heap : x[2] \in IF x[1] = utask THEN HeapAt(pc) ELSE {"caps", "kstack"}
      /\ \A x \in frames : x[1] \in Slots /\ task_table[x[1]].state = "READY"
      /\ \A x \in frames : x[1] = utask => pc = "stack" /\ x = <<utask, "pml4">>
  BY <1>1, <1>3 DEF Owned
<1>10. \A x \in heap' : x \in heap /\ x[1] # utask
  <2> TAKE x \in heap'
  <2>1. x \in heap /\ x \notin {<<utask, w>> : w \in H}
    BY <1>2 DEF HeapWithout
  <2>2. x = <<x[1], x[2]>>
    BY <1>9, <2>1
  <2>3. x[1] = utask => x[2] \in H
    BY <1>9, <2>1
  <2> QED
    BY <2>1, <2>2, <2>3
<1>11. \A x \in frames' : x \in frames /\ x[1] # utask
  BY <1>2, <1>9
<1>12. heap' \subseteq Slots \X {"caps", "kstack"} /\ \A x \in heap' : x[1] \in Slots
  BY <1>9, <1>10
<1>13. \A x \in heap' : task_table'[x[1]].state = "READY"
  BY <1>6, <1>9, <1>10, <1>12
<1>14. \A x \in frames' : x[1] \in Slots /\ task_table'[x[1]].state = "READY"
  BY <1>6, <1>9, <1>11
<1>15. task_table'[KernelTask].state = "READY" /\ pml4_task' = KernelTask /\ pc # "kernel"
  BY <1>1, <1>2, <1>4, <1>6 DEF Loading
<1> QED
  BY <1>1, <1>2, <1>8, <1>12, <1>13, <1>14, <1>15, FailOK

\* The user stack is mapped.
LEMMA MapStackOK == ASSUME ImagesLaidOut, LoaderIInv, MapStack PROVE LoaderIInv'
<1>1. LoaderTypes /\ Creation /\ Owned /\ Loading
  BY DEF LoaderIInv
<1>2. /\ pc = "map"
      /\ UNCHANGED <<from, taskVars, heap, heapRoom, frameRoom, seg, page, pml4_task, queue>>
  BY DEF MapStack
<1>3. Slots' = Slots /\ UNCHANGED <<max_tasks, task_table, next_task_id, utask>>
  BY <1>2 DEF Slots, taskVars
<1>4. utask \in Slots /\ task_table[utask].state = "READY" /\ KernelTask \in Slots
  BY <1>1, <1>2, KernelSlot DEF Creation, Making, LoaderTypes
<1>5. /\ heap \subseteq Slots \X {"caps", "kstack", "buf"}
      /\ \A x \in heap : task_table[x[1]].state = "READY" /\ x[2] \in {"caps", "kstack"}
      /\ \A x \in frames : x[1] \in Slots /\ task_table[x[1]].state = "READY"
  BY <1>1, <1>2 DEF Owned, HeapAt
<1>6. pml4_task = KernelTask /\ (from = "embedded" => task_table[utask].rip = Embedded.entry)
  BY <1>1, <1>2 DEF Loading, Making
<1>7. from \in {"usb", "embedded"}
  BY <1>1 DEF LoaderTypes
<1>8. CASE /\ FramesLeft /\ frames' = NeedsTable(utask)
           /\ space' = [space EXCEPT ![utask] = [a \in Addrs |-> IF a < PAGE THEN Zero
                ELSE Unmapped]]
           /\ pc' = IF from = "usb" THEN "open" ELSE "load"
           /\ image' = Embedded /\ size' = Embedded.size
  <2>1. IsFiniteSet(frames') /\ Cardinality(frames') <= frameRoom
    BY <1>1, <1>8, Room DEF LoaderTypes, FramesLeft, NeedsTable
  <2>2. space' \in [Slots -> [Addrs -> Byte]]
    <3>1. [a \in Addrs |-> IF a < PAGE THEN Zero ELSE Unmapped] \in [Addrs -> Byte]
      BY DEF Byte
    <3> QED
      BY <1>1, <1>4, <1>8, <3>1 DEF LoaderTypes
  <2>3. image' \in Images /\ size' \in Nat
    BY <1>8 DEF ImagesLaidOut, LaidOut, Images
  <2>4. /\ pc' \in {"open", "load"} /\ (from = "embedded" => pc' = "load")
        /\ pc' \in Making /\ pc \in Making
    BY <1>2, <1>7, <1>8 DEF Making
  <2>5. LoaderTypes'
    BY <1>1, <1>2, <1>3, <2>1, <2>2, <2>3, <2>4 DEF LoaderTypes
  <2>6. Creation'
    BY <1>1, <1>2, <1>3, <1>4, <2>4, CreationKept
  <2>7. Owned'
    <3>1. \A x \in frames' : x[1] \in Slots /\ task_table[x[1]].state = "READY"
      <4>1. \A x \in frames' : x \in frames \/ x[1] = utask
        BY <1>8 DEF NeedsTable
      <4> QED
        BY <1>4, <1>5, <4>1
    <3>2. {"caps", "kstack"} \subseteq HeapAt(pc')
      BY <2>4 DEF HeapAt
    <3>3. \A x \in heap : x[2]
            \in IF x[1] = utask /\ pc' \in Making THEN HeapAt(pc') ELSE {"caps", "kstack"}
      BY <1>5, <3>2
    <3> QED
      BY <1>2, <1>3, <1>5, <2>4, <3>1, <3>3 DEF Owned
  <2>8. Loading'
    BY <1>2, <1>3, <1>6, <1>8, <2>4 DEF Loading
  <2> QED
    BY <2>5, <2>6, <2>7, <2>8 DEF LoaderIInv
<1>9. CASE pc' = "halted" /\ UNCHANGED <<frames, space, image, size>>
  <2>1. LoaderTypes'
    BY <1>1, <1>2, <1>3, <1>9 DEF LoaderTypes
  <2>2. Creation'
    BY <1>1, <1>2, <1>3, <1>4, <1>9, CreationKept DEF Making
  <2>3. Owned' /\ Loading'
    BY <1>9 DEF Owned, Loading, Making
  <2> QED
    BY <2>1, <2>2, <2>3 DEF LoaderIInv
<1> QED
  BY <1>8, <1>9 DEF MapStack

\* The buffer of the file is all that has to be given back once the task is there.
LEMMA GiveUpOK ==
  ASSUME LoaderIInv, pc \in {"open", "read", "load", "segment", "page"}, Fails,
         heap' = HeapWithout({"buf"}) \/ (UNCHANGED heap /\ pc = "open"), pml4_task' = KernelTask,
         UNCHANGED <<taskVars, frames, heapRoom, frameRoom, space>>, image' \in Images,
           size' \in Nat
  PROVE  LoaderIInv'
<1>1. LoaderTypes /\ Creation /\ Owned /\ Loading
  BY DEF LoaderIInv
<1>2. Slots' = Slots /\ UNCHANGED <<max_tasks, task_table, next_task_id, utask>> /\ pc \in Making
  BY DEF Slots, taskVars, Making
<1>3. /\ IsFiniteSet(heap) /\ Cardinality(heap) <= heapRoom /\ heapRoom \in Nat
      /\ KernelTask \in Slots
  BY <1>1, KernelSlot DEF LoaderTypes
<1>4. IsFiniteSet(heap') /\ Cardinality(heap') <= heapRoom
  <2>1. CASE heap' = HeapWithout({"buf"})
    BY <1>3, <2>1, Room DEF HeapWithout
  <2>2. CASE UNCHANGED heap
    BY <1>3, <2>2
  <2> QED
    BY <2>1, <2>2
<1>5. LoaderTypes'
  BY <1>1, <1>2, <1>3, <1>4 DEF LoaderTypes, Fails, Making
<1>6. /\ heap \subseteq Slots \X {"caps", "kstack", "buf"}
      /\ \A x \in heap : task_table[x[1]].state = "READY"
      /\ \A x \in heap : x[2] \in IF x[1] = utask THEN HeapAt(pc) ELSE {"caps", "kstack"}
      /\ \A x \in frames : x[1] \in Slots /\ task_table[x[1]].state = "READY"
  BY <1>1, <1>2 DEF Owned
<1>7. \A x \in heap' : x \in heap /\ x[2] \in {"caps", "kstack"}
  <2> TAKE x \in heap'
  <2>1. x \in heap /\ x = <<x[1], x[2]>>
    BY <1>6 DEF HeapWithout
  <2>2. CASE heap' = HeapWithout({"buf"})
    <3>1. x # <<utask, "buf">>
      BY <2>2 DEF HeapWithout
    <3>2. HeapAt(pc) \subseteq {"caps", "kstack", "buf"}
      BY DEF HeapAt
    <3>3. x[1] = utask => x[2] # "buf"
      BY <2>1, <3>1
    <3>4. x[1] = utask => x[2] \in {"caps", "kstack"}
      BY <1>6, <2>1, <3>2, <3>3
    <3> QED
      BY <1>6, <2>1, <3>4
  <2>3. CASE pc = "open"
    BY <1>6, <2>1, <2>3 DEF HeapAt
  <2> QED
    BY <2>2, <2>3
<1>8. heap' \subseteq Slots \X {"caps", "kstack"}
  BY <1>6, <1>7
<1>9. \A x \in heap' : task_table'[x[1]].state = "READY"
  BY <1>2, <1>6, <1>7
<1>10. pc # "kernel" /\ task_table[KernelTask].state = "READY"
  BY <1>1 DEF Creation
<1> QED
  BY <1>1, <1>2, <1>5, <1>6, <1>8, <1>9, <1>10, FailOK

\* The image is opened, or is not there.
LEMMA OpenOK == ASSUME ImagesLaidOut, LoaderIInv, OpenFails \/ OpenFile PROVE LoaderIInv'
<1>1. LoaderTypes /\ Creation /\ Owned /\ Loading
  BY DEF LoaderIInv
<1>2. pc = "open" /\ pml4_task = KernelTask /\ image \in Images /\ size \in Nat /\ from = "usb"
  BY <1>1 DEF OpenFails, OpenFile, Loading, LoaderTypes
<1>3. CASE OpenFails
  BY <1>2, <1>3, GiveUpOK DEF OpenFails, loadVars
<1>4. CASE OpenFile
  <2>1. /\ image' \in Images
        /\ UNCHANGED <<taskVars, frames, heapRoom, frameRoom, size, seg, page, space, pml4_task,
             queue>>
    BY <1>4 DEF OpenFile, Images
  <2>2. CASE Fails /\ UNCHANGED heap
    BY <1>2, <2>1, <2>2, GiveUpOK
  <2>3. CASE HeapLeft /\ heap' = heap \cup {<<utask, "buf">>} /\ pc' = "read" /\ UNCHANGED from
    <3>1. Slots' = Slots /\ UNCHANGED <<max_tasks, task_table, next_task_id, utask>>
      BY <2>1 DEF Slots, taskVars
    <3>2. IsFiniteSet(heap') /\ Cardinality(heap') <= heapRoom
      BY <1>1, <2>3, Room DEF LoaderTypes, HeapLeft
    <3>3. LoaderTypes'
      BY <1>1, <2>1, <2>3, <3>1, <3>2 DEF LoaderTypes, Making
    <3>4. pc \in Making /\ pc' \in Making
      BY <1>2, <2>3 DEF Making
    <3>5. Creation'
      <4>1. KernelTask \in Slots
        BY <1>1, KernelSlot DEF LoaderTypes
      <4> QED
        BY <1>1, <2>3, <3>1, <3>4, <4>1, CreationKept
    <3>6. utask \in Slots /\ task_table[utask].state = "READY"
      BY <1>1, <3>4 DEF Creation
    <3>7. Owned'
      <4>1. /\ heap \subseteq Slots \X {"caps", "kstack", "buf"}
            /\ \A x \in heap : task_table[x[1]].state = "READY" /\ x[2] \in {"caps", "kstack"}
            /\ \A x \in frames : x[1] \in Slots /\ task_table[x[1]].state = "READY"
        BY <1>1, <1>2 DEF Owned, HeapAt
      <4>2. HeapAt(pc') = {"caps", "kstack", "buf"}
        BY <2>3 DEF HeapAt
      <4>3. \A x \in heap' : x \in heap \/ (x = <<utask, "buf">> /\ x[1] = utask /\ x[2] = "buf")
        BY <2>3
      <4>4. \A x \in heap' : /\ task_table[x[1]].state = "READY"
                             /\ x[2]
                                  \in IF x[1] = utask /\ pc' \in Making THEN HeapAt(pc') ELSE {"caps", "kstack"}
        BY <3>4, <3>6, <4>1, <4>2, <4>3
      <4>5. heap' \subseteq Slots \X {"caps", "kstack", "buf"}
        BY <2>3, <3>6, <4>1
      <4> QED
        BY <2>1, <2>3, <3>1, <4>1, <4>4, <4>5 DEF Owned
    <3>8. Loading'
      BY <1>2, <2>1, <2>3 DEF Loading
    <3> QED
      BY <3>3, <3>5, <3>7, <3>8 DEF LoaderIInv
  <2> QED
    BY <1>4, <2>2, <2>3 DEF OpenFile
<1> QED
  BY <1>3, <1>4

\* A step inside elf_load that leaves tasks, heap and frames alone.
LEMMA OwnedKept ==
  ASSUME Owned, pc \in {"read", "load", "segment", "page"},
           pc' \in {"read", "load", "segment", "page"},
         UNCHANGED <<heap, max_tasks, task_table, utask>>,
         \A x \in frames' : x \in frames \/ x[1] = utask, utask \in Slots,
           task_table[utask].state = "READY"
  PROVE  Owned'
<1>1. Slots' = Slots /\ HeapAt(pc') = HeapAt(pc) /\ pc \in Making /\ pc' \in Making
  BY DEF Slots, HeapAt, Making
<1>2. pc # "halted" /\ pc' # "halted" /\ pc' \notin {"caps", "kstack", "pml4"} /\ pc' # "stack"
  OBVIOUS
<1>3. \A x \in frames : x[1] \in Slots /\ task_table[x[1]].state = "READY"
  BY <1>2 DEF Owned
<1>4. \A x \in frames' : x[1] \in Slots /\ task_table[x[1]].state = "READY"
  BY <1>3
<1> QED
  BY <1>1, <1>2, <1>4 DEF Owned

\* The image is read.
LEMMA ReadFileOK == ASSUME ImagesLaidOut, LoaderIInv, ReadFile PROVE LoaderIInv'
<1>1. LoaderTypes /\ Creation /\ Owned /\ Loading
  BY DEF LoaderIInv
<1>2. /\ pc = "read"
      /\ UNCHANGED <<taskVars, frames, heapRoom, frameRoom, image, seg, page, space, pml4_task,
           queue>>
  BY DEF ReadFile
<1>3. pml4_task = KernelTask /\ image \in Images /\ size \in Nat /\ from = "usb"
  BY <1>1, <1>2 DEF Loading, LoaderTypes
<1>4. image.size \in Nat
  BY <1>3 DEF ImagesLaidOut, LaidOut, Images
<1>5. PICK got \in 0 .. image.size :
        \/ got > 0 /\ size' = got /\ pc' = "load" /\ UNCHANGED <<from, heap>>
        \/ got = 0 /\ heap' = HeapWithout({"buf"}) /\ Fails /\ UNCHANGED size
  BY DEF ReadFile
<1>6. CASE heap' = HeapWithout({"buf"}) /\ Fails /\ UNCHANGED size
  BY <1>2, <1>3, <1>6, GiveUpOK
<1>7. CASE got > 0 /\ size' = got /\ pc' = "load" /\ UNCHANGED <<from, heap>>
  <2>1. Slots' = Slots /\ UNCHANGED <<max_tasks, task_table, next_task_id, utask>>
    BY <1>2 DEF Slots, taskVars
  <2>2. size' \in Nat
    BY <1>4, <1>7
  <2>3. LoaderTypes'
    BY <1>1, <1>2, <1>7, <2>1, <2>2 DEF LoaderTypes, Making
  <2>4. pc \in Making /\ pc' \in Making /\ KernelTask \in Slots
    BY <1>1, <1>2, <1>7, KernelSlot DEF Making, LoaderTypes
  <2>5. Creation'
    BY <1>1, <1>7, <2>1, <2>4, CreationKept
  <2>6. utask \in Slots /\ task_table[utask].state = "READY"
    BY <1>1, <2>4 DEF Creation
  <2>7. Owned'
    BY <1>1, <1>2, <1>7, <2>1, <2>6, OwnedKept
  <2>8. Loading'
    BY <1>2, <1>3, <1>7 DEF Loading
  <2> QED
    BY <2>3, <2>5, <2>7, <2>8 DEF LoaderIInv
<1> QED
  BY <1>5, <1>6, <1>7

\* elf_load gives up: the tables are restored, the buffer freed.
LEMMA LoadFailsOK ==
  ASSUME LoaderIInv, pc \in {"load", "segment", "page"}, LoadFails
  PROVE  LoaderIInv'
<1>1. image \in Images /\ size \in Nat
  BY DEF LoaderIInv, LoaderTypes
<1>2. /\ pml4_task' = KernelTask /\ heap' = HeapWithout({"buf"}) /\ Fails
      /\ UNCHANGED <<taskVars, frames, heapRoom, frameRoom, loadVars, space, queue>>
  BY DEF LoadFails, OldPml4
<1>3. image' \in Images /\ size' \in Nat
  BY <1>1, <1>2 DEF loadVars
<1> QED
  BY <1>2, <1>3, GiveUpOK

\* A step of elf_load's loops that takes at most frames for utask.
LEMMA InsideOK ==
  ASSUME LoaderIInv, pc \in {"load", "segment", "page"}, pc' \in {"segment", "page"},
         UNCHANGED <<from, taskVars, heap, heapRoom, frameRoom, image, size, queue>>,
         IsFiniteSet(frames'), Cardinality(frames') <= frameRoom,
         \A x \in frames' : x \in frames \/ x[1] = utask,
         space' \in [Slots -> [Addrs -> Byte]], pml4_task' \in Slots,
         seg' \in Nat \ {0}, image.good,
         \A k \in 1 .. Len(Segs) : k < seg' => SegLoaded(k)',
         pc' = "page" => UnderWay'
  PROVE  LoaderIInv'
<1>1. LoaderTypes /\ Creation /\ Owned /\ Loading
  BY DEF LoaderIInv
<1>2. Slots' = Slots /\ UNCHANGED <<max_tasks, task_table, next_task_id, utask>>
  BY DEF Slots, taskVars
<1>3. pc \in Making /\ pc' \in Making /\ KernelTask \in Slots
  BY <1>1, KernelSlot DEF LoaderTypes, Making
<1>4. utask \in Slots /\ task_table[utask].state = "READY"
  BY <1>1, <1>3 DEF Creation
<1>5. LoaderTypes'
  BY <1>1, <1>2, <1>3 DEF LoaderTypes
<1>6. Creation'
  BY <1>1, <1>2, <1>3, CreationKept
<1>7. Owned'
  BY <1>1, <1>2, <1>4, OwnedKept
<1>8. /\ from = "embedded" => image = Embedded /\ task_table[utask].rip = Embedded.entry
      /\ pc' \notin {"open", "read", "sched", "done"}
  BY <1>1, <1>3 DEF Loading
<1>9. Loading'
  <2>1. Segs' = Segs
    BY DEF Segs
  <2> QED
    BY <1>2, <1>8, <2>1 DEF Loading
<1> QED
  BY <1>5, <1>6, <1>7, <1>9 DEF LoaderIInv

\* elf_load accepts the header.
LEMMA LoadBeginOK == ASSUME LoaderIInv, LoadBegin PROVE LoaderIInv'
<1>1. pc = "load"
  BY DEF LoadBegin
<1>2. CASE LoadFails
  BY <1>1, <1>2, LoadFailsOK
<1>3. CASE /\ image.good /\ pml4_task' = utask /\ seg' = 1 /\ pc' = "segment"
           /\ UNCHANGED <<from, taskVars, heap, frames, heapRoom, frameRoom, image, size,
                          page, space, queue>>
  <2>1. utask \in Slots
    BY <1>1 DEF LoaderIInv, Creation, Making
  <2>2. /\ IsFiniteSet(frames) /\ Cardinality(frames) <= frameRoom
        /\ space \in [Slots -> [Addrs -> Byte]]
    BY DEF LoaderIInv, LoaderTypes
  <2>3. \A k \in 1 .. Len(Segs) : ~(k < seg')
    BY <1>3
  <2> QED
    BY <1>1, <1>3, <2>1, <2>2, <2>3, InsideOK
<1>4. CASE /\ pc' = "halted"
           /\ UNCHANGED <<from, taskVars, heap, frames, heapRoom, frameRoom, loadVars, space,
                          pml4_task, queue>>
  <2>1. Slots' = Slots /\ UNCHANGED <<max_tasks, task_table, next_task_id, utask, image, size>>
    BY <1>4 DEF Slots, taskVars, loadVars
  <2>2. LoaderTypes /\ Creation
    BY DEF LoaderIInv
  <2>3. LoaderTypes'
    BY <1>4, <2>1, <2>2 DEF LoaderTypes
  <2>4. pc \in Making /\ KernelTask \in Slots
    BY <1>1, <2>2, KernelSlot DEF Making, LoaderTypes
  <2>5. Creation'
    BY <1>4, <2>1, <2>2, <2>4, CreationKept
  <2>6. Owned' /\ Loading'
    BY <1>4 DEF Owned, Loading, Making
  <2> QED
    BY <2>3, <2>5, <2>6 DEF LoaderIInv
<1> QED
  BY <1>2, <1>3, <1>4 DEF LoadBegin

\* What elf_load knows of the segment at hand.
LEMMA SegmentFacts ==
  ASSUME ImagesLaidOut, LoaderIInv
  PROVE  /\ LaidOut(image) /\ Len(Segs) \in Nat /\ DOMAIN Segs = 1 .. Len(Segs)
         /\ \A k \in DOMAIN Segs :
              /\ Segs[k].vaddr \in Nat /\ Segs[k].memsz \in Nat
              /\ Segs[k].filesz \in Nat /\ Segs[k].offset \in Nat
<1>1. LaidOut(image)
  BY DEF ImagesLaidOut, LoaderIInv, LoaderTypes, Images
<1>2. Segs \in Seq(SegType)
  BY <1>1 DEF LaidOut, Segs
<1>3. Len(Segs) \in Nat /\ DOMAIN Segs = 1 .. Len(Segs)
      /\ \A k \in DOMAIN Segs : Segs[k] \in SegType
  BY <1>2
<1>4. 0 .. WORD - 1 \subseteq Nat
  BY LoaderAssumption
<1> QED
  BY <1>1, <1>3, <1>4 DEF SegType

\* The loops are between two segments.
LEMMA SegmentAt ==
  ASSUME LoaderIInv, pc \in {"segment", "page"}
  PROVE  /\ seg \in Nat \ {0} /\ image.good /\ utask \in Slots
         /\ \A k \in 1 .. Len(Segs) : k < seg => SegLoaded(k)
         /\ IsFiniteSet(frames) /\ Cardinality(frames) <= frameRoom /\ frameRoom \in Nat
         /\ space \in [Slots -> [Addrs -> Byte]] /\ pml4_task \in Slots /\ size \in Nat
         /\ pc = "page" => UnderWay
BY DEF LoaderIInv, Loading, LoaderTypes, Creation, Making

\* A segment that is not loaded.
LEMMA SegmentSkipOK == ASSUME ImagesLaidOut, LoaderIInv, SegmentSkip PROVE LoaderIInv'
<1>1. /\ pc = "segment" /\ seg <= Len(Segs) /\ ~Segment.load /\ seg' = seg + 1
      /\ UNCHANGED <<pc, from, taskVars, heap, frames, heapRoom, frameRoom, image, size,
                     page, space, pml4_task, queue>>
  BY DEF SegmentSkip
<1>2. /\ seg \in Nat \ {0} /\ image.good /\ utask \in Slots
      /\ \A k \in 1 .. Len(Segs) : k < seg => SegLoaded(k)
      /\ IsFiniteSet(frames) /\ Cardinality(frames) <= frameRoom
      /\ space \in [Slots -> [Addrs -> Byte]] /\ pml4_task \in Slots
  BY <1>1, SegmentAt
<1>3. SegLoaded(seg)
  BY <1>1 DEF SegLoaded, Within, Segment
<1>4. utask' = utask
  BY <1>1 DEF taskVars
<1>5. \A k \in 1 .. Len(Segs) : SegLoaded(k)' <=> SegLoaded(k)
  BY <1>1, <1>4 DEF SegLoaded, Loadable, Segs, Right
<1>6. \A k \in 1 .. Len(Segs) : k < seg' => k < seg \/ k = seg
  BY <1>1, <1>2
<1>7. \A k \in 1 .. Len(Segs) : k < seg' => SegLoaded(k)'
  BY <1>2, <1>3, <1>5, <1>6
<1>8. seg' \in Nat \ {0} /\ pc' = "segment"
  BY <1>1, <1>2
<1> QED
  BY <1>1, <1>2, <1>7, <1>8, InsideOK

\* A segment that is loaded, or is cut short.
LEMMA SegmentBeginOK == ASSUME ImagesLaidOut, LoaderIInv, SegmentBegin PROVE LoaderIInv'
<1>1. pc = "segment" /\ seg <= Len(Segs) /\ Segment.load
  BY DEF SegmentBegin
<1>2. /\ seg \in Nat \ {0} /\ image.good /\ utask \in Slots
      /\ \A k \in 1 .. Len(Segs) : k < seg => SegLoaded(k)
      /\ IsFiniteSet(frames) /\ Cardinality(frames) <= frameRoom
      /\ space \in [Slots -> [Addrs -> Byte]] /\ pml4_task \in Slots
  BY <1>1, SegmentAt
<1>3. CASE LoadFails
  BY <1>1, <1>3, LoadFailsOK
<1>4. CASE /\ ~Truncated /\ page' = Segment.vaddr \div PAGE /\ pc' = "page"
           /\ UNCHANGED <<from, taskVars, heap, frames, heapRoom, frameRoom, image, size,
                          seg, space, pml4_task, queue>>
  <2>1. Len(Segs) \in Nat /\ Segment.vaddr \in Nat /\ Segment.memsz \in Nat
    BY <1>1, <1>2, SegmentFacts DEF Segment
  <2>2. utask' = utask /\ Segment' = Segment
    BY <1>4 DEF taskVars, Segment, Segs
  <2>3. \A k \in 1 .. Len(Segs) : SegLoaded(k)' <=> SegLoaded(k)
    BY <1>4, <2>2 DEF SegLoaded, Loadable, Segs, Right
  <2>4. page' \in Nat /\ page' >= Segment.vaddr \div PAGE
    BY <1>4, <2>1, LoaderAssumption, DivFacts
  <2>5. \A a \in Addrs : Within(a, Segment) => ~(a \div PAGE < page')
    <3> TAKE a \in Addrs
    <3>1. SUFFICES ASSUME Within(a, Segment) PROVE ~(a \div PAGE < page')
      OBVIOUS
    <3>2. a \in Nat /\ Segment.vaddr <= a
      BY <2>1, <3>1 DEF Within, Addrs
    <3>3. Segment.vaddr \div PAGE <= a \div PAGE /\ a \div PAGE \in Nat
      BY <2>1, <3>2, LoaderAssumption, DivMono, DivFacts
    <3> QED
      BY <1>4, <2>4, <3>3
  <2>6. UnderWay'
    <3>1. ~Truncated'
      BY <1>4, <2>2 DEF Truncated
    <3> QED
      BY <1>1, <1>4, <2>2, <2>4, <2>5, <3>1 DEF UnderWay, Loadable, Segs
  <2> QED
    BY <1>1, <1>2, <1>4, <2>3, <2>6, InsideOK
<1> QED
  BY <1>3, <1>4 DEF SegmentBegin

\* What the loader computes of a segment that does not wrap.
LEMMA StraightFacts ==
  ASSUME NEW s, Straight(s), s.vaddr \in Nat, s.memsz \in Nat, s.filesz \in Nat, s.offset \in Nat
  PROVE  /\ EndOf(s) = (s.vaddr + s.memsz + PAGE - 1) \div PAGE
         /\ (s.vaddr + s.filesz) % WORD = s.vaddr + s.filesz
         /\ (s.offset + s.filesz) % WORD = s.offset + s.filesz
         /\ \A d \in Nat : d < s.filesz => (s.offset + d) % WORD = s.offset + d
<1>1. PAGE \in Nat /\ PAGE > 0 /\ WORD \in Nat /\ WORD > 0
  BY LoaderAssumption
<1>2. \A n \in 0 .. WORD - 1 : n % WORD = n
  BY <1>1
<1>3. s.vaddr + s.memsz + PAGE - 1 \in 0 .. WORD - 1
  BY <1>1 DEF Straight
<1>4. s.vaddr + s.filesz \in 0 .. WORD - 1 /\ s.offset + s.filesz \in 0 .. WORD - 1
  BY <1>1 DEF Straight
<1>5. \A d \in Nat : d < s.filesz => s.offset + d \in 0 .. WORD - 1
  BY <1>1 DEF Straight
<1>6. EndOf(s) = (s.vaddr + s.memsz + PAGE - 1) \div PAGE
  BY <1>2, <1>3 DEF EndOf
<1> QED
  BY <1>2, <1>4, <1>5, <1>6

\* A byte of a segment lies on one of the segment's pages.
LEMMA WithinPages ==
  ASSUME NEW s, s.vaddr \in Nat, s.memsz \in Nat, s.filesz \in Nat, s.offset \in Nat,
         Straight(s), NEW a \in Nat, Within(a, s)
  PROVE  a \div PAGE \in PagesOf(s)
<1>1. PAGE \in Nat /\ PAGE > 0
  BY LoaderAssumption
<1> DEFINE v == s.vaddr
           e == s.vaddr + s.memsz + PAGE - 1
<1>2. v \in Nat /\ e \in Nat /\ v <= a /\ a + PAGE <= e /\ a + PAGE \in Nat
  BY <1>1 DEF Within
<1> DEFINE x == a \div PAGE
           y == e \div PAGE
           z == v \div PAGE
           u == (a + PAGE) \div PAGE
<1>3. PagesOf(s) = z .. y - 1
  BY StraightFacts DEF PagesOf
<1> HIDE DEF v, e
<1>4. x \in Nat /\ y \in Nat /\ z \in Nat /\ u \in Nat
  BY <1>1, <1>2, DivFacts
<1>5. z <= x /\ u <= y
  BY <1>1, <1>2, DivMono
<1>6. u = x + 1
  BY <1>1
<1> HIDE DEF x, y, z, u
<1>7. x \in z .. y - 1
  BY <1>4, <1>5, <1>6
<1> QED
  BY <1>3, <1>7 DEF x

\* The bytes of a page of the segment are what Right asks for.
LEMMA FilledRight ==
  ASSUME NEW a \in Nat, Within(a, Segment), ~Truncated, Straight(Segment), size \in Nat,
         Segment.vaddr \in Nat, Segment.memsz \in Nat, Segment.filesz \in Nat,
           Segment.offset \in Nat
  PROVE  Filled(a) = IF a < Segment.vaddr + Segment.filesz THEN Segment.offset + (a - Segment.vaddr)
                     ELSE Zero
<1> DEFINE d == a - Segment.vaddr
<1>1. a >= Segment.vaddr /\ d \in Nat
  BY DEF Within
<1>2. Segment.offset + Segment.filesz <= size
  BY StraightFacts DEF Truncated
<1>3. InFile(a) <=> a < Segment.vaddr + Segment.filesz
  BY <1>1, StraightFacts DEF InFile
<1>4. ASSUME a < Segment.vaddr + Segment.filesz
      PROVE  OffsetOf(a) = Segment.offset + d /\ OffsetOf(a) < size
  <2>1. d < Segment.filesz
    BY <1>1, <1>4
  <2>2. (Segment.offset + d) % WORD = Segment.offset + d
    BY <1>1, <2>1, StraightFacts
  <2> QED
    BY <1>1, <1>2, <2>1, <2>2 DEF OffsetOf
<1> QED
  BY <1>3, <1>4 DEF Filled

\* What a page of a segment is filled with.
LEMMA FilledByte ==
  ASSUME NEW a \in Nat, Segment.vaddr \in Nat, Segment.offset \in Nat
  PROVE  Filled(a) \in Byte
<1>1. WORD \in Nat /\ WORD > 0
  BY LoaderAssumption
<1>2. Segment.offset + (a - Segment.vaddr) \in Int
  OBVIOUS
<1>3. OffsetOf(a) \in Nat
  BY <1>1, <1>2 DEF OffsetOf
<1> QED
  BY <1>3 DEF Filled, Byte

\* The end of a segment's pages is a number.
LEMMA EndNat ==
  ASSUME NEW s, s.vaddr \in Nat, s.memsz \in Nat
  PROVE  EndOf(s) \in Nat
<1>1. PAGE \in Nat /\ PAGE > 0 /\ WORD \in Nat /\ WORD > 0
  BY LoaderAssumption
<1>2. s.vaddr + s.memsz + PAGE - 1 \in Nat
  BY <1>1
<1>3. (s.vaddr + s.memsz + PAGE - 1) % WORD \in Nat
  BY <1>1, <1>2
<1> QED
  BY <1>1, <1>3, DivFacts DEF EndOf

\* A page of a segment.
LEMMA LoadPageOK == ASSUME ImagesLaidOut, LoaderIInv, LoadPage PROVE LoaderIInv'
<1> DEFINE data == frames \cup {<<utask, "page", seg, page>>}
<1>1. /\ pc = "page" /\ page < EndPage
  BY DEF LoadPage
<1>2. /\ seg \in Nat \ {0} /\ image.good /\ utask \in Slots
      /\ \A k \in 1 .. Len(Segs) : k < seg => SegLoaded(k)
      /\ IsFiniteSet(frames) /\ Cardinality(frames) <= frameRoom /\ frameRoom \in Nat
      /\ space \in [Slots -> [Addrs -> Byte]] /\ pml4_task \in Slots /\ size \in Nat
      /\ UnderWay
  BY <1>1, SegmentAt
<1>3. LoaderTypes /\ Creation /\ Owned /\ Loading
  BY DEF LoaderIInv
<1>4. CASE LoadFails
  BY <1>1, <1>4, LoadFailsOK
<1>5. CASE /\ FramesLeft /\ frames' = data /\ pc' = "halted"
           /\ UNCHANGED <<from, taskVars, heap, heapRoom, frameRoom, loadVars, space,
                          pml4_task, queue>>
  <2>1. Slots' = Slots /\ UNCHANGED <<max_tasks, task_table, next_task_id, utask, image, size>>
    BY <1>5 DEF Slots, taskVars, loadVars
  <2>2. IsFiniteSet(frames') /\ Cardinality(frames') <= frameRoom
    BY <1>2, <1>5, Room DEF FramesLeft
  <2>3. LoaderTypes'
    BY <1>3, <1>5, <2>1, <2>2 DEF LoaderTypes
  <2>4. pc \in Making /\ KernelTask \in Slots
    BY <1>1, <1>3, KernelSlot DEF Making, LoaderTypes
  <2>5. Creation'
    BY <1>3, <1>5, <2>1, <2>4, CreationKept
  <2>6. Owned' /\ Loading'
    BY <1>5 DEF Owned, Loading, Making
  <2> QED
    BY <2>3, <2>5, <2>6 DEF LoaderIInv
<1>6. CASE /\ frames' \in {data, data \cup {<<utask, "table", seg, page>>}}
           /\ Cardinality(frames') <= frameRoom
           /\ space' = [space EXCEPT ![utask] = [a \in Addrs |->
                          IF a \div PAGE = page THEN Filled(a) ELSE @[a]]]
           /\ page' = page + 1
           /\ UNCHANGED <<pc, from, taskVars, heap, heapRoom, frameRoom, image, size, seg,
                          pml4_task, queue>>
  <2>1. IsFiniteSet(data) /\ IsFiniteSet(data \cup {<<utask, "table", seg, page>>})
    BY <1>2, FS_AddElement
  <2>2. IsFiniteSet(frames') /\ \A x \in frames' : x \in frames \/ x[1] = utask
    <3>1. CASE frames' = data
      BY <2>1, <3>1
    <3>2. CASE frames' = data \cup {<<utask, "table", seg, page>>}
      BY <2>1, <3>2
    <3> QED
      BY <1>6, <3>1, <3>2, Zenon
  <2>3. /\ LaidOut(image) /\ Len(Segs) \in Nat /\ DOMAIN Segs = 1 .. Len(Segs)
        /\ \A k \in DOMAIN Segs :
             /\ Segs[k].vaddr \in Nat /\ Segs[k].memsz \in Nat
             /\ Segs[k].filesz \in Nat /\ Segs[k].offset \in Nat
    BY <1>2, SegmentFacts
  <2>4. /\ seg \in DOMAIN Segs /\ Segment.load /\ ~Truncated /\ page \in Nat
        /\ page >= Segment.vaddr \div PAGE
    BY <1>2, <2>3 DEF UnderWay
  <2>5. /\ Segment.vaddr \in Nat /\ Segment.memsz \in Nat
        /\ Segment.filesz \in Nat /\ Segment.offset \in Nat
    BY <2>3, <2>4 DEF Segment
  <2>6. utask' = utask /\ Segs' = Segs /\ Segment' = Segment /\ page' \in Nat
    BY <1>6, <2>4 DEF taskVars, Segs, Segment
  <2>7. Addrs \subseteq Nat
    BY LoaderAssumption DEF Addrs
  <2> DEFINE new == [a \in Addrs |-> IF a \div PAGE = page THEN Filled(a) ELSE space[utask][a]]
  <2>8. space' = [space EXCEPT ![utask] = new]
    BY <1>6
  <2>9. new \in [Addrs -> Byte]
    BY <1>2, <2>5, <2>7, FilledByte
  <2>10. \A a \in Addrs : new[a] = IF a \div PAGE = page THEN Filled(a) ELSE space[utask][a]
    OBVIOUS
  <2> HIDE DEF new
  <2>11. space' \in [Slots -> [Addrs -> Byte]] /\ space'[utask] = new
    BY <1>2, <2>8, <2>9
  <2>12. page \in PagesOf(Segment)
    <3>1. EndOf(Segment) \in Nat /\ Segment.vaddr \div PAGE \in Nat
      BY <2>5, EndNat, LoaderAssumption, DivFacts
    <3> QED
      BY <1>1, <2>4, <3>1 DEF EndPage, PagesOf
  <2>13. ASSUME NEW k \in 1 .. Len(Segs), k < seg PROVE SegLoaded(k)'
    <3> DEFINE s == Segs[k]
    <3>1. ASSUME NEW a \in Addrs, Loadable(s), Within(a, s) PROVE Right(a, s)'
      <4>1. a \div PAGE \in PagesOf(s)
        BY <2>3, <2>7, <3>1, WithinPages DEF Loadable
      <4>2. PagesOf(s) \cap PagesOf(Segment) = {}
        <5>1. k # seg /\ s.load /\ k \in DOMAIN Segs
          BY <1>2, <2>3, <2>13, <3>1 DEF Within
        <5>2. Segs = image.segs
          BY <3>1 DEF Loadable, Segs
        <5> QED
          BY <2>3, <2>4, <5>1, <5>2 DEF LaidOut, Segment
      <4>3. a \div PAGE # page
        BY <2>12, <4>1, <4>2
      <4>4. space'[utask'][a] = space[utask][a]
        BY <2>6, <2>10, <2>11, <4>3
      <4>5. Right(a, s)
        BY <1>2, <2>13, <3>1 DEF SegLoaded
      <4> QED
        BY <4>4, <4>5, <2>6 DEF Right
    <3>2. image' = image /\ size' = size
      BY <1>6
    <3> QED
      BY <2>6, <3>1, <3>2 DEF SegLoaded, Loadable
  <2>14. UnderWay'
    <3>1. ~Truncated'
      BY <1>6, <2>4, <2>6 DEF Truncated
    <3>2. page' >= Segment.vaddr \div PAGE
      <4>1. Segment.vaddr \div PAGE \in Nat
        BY <2>5, LoaderAssumption, DivFacts
      <4> QED
        BY <1>6, <2>4, <4>1
    <3>3. ASSUME NEW a \in Addrs, Loadable(Segment), Within(a, Segment), a \div PAGE < page'
          PROVE  Right(a, Segment)'
      <4>1. a \div PAGE \in Nat /\ a \in Nat
        BY <2>7, LoaderAssumption, DivFacts
      <4>2. CASE a \div PAGE = page
        <5>1. space'[utask'][a] = Filled(a)
          BY <2>6, <2>10, <2>11, <4>2
        <5>2. Filled(a) = IF a < Segment.vaddr + Segment.filesz
                          THEN Segment.offset + (a - Segment.vaddr) ELSE Zero
          BY <1>2, <2>4, <2>5, <3>3, <4>1, FilledRight DEF Loadable
        <5> QED
          BY <2>6, <5>1, <5>2 DEF Right
      <4>3. CASE a \div PAGE # page
        <5>1. a \div PAGE < page
          BY <1>6, <2>4, <3>3, <4>1, <4>3
        <5>2. Right(a, Segment)
          BY <1>2, <3>3, <5>1 DEF UnderWay
        <5>3. space'[utask'][a] = space[utask][a]
          BY <2>6, <2>10, <2>11, <4>3
        <5> QED
          BY <2>6, <5>2, <5>3 DEF Right
      <4> QED
        BY <4>2, <4>3
    <3> QED
      BY <1>2, <1>6, <2>4, <2>6, <3>1, <3>2, <3>3 DEF UnderWay, Loadable
  <2>15. seg' \in Nat \ {0} /\ pc' = "page" /\ seg' = seg
    BY <1>1, <1>2, <1>6
  <2> QED
    BY <1>1, <1>2, <1>6, <2>2, <2>11, <2>13, <2>14, <2>15, InsideOK
<1> QED
  BY <1>4, <1>5, <1>6 DEF LoadPage

\* The end of a segment.
LEMMA SegmentEndOK == ASSUME ImagesLaidOut, LoaderIInv, SegmentEnd PROVE LoaderIInv'
<1>1. /\ pc = "page" /\ page >= EndPage /\ seg' = seg + 1 /\ pc' = "segment"
      /\ UNCHANGED <<from, taskVars, heap, frames, heapRoom, frameRoom, image, size, page,
                     space, pml4_task, queue>>
  BY DEF SegmentEnd
<1>2. /\ seg \in Nat \ {0} /\ image.good /\ utask \in Slots
      /\ \A k \in 1 .. Len(Segs) : k < seg => SegLoaded(k)
      /\ IsFiniteSet(frames) /\ Cardinality(frames) <= frameRoom
      /\ space \in [Slots -> [Addrs -> Byte]] /\ pml4_task \in Slots /\ UnderWay
  BY <1>1, SegmentAt
<1>3. SegLoaded(seg)
  <2>1. ASSUME NEW a \in Addrs, Loadable(Segment), Within(a, Segment) PROVE Right(a, Segment)
    <3>1. /\ Segment.vaddr \in Nat /\ Segment.memsz \in Nat /\ Len(Segs) \in Nat
          /\ Segment.filesz \in Nat /\ Segment.offset \in Nat
      BY <1>2, SegmentFacts DEF Segment, UnderWay
    <3>2. a \in Nat /\ a \div PAGE \in Nat
      BY LoaderAssumption, DivFacts DEF Addrs
    <3>3. a \div PAGE \in PagesOf(Segment)
      BY <2>1, <3>1, <3>2, WithinPages DEF Loadable
    <3>4. EndPage \in Nat
      BY <3>1, EndNat DEF EndPage
    <3>5. Segment.vaddr \div PAGE \in Nat
      BY <3>1, LoaderAssumption, DivFacts
    <3>6. PagesOf(Segment) = Segment.vaddr \div PAGE .. EndPage - 1
      BY DEF PagesOf, EndPage
    <3>7. a \div PAGE < page
      BY <1>1, <1>2, <3>2, <3>3, <3>4, <3>5, <3>6 DEF UnderWay
    <3> QED
      BY <1>2, <2>1, <3>7 DEF UnderWay
  <2> QED
    BY <2>1 DEF SegLoaded, Segment
<1>4. utask' = utask
  BY <1>1 DEF taskVars
<1>5. \A k \in 1 .. Len(Segs) : SegLoaded(k)' <=> SegLoaded(k)
  BY <1>1, <1>4 DEF SegLoaded, Loadable, Segs, Right
<1>6. \A k \in 1 .. Len(Segs) : k < seg' => k < seg \/ k = seg
  BY <1>1, <1>2
<1>7. \A k \in 1 .. Len(Segs) : k < seg' => SegLoaded(k)'
  BY <1>2, <1>3, <1>5, <1>6
<1>8. seg' \in Nat \ {0}
  BY <1>1, <1>2
<1> QED
  BY <1>1, <1>2, <1>7, <1>8, InsideOK

\* The end of the image.
LEMMA LoadEndOK == ASSUME ImagesLaidOut, LoaderIInv, LoadEnd PROVE LoaderIInv'
<1>1. LoaderTypes /\ Creation /\ Owned /\ Loading
  BY DEF LoaderIInv
<1>2. /\ pc = "segment" /\ seg > Len(Segs) /\ pml4_task' = KernelTask
      /\ heap' = HeapWithout({"buf"}) /\ task_table' = Patched /\ pc' = "sched"
      /\ UNCHANGED <<from, max_tasks, next_task_id, utask, frames, heapRoom, frameRoom, loadVars,
                     space, queue>>
  BY DEF LoadEnd, OldPml4
<1>3. Slots' = Slots /\ UNCHANGED <<image, size, seg, page>>
  BY <1>2 DEF Slots, loadVars
<1>4. /\ IsFiniteSet(heap) /\ Cardinality(heap) <= heapRoom /\ heapRoom \in Nat
      /\ KernelTask \in Slots /\ task_table \in [Slots -> TaskType] /\ image \in Images
      /\ from \in {"usb", "embedded"}
  BY <1>1, KernelSlot DEF LoaderTypes
<1>5. pc \in Making /\ pc' \in Making
  BY <1>2 DEF Making
<1>6. utask \in Slots /\ task_table[utask].state = "READY"
  BY <1>1, <1>5 DEF Creation
<1>7. IsFiniteSet(heap') /\ Cardinality(heap') <= heapRoom
  BY <1>2, <1>4, Room DEF HeapWithout
<1>8. /\ seg \in Nat \ {0} /\ image.good /\ \A k \in 1 .. Len(Segs) : k < seg => SegLoaded(k)
      /\ from = "embedded" => image = Embedded /\ task_table[utask].rip = Embedded.entry
  BY <1>1, <1>2, <1>5 DEF Loading
<1> DEFINE rip == IF from = "usb" THEN image.entry ELSE task_table[utask].rip
<1>9. rip = image.entry /\ rip \in Rips
  BY <1>4, <1>8 DEF Rips
<1>10. task_table' = [task_table EXCEPT ![utask].rip = rip]
  BY <1>2 DEF Patched
<1> HIDE DEF rip
<1>11. /\ task_table' \in [Slots -> TaskType] /\ task_table'[utask].rip = rip
       /\ \A t \in Slots : task_table'[t].state = task_table[t].state
  BY <1>4, <1>6, <1>9, <1>10 DEF TaskType
<1>12. LoaderTypes'
  BY <1>1, <1>2, <1>3, <1>4, <1>5, <1>7, <1>11 DEF LoaderTypes
<1>13. Creation'
  BY <1>1, <1>2, <1>3, <1>4, <1>5, <1>11, CreationKept
<1>14. /\ heap \subseteq Slots \X {"caps", "kstack", "buf"}
       /\ \A x \in heap : task_table[x[1]].state = "READY"
       /\ \A x \in heap : x[2] \in IF x[1] = utask THEN HeapAt(pc) ELSE {"caps", "kstack"}
       /\ \A x \in frames : x[1] \in Slots /\ task_table[x[1]].state = "READY"
  BY <1>1, <1>2, <1>5 DEF Owned
<1>15. \A x \in heap' : x \in heap /\ x[1] \in Slots /\ x[2] \in {"caps", "kstack"}
  <2> TAKE x \in heap'
  <2>1. x \in heap /\ x = <<x[1], x[2]>> /\ x # <<utask, "buf">>
    BY <1>2, <1>14 DEF HeapWithout
  <2>2. x[1] \in Slots /\ x[2] \in {"caps", "kstack", "buf"}
    BY <1>14, <2>1
  <2>3. x[1] = utask => x[2] # "buf"
    BY <2>1
  <2> QED
    BY <1>14, <2>1, <2>2, <2>3
<1>16. Owned'
  <2>1. heap' \subseteq Slots' \X {"caps", "kstack", "buf"}
    BY <1>2, <1>3, <1>14 DEF HeapWithout
  <2>2. HeapAt(pc') = {"caps", "kstack"} /\ pc' \notin {"halted", "caps", "kstack", "pml4", "stack"}
    BY <1>2 DEF HeapAt
  <2>3. \A x \in heap' : task_table'[x[1]].state = "READY"
    BY <1>11, <1>14, <1>15
  <2>4. \A x \in frames' : x[1] \in Slots' /\ task_table'[x[1]].state = "READY"
    BY <1>2, <1>3, <1>11, <1>14
  <2>5. \A x \in heap' : x[2]
          \in IF x[1] = utask' /\ pc' \in Making THEN HeapAt(pc') ELSE {"caps", "kstack"}
    BY <1>15, <2>2
  <2> QED
    BY <2>1, <2>2, <2>3, <2>4, <2>5 DEF Owned
<1>17. Loading'
  <2>1. Len(Segs) \in Nat
    BY <1>8, SegmentFacts
  <2>2. \A k \in 1 .. Len(Segs) : SegLoaded(k)
    BY <1>2, <1>8, <2>1
  <2>3. \A k \in 1 .. Len(Segs) : SegLoaded(k)'
    BY <1>2, <1>3, <2>2 DEF SegLoaded, Loadable, Segs, Right
  <2>4. Segs' = Segs
    BY <1>3 DEF Segs
  <2> QED
    BY <1>2, <1>3, <1>8, <1>9, <1>11, <2>3, <2>4 DEF Loading
<1> QED
  BY <1>12, <1>13, <1>16, <1>17 DEF LoaderIInv

\* The task is queued.
LEMMA ScheduleOK == ASSUME LoaderIInv, Schedule PROVE LoaderIInv'
<1>1. LoaderTypes /\ Creation /\ Owned /\ Loading
  BY DEF LoaderIInv
<1>2. /\ pc = "sched" /\ queue' = <<KernelTask, utask>> /\ pc' = "done"
      /\ UNCHANGED <<from, taskVars, heap, frames, heapRoom, frameRoom, loadVars, space, pml4_task>>
  BY DEF Schedule
<1>3. /\ Slots' = Slots
      /\ UNCHANGED <<max_tasks, task_table, next_task_id, utask, image, size, seg, page>>
  BY <1>2 DEF Slots, taskVars, loadVars
<1>4. pc \in Making /\ pc' \in Making /\ KernelTask \in Slots
  BY <1>1, <1>2, KernelSlot DEF Making, LoaderTypes
<1>5. LoaderTypes'
  BY <1>1, <1>2, <1>3, <1>4 DEF LoaderTypes
<1>6. Creation'
  BY <1>1, <1>2, <1>3, <1>4, CreationKept
<1>7. Owned'
  <2>1. HeapAt(pc') = HeapAt(pc) /\ pc # "halted" /\ pc' \notin {"caps", "kstack", "pml4", "stack"}
    BY <1>2 DEF HeapAt
  <2> QED
    BY <1>1, <1>2, <1>3, <1>4, <2>1 DEF Owned
<1>8. Loading'
  <2>1. \A k \in 1 .. Len(Segs) : SegLoaded(k)' <=> SegLoaded(k)
    BY <1>2, <1>3 DEF SegLoaded, Loadable, Segs, Right
  <2>2. Segs' = Segs
    BY <1>3 DEF Segs
  <2> QED
    BY <1>1, <1>2, <1>3, <1>4, <2>1, <2>2 DEF Loading
<1> QED
  BY <1>5, <1>6, <1>7, <1>8 DEF LoaderIInv

\* The allocations of task_create_user.
LEMMA CreateOK ==
  ASSUME LoaderIInv, CreateCaps \/ CreateKstack \/ CreatePml4 \/ CreateStack
  PROVE  LoaderIInv'
<1>1. CASE CreateCaps
  <2>1. pc = "caps" /\ HeapAt(pc) \subseteq {}
    BY <1>1 DEF CreateCaps, HeapAt
  <2>2. CASE TakeHeap("caps", "kstack")
    BY <2>1, <2>2, TakeHeapOK
  <2>3. CASE CreateFails({}, {})
    BY <2>1, <2>3, CreateFailsOK
  <2> QED
    BY <1>1, <2>2, <2>3 DEF CreateCaps
<1>2. CASE CreateKstack
  <2>1. pc = "kstack" /\ HeapAt(pc) \subseteq {"caps"}
    BY <1>2 DEF CreateKstack, HeapAt
  <2>2. CASE TakeHeap("kstack", "pml4")
    BY <2>1, <2>2, TakeHeapOK
  <2>3. CASE CreateFails({"caps"}, {})
    BY <2>1, <2>3, CreateFailsOK
  <2> QED
    BY <1>2, <2>2, <2>3 DEF CreateKstack
<1>3. CASE CreatePml4
  <2>1. pc = "pml4" /\ HeapAt(pc) \subseteq {"caps", "kstack"}
    BY <1>3 DEF CreatePml4, HeapAt
  <2>2. CASE TakeFrame("pml4", "stack")
    BY <2>1, <2>2, TakeFrameOK
  <2>3. CASE CreateFails({"caps", "kstack"}, {})
    BY <2>1, <2>3, CreateFailsOK
  <2> QED
    BY <1>3, <2>2, <2>3 DEF CreatePml4
<1>4. CASE CreateStack
  <2>1. pc = "stack" /\ HeapAt(pc) \subseteq {"caps", "kstack"}
    BY <1>4 DEF CreateStack, HeapAt
  <2>2. CASE TakeFrame("stack", "map")
    BY <2>1, <2>2, TakeFrameOK
  <2>3. CASE CreateFails({"caps", "kstack"}, {"pml4"})
    BY <2>1, <2>3, CreateFailsOK
  <2> QED
    BY <1>4, <2>2, <2>3 DEF CreateStack
<1> QED
  BY <1>1, <1>2, <1>3, <1>4

\* A step that changes nothing.
LEMMA LoaderStutter == ASSUME LoaderIInv, UNCHANGED loaderVars PROVE LoaderIInv'
<1>1. UNCHANGED <<max_tasks, pc, from, task_table, next_task_id, utask, heap, frames, heapRoom,
                  frameRoom, image, size, seg, page, space, pml4_task, queue>>
  BY DEF loaderVars
<1>2. Slots' = Slots
  BY <1>1 DEF Slots
<1>3. LoaderTypes'
  BY <1>1, <1>2 DEF LoaderIInv, LoaderTypes
<1>4. Creation'
  BY <1>1, <1>2 DEF LoaderIInv, Creation
<1>5. Owned'
  BY <1>1, <1>2 DEF LoaderIInv, Owned
<1>6. \A k \in 1 .. Len(Segs) : SegLoaded(k)' <=> SegLoaded(k)
  BY <1>1 DEF SegLoaded, Loadable, Segs, Right
<1>7. UnderWay' <=> UnderWay
  BY <1>1 DEF UnderWay, Loadable, Right, Segment, Segs, Truncated
<1>8. Loading'
  <2>1. Segs' = Segs
    BY <1>1 DEF Segs
  <2> QED
    BY <1>1, <1>6, <1>7, <2>1 DEF LoaderIInv, Loading
<1> QED
  BY <1>3, <1>4, <1>5, <1>8 DEF LoaderIInv

\* Every step keeps the invariant.
LEMMA LoaderStep == ASSUME ImagesLaidOut, LoaderIInv, [LoaderNext]_loaderVars PROVE LoaderIInv'
<1>1. CASE CreateKernel
  BY <1>1, CreateKernelOK
<1>2. CASE CreateSlot \/ NoSlot
  BY <1>2, CreateSlotOK, NoSlotOK
<1>3. CASE CreateCaps \/ CreateKstack \/ CreatePml4 \/ CreateStack
  BY <1>3, CreateOK
<1>4. CASE MapStack
  BY <1>4, MapStackOK
<1>5. CASE OpenFails \/ OpenFile
  BY <1>5, OpenOK
<1>6. CASE ReadFile
  BY <1>6, ReadFileOK
<1>7. CASE LoadBegin \/ SegmentSkip \/ SegmentBegin
  BY <1>7, LoadBeginOK, SegmentSkipOK, SegmentBeginOK
<1>8. CASE LoadPage \/ SegmentEnd
  BY <1>8, LoadPageOK, SegmentEndOK
<1>9. CASE LoadEnd \/ Schedule
  BY <1>9, LoadEndOK, ScheduleOK
<1>10. CASE UNCHANGED loaderVars
  BY <1>10, LoaderStutter
<1> QED
  BY <1>1, <1>2, <1>3, <1>4, <1>5, <1>6, <1>7, <1>8, <1>9, <1>10 DEF LoaderNext

\* What is in use between attempts to create a task belongs to a task that is there, and
\* the task that is queued has its image in memory as the file says, for all images laid
\* out as user.ld does, all sizes of heap and memory, and failures at every step
\* (task_create_user in task.c, elf_load in elf.c, main.c).
THEOREM LoaderSafe == ImagesLaidOut => (LoaderSpec => []LoaderInv)
<1> SUFFICES ASSUME ImagesLaidOut PROVE LoaderSpec => []LoaderInv
  OBVIOUS
<1>1. LoaderInit => LoaderIInv
  BY LoaderInitOK
<1>2. LoaderIInv /\ [LoaderNext]_loaderVars => LoaderIInv'
  BY LoaderStep
<1>3. LoaderIInv => LoaderInv
  BY LoaderIInvImplies
<1> QED
  BY <1>1, <1>2, <1>3, PTL DEF LoaderSpec
=============================================================================
