------------------------------ MODULE MCMemory ------------------------------
(* The four parts of memory management, one at a time: what they need from  *)
(* one another (frames, heap, mappings) each module takes as it may come,   *)
(* so `part' says which one works while the others rest as booted.          *)
EXTENDS PMM, Heap, VMM, Loader, TLC

CONSTANT Top  \* end of the address range of the memory maps

VARIABLE part
memVars == <<part, pmmVars, heapVars, vmmVars, loaderVars>>

----------------------------------------------------------------------------
\* Memory maps of three entries with unaligned edges and a hole.
Entry(lo, hi, u) == [base |-> lo, length |-> hi - lo, usable |-> u]
Cuts == {c \in [1 .. 4 -> 0 .. Top] : c[1] < c[2] /\ c[2] < c[3] /\ c[3] <= c[4]}
MCMemMaps ==
  {<<Entry(c[1], c[2], u), Entry(c[2], c[3], TRUE), Entry(c[4], Top, v)>> :
      c \in Cuts, u, v \in BOOLEAN}
AnyMap == CHOOSE mm \in MCMemMaps : TRUE

\* Pages: the direct map and the user stack.
MCHhdm == [n \in 1 .. LEVELS |-> 1]
MCStack == [n \in 1 .. LEVELS |-> IF n = LEVELS THEN 1 ELSE 0]
MCUser == {0}
MCKernel == {1}
MCLoadPages == {<<0, i>> : i \in {0, 1}}
\* What the properties of address spaces rest on holds of these pages.
ASSUME MCInUserHalf == ImagesInUserHalf

\* Images with segments on pages of their own, as user.ld lays them out: a bss
\* beyond its page, a segment that starts inside a page, one that is not loaded;
\* then headers beyond the file, and segments whose offset or end wraps.
Seg(vaddr, filesz, memsz, offset) ==
  [load |-> TRUE, vaddr |-> vaddr, filesz |-> filesz, memsz |-> memsz, offset |-> offset]
Note == [load |-> FALSE, vaddr |-> 0, filesz |-> 1, memsz |-> 1, offset |-> 0]
Img(segs, entry, sz) ==
  [good |-> TRUE, segs |-> segs, headers |-> 1, behind |-> <<>>, entry |-> entry, size |-> sz]
MCImages ==
  {Img(<<Seg(2, 2, 2, 0), Seg(4, 1, 3, 2)>>, 2, 3),
   Img(<<Note, Seg(5, 1, 1, 1), Seg(2, 1, 2, 0)>>, 3, 2),
   [Img(<<Seg(2, 1, 1, 0)>>, 2, 2) EXCEPT !.headers = 2, !.behind = <<Seg(2, 1, 2, 0), Seg(3, 1, 1, 0)>>],
   Img(<<Seg(2, 2, 2, WORD - 1), Seg(6, 1, WORD - 4, 0), Seg(4, 1, 1, 0)>>, 4, 1),
   [Img(<<>>, 2, 1) EXCEPT !.good = FALSE]}
MCEmbedded == Img(<<Seg(2, 1, 1, 0), Seg(4, 2, 2, 1)>>, 2, 3)
\* What the loader's properties rest on holds of these images.
ASSUME MCLaidOut == ImagesLaidOut
MCHeapRooms == 0 .. 5
MCFrameRooms == 0 .. 16

----------------------------------------------------------------------------
MemInit ==
  /\ part \in {"pmm", "heap", "vmm", "loader"}
  /\ part # "pmm" => memmap = AnyMap
  /\ part # "heap" => free_frames = 0
  /\ part # "loader" => max_tasks = 2 /\ heapRoom = 0 /\ frameRoom = 0
  /\ PmmInit /\ HeapInit /\ VmmInit /\ LoaderInit

MemNext ==
  \/ part = "pmm" /\ PmmNext /\ UNCHANGED <<part, heapVars, vmmVars, loaderVars>>
  \/ part = "heap" /\ HeapNext /\ UNCHANGED <<part, pmmVars, vmmVars, loaderVars>>
  \/ part = "vmm" /\ VmmNext /\ UNCHANGED <<part, pmmVars, heapVars, loaderVars>>
  \/ part = "loader" /\ LoaderNext /\ UNCHANGED <<part, pmmVars, heapVars, vmmVars>>

MemSpec == MemInit /\ [][MemNext]_memVars

MCSymmetry == Permutations(Callers)
=============================================================================
