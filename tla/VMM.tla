-------------------------------- MODULE VMM ---------------------------------
(***************************************************************************)
(* The virtual memory manager (kernel/vmm.c) and the address spaces tasks  *)
(* are given (kernel/task.c, kernel/elf.c).                                *)
(*                                                                         *)
(* A page is the sequence of its LEVELS table indices; an entry is the     *)
(* frame it names and its USER bit.  Every mapping the kernel makes is     *)
(* present and writable, so those bits are left out.  A frame not in use   *)
(* holds whatever its last owner left: here, an entry that would let ring  *)
(* 3 into the kernel's tables.                                             *)
(***************************************************************************)
EXTENDS Naturals, Sequences, Functions

CONSTANTS
  LEVELS,       \* levels of tables (4)
  UserIdx,      \* the entries of a table that, in a root, belong to users (0..255)
  KernelIdx,    \* the other entries (256..511)
  FRAMES,       \* frames of the pool, numbered from 1
  Device,       \* a frame of a device, outside the pool
  HhdmPage,     \* a page of the direct map
  TASK_USER_STACK_PAGE,
  LoadPages,    \* the pages that segments of images may name
  MAX_TASKS     \* bound: address spaces besides the kernel's

Idx == UserIdx \cup KernelIdx
Pages == [1 .. LEVELS -> Idx]
UserPages == {v \in Pages : v[1] \in UserIdx}
KernelPages == Pages \ UserPages
PhysFrames == 1 .. FRAMES
NoFrame == 0

ASSUME VmmAssumption ==
  /\ LEVELS \in Nat \ {0, 1} /\ FRAMES \in Nat \ {0} /\ MAX_TASKS \in Nat
  /\ UserIdx \cap KernelIdx = {} /\ Device \in Nat \ (PhysFrames \cup {NoFrame})
  /\ HhdmPage \in KernelPages /\ TASK_USER_STACK_PAGE \in UserPages
  /\ LoadPages \subseteq Pages

Absent == [frame |-> NoFrame, user |-> FALSE]
Zeroed == [i \in Idx |-> Absent]
Stale == [i \in Idx |-> [frame |-> 1, user |-> TRUE]]

VARIABLES
  mem,           \* mem[f][i]: entry i of frame f, read as a table
  used,          \* frames pmm_alloc_frame has handed out
  current_pml4,  \* the root vmm_map_page works on, NoFrame before vmm_init
  cr3,           \* the root the processor uses
  roots,         \* the roots of the tasks, the kernel's first
  loading,       \* elf_load has set current_pml4 and not restored it
  halted

vmmVars == <<mem, used, current_pml4, cr3, roots, loading, halted>>

----------------------------------------------------------------------------
(* Frames.                                                                  *)

Exhausted(u) == u = PhysFrames

\* pmm_alloc_frame hands out the lowest free frame.
NextFrame(u) == CHOOSE f \in PhysFrames \ u : \A g \in PhysFrames \ u : f <= g

\* The frame is in use from then on.
Taken(u) == u \cup {NextFrame(u)}

----------------------------------------------------------------------------
(* Walking the tables.  A walk is a record of the memory, the frames in    *)
(* use, the table reached and whether a table could not be allocated.       *)

Present(e) == e.frame # NoFrame

\* A missing table is allocated, cleared and entered with the USER bit of the page.
NewTable(w, i, user) ==
  LET f == NextFrame(w.used) IN
  [mem   |-> [w.mem EXCEPT ![w.table][i] = [frame |-> f, user |-> user], ![f] = Zeroed],
   used  |-> Taken(w.used), table |-> f, failed |-> FALSE]

\* A table that is there only gains the USER bit.
OldTable(w, i, user) ==
  LET e == w.mem[w.table][i] IN
  [w EXCEPT !.mem[w.table][i].user = e.user \/ user, !.table = e.frame]

\* One level down; the kernel stops for good when no frame is left.
Descend(w, i, user) ==
  IF w.failed THEN w
  ELSE IF Present(w.mem[w.table][i]) THEN OldTable(w, i, user)
  ELSE IF Exhausted(w.used) THEN [w EXCEPT !.failed = TRUE]
  ELSE NewTable(w, i, user)

\* vmm_map_page, with root, memory and frames as they are when it is called.
Mapped(root, m, u, v, frame, user) ==
  LET walk[n \in 1 .. LEVELS] ==
        IF n = 1 THEN [mem |-> m, used |-> u, table |-> root, failed |-> FALSE]
                 ELSE Descend(walk[n - 1], v[n - 1], user)
      w == walk[LEVELS] IN
  IF w.failed THEN w
  ELSE [w EXCEPT !.mem[w.table][v[LEVELS]] = [frame |-> frame, user |-> user]]

\* The tables on the way to page v, level by level; NoFrame from a gap on.
Path(root, m, v) ==
  LET table[n \in 1 .. LEVELS] ==
        IF n = 1 THEN root
        ELSE LET t == table[n - 1] IN
             IF t = NoFrame THEN NoFrame ELSE m[t][v[n - 1]].frame
  IN  table

\* The table that holds the last entry of page v, or NoFrame.
LastTable(root, m, v) == Path(root, m, v)[LEVELS]

\* The tables never hold large pages, which vmm_virt_to_phys would honour.
\* The frame of page v, as vmm_virt_to_phys and the processor find it.
Walk(root, m, v) ==
  LET t == LastTable(root, m, v) IN
  IF t = NoFrame THEN NoFrame ELSE m[t][v[LEVELS]].frame

\* Pages of the direct map are translated by subtraction.
vmm_virt_to_phys(v) ==
  IF v = HhdmPage THEN Device
  ELSE IF current_pml4 = NoFrame THEN NoFrame
  ELSE Walk(current_pml4, mem, v)

----------------------------------------------------------------------------
(* Actions.                                                                 *)

VmmInit == /\ mem = [f \in PhysFrames |-> Stale] /\ used = {}
           /\ current_pml4 = NoFrame /\ cr3 = NoFrame
           /\ roots = <<>> /\ loading = FALSE /\ halted = FALSE

Running == ~halted /\ roots # <<>>
Kernel == roots[1]

\* Takes over memory and frames from a finished or a failed walk.
Store(w) == mem' = w.mem /\ used' = w.used /\ halted' = w.failed

\* vmm_init: a cleared root, the direct map (and with it kernel, framebuffer
\* and stack, which lie in it or are mapped the same way), then CR3.
vmm_init ==
  /\ roots = <<>> /\ ~halted
  /\ LET f == NextFrame(used)
         w == Mapped(f, [mem EXCEPT ![f] = Zeroed], Taken(used), HhdmPage, Device, FALSE) IN
     /\ Store(w)
     /\ current_pml4' = f
     /\ IF w.failed THEN UNCHANGED <<cr3, roots>>
        ELSE cr3' = f /\ roots' = <<f>>
  /\ UNCHANGED loading

\* Mutant: the root is left with the kernel half cleared.
CopiesNothing(cur) == Zeroed

\* The root task_create_user builds: user half cleared, kernel half copied.
NewRoot(cur) == [i \in Idx |-> IF i \in UserIdx THEN Absent ELSE mem[cur][i]]

\* task_create_user, from the root on: when there is no frame for the stack, the
\* root's frame is given back.
CreateSpace ==
  /\ Running /\ ~loading /\ Len(roots) <= MAX_TASKS
  /\ ~Exhausted(used)
  /\ LET root == NextFrame(used)
         m == [mem EXCEPT ![root] = NewRoot(current_pml4)]
         u == Taken(used) IN
     IF Exhausted(u)
     THEN mem' = m /\ UNCHANGED <<used, current_pml4, roots, halted>>
     ELSE LET w == Mapped(root, m, Taken(u), TASK_USER_STACK_PAGE, NextFrame(u), TRUE) IN
          /\ Store(w)
          /\ roots' = Append(roots, root)
          /\ current_pml4' = IF w.failed THEN root ELSE current_pml4
  /\ UNCHANGED <<cr3, loading>>

\* elf_load points the manager at the task's root while it maps, ...
SpaceLoadBegin ==
  /\ Running /\ ~loading
  /\ \E k \in 2 .. Len(roots) : current_pml4' = roots[k]
  /\ loading' = TRUE
  /\ UNCHANGED <<mem, used, cr3, roots, halted>>

\* Mutant: the frame of the page is still free when tables are allocated for it.
LoadUnmarked ==
  /\ Running /\ loading /\ ~Exhausted(used)
  /\ \E v \in LoadPages :
       Store(Mapped(current_pml4, mem, used, v, NextFrame(used), TRUE))
  /\ UNCHANGED <<current_pml4, cr3, roots, loading>>

\* ... gives every page a frame of its own, whichever page the image names, ...
SpaceLoadPage ==
  /\ Running /\ loading /\ ~Exhausted(used)
  /\ \E v \in LoadPages :
       Store(Mapped(current_pml4, mem, Taken(used), v, NextFrame(used), TRUE))
  /\ UNCHANGED <<current_pml4, cr3, roots, loading>>

\* ... and restores the old root, at the end or on an error.
SpaceLoadEnd ==
  /\ Running /\ loading
  /\ loading' = FALSE /\ current_pml4' = Kernel
  /\ UNCHANGED <<mem, used, cr3, roots, halted>>

\* The kernel maps its heap before there are tasks; the growth of the heap and
\* the registers of devices lie in the parts of the address space mapped then.
Shared(v) == Len(roots) = 1 \/ Present(mem[Kernel][v[1]])

\* grow_heap and heap_init: a fresh frame for the kernel.
GrowHeap ==
  /\ Running /\ ~loading /\ ~Exhausted(used)
  /\ \E v \in KernelPages \ {HhdmPage} :
       /\ Shared(v) /\ Walk(Kernel, mem, v) = NoFrame
       /\ Store(Mapped(current_pml4, mem, Taken(used), v, NextFrame(used), FALSE))
  /\ UNCHANGED <<current_pml4, cr3, roots, loading>>

\* e1000_init, xhci_init, tpm: the registers of a device.
MapDevice ==
  /\ Running /\ ~loading
  /\ \E v \in KernelPages \ {HhdmPage} :
       /\ Shared(v) /\ Walk(Kernel, mem, v) \in {NoFrame, Device}
       /\ Store(Mapped(current_pml4, mem, used, v, Device, FALSE))
  /\ UNCHANGED <<current_pml4, cr3, roots, loading>>

\* vmm_unmap_page clears the last entry, if the walk gets that far.
vmm_unmap_page ==
  /\ Running
  /\ \E v \in Pages \ {HhdmPage} :
       LET t == LastTable(current_pml4, mem, v) IN
       /\ t # NoFrame
       /\ mem' = [mem EXCEPT ![t][v[LEVELS]] = Absent]
  /\ UNCHANGED <<used, current_pml4, cr3, roots, loading, halted>>

\* task_switch loads CR3 with the root of the task it switches to.
task_switch ==
  /\ Running /\ ~loading
  /\ \E k \in DOMAIN roots : cr3' = roots[k]
  /\ UNCHANGED <<mem, used, current_pml4, roots, loading, halted>>

VmmNext == \/ vmm_init \/ CreateSpace \/ SpaceLoadBegin \/ SpaceLoadPage \/ SpaceLoadEnd
        \/ GrowHeap \/ MapDevice \/ vmm_unmap_page \/ task_switch

VmmSpec == VmmInit /\ [][VmmNext]_vmmVars

----------------------------------------------------------------------------
(* Properties.                                                              *)

\* What the properties rest on and elf_load does not check: the segments of every
\* image lie in the user half, as user.ld puts them.  A segment above it would be
\* mapped, with the USER bit, in the tables all spaces share.
ImagesInUserHalf == LoadPages \subseteq UserPages

Entries == [frame : PhysFrames \cup {NoFrame, Device}, user : BOOLEAN]

\* The types of the manager's state: tables of entries, frames in use, roots
\* among the frames.
VmmTypeOK ==
  /\ mem \in [PhysFrames -> [Idx -> Entries]]
  /\ used \subseteq PhysFrames
  /\ {current_pml4, cr3} \subseteq used \cup {NoFrame}
  /\ roots \in Seq(used) /\ Len(roots) <= MAX_TASKS + 1
  /\ {loading, halted} \subseteq BOOLEAN

\* The tables on the way from root to some page.
Tables(root) == UNION {Range(Path(root, mem, v)) : v \in Pages} \ {NoFrame}

\* Ring 3 reaches page v if every entry on the way has the USER bit.
UserAt(root, v) ==
  LET path == Path(root, mem, v) IN
  \A n \in 1 .. LEVELS : path[n] # NoFrame /\ mem[path[n]][v[n]].user

\* No page that ring 3 can reach, of any task, shows a page table, a frame that
\* is not in use or a device: whatever was mapped, unmapped and reused before,
\* vmm_map_page and task_create_user keep tables and data apart.
TablesHidden ==
  \A s, t \in Range(roots), v \in Pages :
    UserAt(s, v) =>
      Walk(s, mem, v) \notin Tables(t) \cup (PhysFrames \ used) \cup {NoFrame, Device}

View(root) == [v \in Pages |-> LET f == Walk(root, mem, v) IN
                 IF f = NoFrame THEN Absent ELSE [frame |-> f, user |-> UserAt(root, v)]]

BootMap == [v \in Pages |-> IF v = HhdmPage THEN [frame |-> Device, user |-> FALSE]
                            ELSE Absent]

\* The tables as the maps they stand for.
SpaceMap == [s \in Range(roots) |-> View(s)]

Maps == INSTANCE Spaces WITH
  Spaces <- PhysFrames, Frames <- PhysFrames \cup {Device}, Unmapped <- Absent,
  map <- SpaceMap

\* vmm_map_page and vmm_unmap_page change one page of one space, or one kernel
\* page of all spaces, and never let two spaces share a frame ring 3 can reach, as
\* long as no image has a segment in the kernel half.
ImplementsSpaces == Maps!Spec

\* Drivers hand the controllers addresses from vmm_virt_to_phys while any task's
\* tables are in CR3.  It walks the kernel's tables, which are not the active ones
\* vmm.h speaks of, and still finds for every kernel page what the processor finds.
TranslatesKernel ==
  (Running /\ ~loading) =>
    \A v \in KernelPages : vmm_virt_to_phys(v) = Walk(cr3, mem, v)

\* The tables are sound between any two calls of the manager, with any task's
\* space loaded: ring 3 sees no table, and drivers get the right addresses.  This
\* takes images whose segments lie in the user half, which elf_load takes on trust.
VmmInv == VmmTypeOK /\ TablesHidden /\ TranslatesKernel
=============================================================================
