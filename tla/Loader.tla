------------------------------- MODULE Loader -------------------------------
(***************************************************************************)
(* Bringing up the first user task (kernel/main.c, kernel/task.c,          *)
(* kernel/elf.c): a task is created and /init.elf loaded from the USB      *)
(* stick; if anything fails, a second one is created for the embedded      *)
(* image.  Heap and frames may run out at any allocation.                  *)
(*                                                                         *)
(* An image is its segments, its entry, the verdict of the header checks   *)
(* and `headers', how much of the file has to be there for its segments    *)
(* to be read; nothing checks that it is, and with less of the file, or an *)
(* e_phoff beyond it, `behind' is what the memory after the file is taken  *)
(* for.  A byte of memory holds the file offset it was copied from.        *)
(* Addresses and offsets wrap at WORD.                                     *)
(* manifest_verify_elf accepts every image of at least a header's length.  *)
(***************************************************************************)
EXTENDS Integers, FiniteSets, Sequences

CONSTANTS
  TableSizes,       \* sizes of the task table (TASK_MAX_TASKS)
  PAGE,             \* bytes of a page (4096)
  WORD,             \* values of a 64-bit word (2^64)
  ADDRS,            \* bytes of the user half, the first page being the stack's
  UsbImages,        \* what /init.elf may hold: [good, segs, headers, behind, entry, size]
  Embedded,         \* the embedded image
  HeapRooms,        \* how many heap allocations may succeed
  FrameRooms        \* how many frames may be free

ASSUME LoaderAssumption ==
  /\ {PAGE, ADDRS, WORD} \subseteq Nat /\ PAGE > 0 /\ TableSizes \subseteq Nat \ {0}
  /\ WORD > 0 /\ WORD % PAGE = 0
  /\ HeapRooms \subseteq Nat /\ FrameRooms \subseteq Nat

KernelTask == 0
NoTask == -1
Addrs == 0 .. ADDRS - 1
Unmapped == -2
Zero == -1
Junk == -3

VARIABLES
  max_tasks,       \* slots of the task table
  pc,              \* where the boot code is
  from,            \* "usb" or "embedded": whose image is being loaded
  task_table,      \* [state, id, rip] per slot
  next_task_id,
  utask,           \* the slot of the task being made
  heap, frames,    \* allocations in use, named for their owner and purpose
  heapRoom, frameRoom,
  image, size,     \* the image being loaded, and how much of it was read
  seg, page,       \* elf_load's loops
  space,           \* space[t][a]: byte a of the user half of task t
  pml4_task,       \* current_pml4: the task whose tables vmm_map_page works on
  queue            \* tasks handed to sched_add

loaderVars == <<max_tasks, pc, from, task_table, next_task_id, utask, heap, frames, heapRoom,
                frameRoom, image, size, seg, page, space, pml4_task, queue>>

Slots == 0 .. max_tasks - 1

taskVars == <<max_tasks, task_table, next_task_id, utask>>
loadVars == <<image, size, seg, page>>

UnusedTask == [state |-> "UNUSED", id |-> 0, rip |-> 0]

\* task_init_table.
LoaderInit ==
  /\ max_tasks \in TableSizes
  /\ pc = "kernel" /\ from = "usb"
  /\ task_table = [t \in Slots |-> UnusedTask] /\ next_task_id = 0 /\ utask = NoTask
  /\ heap = {} /\ frames = {}
  /\ heapRoom \in HeapRooms /\ frameRoom \in FrameRooms
  /\ image = Embedded /\ size = 0 /\ seg = 0 /\ page = 0
  /\ space = [t \in Slots |-> [a \in Addrs |-> Unmapped]]
  /\ pml4_task = KernelTask /\ queue = <<>>

----------------------------------------------------------------------------
(* Tasks.                                                                   *)

IdleSlots == {t \in Slots : task_table[t].state = "UNUSED"}

\* alloc_task_slot: the first free slot, with the next id.
Slot == CHOOSE t \in IdleSlots : \A u \in IdleSlots : t <= u

NewTask(t, rip) ==
  /\ task_table' = [task_table EXCEPT ![t] =
                      [state |-> "READY", id |-> next_task_id, rip |-> rip]]
  /\ next_task_id' = next_task_id + 1
  /\ utask' = t
  /\ UNCHANGED max_tasks

\* task_create_kernel; the USB stick may or may not be there.
CreateKernel ==
  /\ pc = "kernel" /\ IdleSlots # {}
  /\ NewTask(Slot, 0)
  /\ \E usb_ok \in BOOLEAN : from' = IF usb_ok THEN "usb" ELSE "embedded"
  /\ pc' = "slot"
  /\ UNCHANGED <<heap, frames, heapRoom, frameRoom, loadVars, space, pml4_task, queue>>

\* Where the boot code goes when loading from USB, or the fallback, has failed.
Fails == IF from = "usb" THEN pc' = "slot" /\ from' = "embedded"
                         ELSE pc' = "halted" /\ UNCHANGED from

\* task_create_user: the slot comes first.
CreateSlot ==
  /\ pc = "slot" /\ IdleSlots # {}
  /\ NewTask(Slot, IF from = "usb" THEN 0 ELSE Embedded.entry)
  /\ pc' = "caps"
  /\ UNCHANGED <<from, heap, frames, heapRoom, frameRoom, loadVars, space,
                 pml4_task, queue>>

NoSlot ==
  /\ pc = "slot" /\ IdleSlots = {}
  /\ Fails
  /\ UNCHANGED <<taskVars, heap, frames, heapRoom, frameRoom, loadVars, space,
                 pml4_task, queue>>

\* kmalloc and pmm_alloc_frame can serve one more request.
HeapLeft == Cardinality(heap) < heapRoom
FramesLeft == Cardinality(frames) < frameRoom

\* One allocation of task_create_user, and what follows it.
TakeHeap(what, next) ==
  /\ HeapLeft
  /\ heap' = heap \cup {<<utask, what>>} /\ pc' = next
  /\ UNCHANGED <<from, taskVars, frames, heapRoom, frameRoom, loadVars, space,
                 pml4_task, queue>>

TakeFrame(what, next) ==
  /\ FramesLeft
  /\ frames' = frames \cup {<<utask, what>>} /\ pc' = next
  /\ UNCHANGED <<from, taskVars, heap, heapRoom, frameRoom, loadVars, space,
                 pml4_task, queue>>

\* Mutant: the capability table is not freed when later allocations fail.
KeepsCaps(what) == heap \ {<<utask, w>> : w \in what \ {"caps"}}

\* What is left of the heap after an error path freed the purposes in what.
HeapWithout(what) == heap \ {<<utask, w>> : w \in what}

\* An error path gives back what was taken before, and the slot.
CreateFails(heapTaken, framesTaken) ==
  /\ heap' = HeapWithout(heapTaken)
  /\ frames' = frames \ {<<utask, w>> : w \in framesTaken}
  /\ task_table' = [task_table EXCEPT ![utask].state = "UNUSED"]
  /\ Fails
  /\ UNCHANGED <<max_tasks, next_task_id, utask, heapRoom, frameRoom, loadVars, space,
                 pml4_task, queue>>

CreateCaps == /\ pc = "caps"
              /\ \/ TakeHeap("caps", "kstack")
                 \/ ~HeapLeft /\ CreateFails({}, {})

CreateKstack == /\ pc = "kstack"
                /\ \/ TakeHeap("kstack", "pml4")
                   \/ ~HeapLeft /\ CreateFails({"caps"}, {})

CreatePml4 == /\ pc = "pml4"
              /\ \/ TakeFrame("pml4", "stack")
                 \/ ~FramesLeft /\ CreateFails({"caps", "kstack"}, {})

CreateStack == /\ pc = "stack"
               /\ \/ TakeFrame("stack", "map")
                  \/ ~FramesLeft /\ CreateFails({"caps", "kstack"}, {"pml4"})

\* A mapping may need tables; vmm_map_page halts when there is no frame for them.
NeedsTable(t) == frames \cup {<<t, "table", seg, page>>}

\* The stack page is mapped in the new space.
MapStack ==
  /\ pc = "map"
  /\ \/ /\ FramesLeft
        /\ frames' = NeedsTable(utask)
        /\ space' = [space EXCEPT ![utask] =
                       [a \in Addrs |-> IF a < PAGE THEN Zero ELSE Unmapped]]
        /\ pc' = IF from = "usb" THEN "open" ELSE "load"
        /\ image' = Embedded /\ size' = Embedded.size
     \/ ~FramesLeft /\ pc' = "halted" /\ UNCHANGED <<frames, space, image, size>>
  /\ UNCHANGED <<from, taskVars, heap, heapRoom, frameRoom, seg, page, pml4_task, queue>>

----------------------------------------------------------------------------
(* elf_load_from_vfs.                                                       *)

OpenFails ==
  /\ pc = "open" /\ Fails
  /\ UNCHANGED <<taskVars, heap, frames, heapRoom, frameRoom, loadVars, space,
                 pml4_task, queue>>

\* The file is there; its buffer is allocated, or not.
OpenFile ==
  /\ pc = "open"
  /\ \E img \in UsbImages : image' = img
  /\ \/ HeapLeft /\ heap' = heap \cup {<<utask, "buf">>} /\ pc' = "read" /\ UNCHANGED from
     \/ ~HeapLeft /\ Fails /\ UNCHANGED heap
  /\ UNCHANGED <<taskVars, frames, heapRoom, frameRoom, size, seg, page, space,
                 pml4_task, queue>>

\* A read may stop early; less than a header is an error.
ReadFile ==
  /\ pc = "read"
  /\ \E got \in 0 .. image.size :
       \/ got > 0 /\ size' = got /\ pc' = "load" /\ UNCHANGED <<from, heap>>
       \/ got = 0 /\ heap' = HeapWithout({"buf"}) /\ Fails /\ UNCHANGED size
  /\ UNCHANGED <<taskVars, frames, heapRoom, frameRoom, image, seg, page, space,
                 pml4_task, queue>>

----------------------------------------------------------------------------
(* elf_load.                                                                *)

\* The root elf_load found when it was called.
OldPml4 == KernelTask

\* An error: the tables are restored, the buffer of a file is freed.
LoadFails ==
  /\ pml4_task' = OldPml4
  /\ heap' = HeapWithout({"buf"})
  /\ Fails
  /\ UNCHANGED <<taskVars, frames, heapRoom, frameRoom, loadVars, space, queue>>

\* Headers beyond what was read may lie where nothing is mapped.
LoadBegin ==
  /\ pc = "load"
  /\ \/ ~image.good /\ LoadFails
     \/ /\ image.good /\ image.headers > size /\ pc' = "halted"
        /\ UNCHANGED <<from, taskVars, heap, frames, heapRoom, frameRoom, loadVars, space,
                       pml4_task, queue>>
     \/ /\ image.good
        /\ pml4_task' = utask /\ seg' = 1 /\ pc' = "segment"
        /\ UNCHANGED <<from, taskVars, heap, frames, heapRoom, frameRoom, image, size,
                       page, space, queue>>

\* The segments, as their headers are read from the buffer.
Segs == IF image.headers <= size THEN image.segs ELSE image.behind
Segment == Segs[seg]

SegmentSkip ==
  /\ pc = "segment" /\ seg <= Len(Segs) /\ ~Segment.load
  /\ seg' = seg + 1
  /\ UNCHANGED <<pc, from, taskVars, heap, frames, heapRoom, frameRoom, image, size,
                 page, space, pml4_task, queue>>

\* Mutant: the part of the file that was not read is not missed.
NeverShort == FALSE

\* The segment's part of the file has not been read completely; the sum wraps.
Truncated == (Segment.offset + Segment.filesz) % WORD > size

SegmentBegin ==
  /\ pc = "segment" /\ seg <= Len(Segs) /\ Segment.load
  /\ \/ Truncated /\ LoadFails
     \/ /\ ~Truncated
        /\ page' = Segment.vaddr \div PAGE /\ pc' = "page"
        /\ UNCHANGED <<from, taskVars, heap, frames, heapRoom, frameRoom, image, size,
                       seg, space, pml4_task, queue>>

\* One page beyond the last of segment s; a segment that wraps may have none.
EndOf(s) == ((s.vaddr + s.memsz + PAGE - 1) % WORD) \div PAGE
EndPage == EndOf(Segment)

\* The offset in the file of byte a of the segment, and whether it is in the file's
\* part of it.
OffsetOf(a) == (Segment.offset + (a - Segment.vaddr)) % WORD
InFile(a) == a >= Segment.vaddr /\ a < (Segment.vaddr + Segment.filesz) % WORD

\* The page's bytes: cleared, then the overlap with the file's part; what lies
\* beyond the part that was read is junk.
Filled(a) ==
  IF ~InFile(a) THEN Zero ELSE IF OffsetOf(a) < size THEN OffsetOf(a) ELSE Junk

\* The page takes bytes from beyond what was read.
Strays == \E a \in page * PAGE .. page * PAGE + PAGE - 1 : InFile(a) /\ OffsetOf(a) >= size

\* A fresh frame is filled and mapped, in place of what was mapped there before.
\* Without a frame for a table, or with nothing mapped where it strays to, the
\* kernel stops for good.
LoadPage ==
  /\ pc = "page" /\ page < EndPage
  /\ LET data == frames \cup {<<utask, "page", seg, page>>} IN
     \/ ~FramesLeft /\ LoadFails
     \/ /\ FramesLeft /\ (Cardinality(data) >= frameRoom \/ Strays)
        /\ frames' = data /\ pc' = "halted"
        /\ UNCHANGED <<from, taskVars, heap, heapRoom, frameRoom, loadVars, space,
                       pml4_task, queue>>
     \/ /\ FramesLeft
        /\ frames' \in {data, data \cup {<<utask, "table", seg, page>>}}
        /\ Cardinality(frames') <= frameRoom
        /\ space' = [space EXCEPT ![utask] = [a \in Addrs |->
                       IF a \div PAGE = page THEN Filled(a) ELSE @[a]]]
        /\ page' = page + 1
        /\ UNCHANGED <<pc, from, taskVars, heap, heapRoom, frameRoom, image, size, seg,
                       pml4_task, queue>>

SegmentEnd ==
  /\ pc = "page" /\ page >= EndPage
  /\ seg' = seg + 1 /\ pc' = "segment"
  /\ UNCHANGED <<from, taskVars, heap, frames, heapRoom, frameRoom, image, size, page,
                 space, pml4_task, queue>>

\* The entry of an image from USB is patched in after the load.
Patched == [task_table EXCEPT ![utask].rip = IF from = "usb" THEN image.entry ELSE @]

\* The tables are restored, the buffer freed, the entry patched.
LoadEnd ==
  /\ pc = "segment" /\ seg > Len(Segs)
  /\ pml4_task' = OldPml4
  /\ heap' = HeapWithout({"buf"})
  /\ task_table' = Patched
  /\ pc' = "sched"
  /\ UNCHANGED <<from, max_tasks, next_task_id, utask, frames, heapRoom, frameRoom, loadVars, space,
                 queue>>

\* The kernel's task and the new one are handed to the scheduler.
Schedule ==
  /\ pc = "sched"
  /\ queue' = <<KernelTask, utask>> /\ pc' = "done"
  /\ UNCHANGED <<from, taskVars, heap, frames, heapRoom, frameRoom, loadVars, space,
                 pml4_task>>

LoaderNext == \/ CreateKernel \/ CreateSlot \/ NoSlot \/ CreateCaps \/ CreateKstack
        \/ CreatePml4 \/ CreateStack \/ MapStack
        \/ OpenFails \/ OpenFile \/ ReadFile
        \/ LoadBegin \/ SegmentSkip \/ SegmentBegin \/ LoadPage \/ SegmentEnd \/ LoadEnd
        \/ Schedule

LoaderSpec == LoaderInit /\ [][LoaderNext]_loaderVars

----------------------------------------------------------------------------
(* Properties.                                                              *)

Within(a, s) == s.load /\ a \in s.vaddr .. s.vaddr + s.memsz - 1

\* The pages elf_load gives segment s.
PagesOf(s) == s.vaddr \div PAGE .. EndOf(s) - 1

\* No sum of the segment's fields wraps.
Straight(s) ==
  /\ s.offset + s.filesz < WORD /\ s.vaddr + s.filesz < WORD
  /\ s.vaddr + s.memsz + PAGE <= WORD

SegType == [load : BOOLEAN, vaddr : 0 .. WORD - 1, filesz : 0 .. WORD - 1,
            memsz : 0 .. WORD - 1, offset : 0 .. WORD - 1]

\* What LoadedExactly and EntryMatches rest on and elf_load does not check: loaded
\* segments lie on pages of their own, as user.ld lays them out.
LaidOut(img) ==
  /\ {img.segs, img.behind} \subseteq Seq(SegType)
  /\ img.size \in Nat
  /\ \A j, k \in DOMAIN img.segs :
       j # k /\ img.segs[j].load /\ img.segs[k].load
         => PagesOf(img.segs[j]) \cap PagesOf(img.segs[k]) = {}

ImagesLaidOut == \A img \in UsbImages \cup {Embedded} : LaidOut(img)

\* The types of the loader's state: slots, ids, allocations within their room,
\* bytes of user space that come from an image or are zero.
LoaderTypeOK ==
  /\ \A t \in Slots : task_table[t].state \in {"UNUSED", "READY"}
  /\ next_task_id \in 0 .. max_tasks + 1
  /\ utask \in Slots \cup {NoTask} /\ pml4_task \in Slots
  /\ Cardinality(heap) <= heapRoom /\ Cardinality(frames) <= frameRoom
  /\ space \in [Slots -> [Addrs -> Nat \cup {Unmapped, Zero, Junk}]]

\* Between two attempts, and at the end, an error path has undone all it had to:
\* heap in use belongs to a task's tables and stacks, no slot of a failed creation
\* keeps a frame, and vmm_map_page works on the kernel's tables again.
RollbackComplete ==
  pc \in {"slot", "sched", "done"} =>
    /\ \A x \in heap : task_table[x[1]].state = "READY" /\ x[2] \in {"caps", "kstack"}
    /\ \A x \in frames : task_table[x[1]].state = "READY"
    /\ pml4_task = KernelTask

\* The segment headers were there to be read, and s is one that does not wrap:
\* otherwise elf_load promises nothing of its bytes, and succeeds all the same.
Loadable(s) == image.headers <= size /\ Straight(s)

\* elf.h: PT_LOAD segments are loaded into the task's address space.  Every byte
\* of every loadable segment of the image the task was started with is there: file
\* bytes, zeroes after them, whatever image failed before.
LoadedExactly ==
  pc = "done" =>
    \A k \in DOMAIN image.segs, a \in Addrs :
      LET s == image.segs[k] IN
      Loadable(s) /\ Within(a, s) => space[utask][a] =
        IF a < s.vaddr + s.filesz THEN s.offset + (a - s.vaddr) ELSE Zero

\* The user task that is scheduled starts at the entry of the image its own
\* address space holds; if a loadable segment covers it, there is something there.
EntryMatches ==
  pc = "done" =>
    /\ task_table[queue[2]].rip = image.entry
    /\ (\E k \in DOMAIN image.segs : Loadable(image.segs[k]) /\ Within(image.entry, image.segs[k]))
         /\ image.entry \in Addrs => space[queue[2]][image.entry] # Unmapped
    /\ (from = "embedded" => image = Embedded)

\* After a start that may have failed at every allocation and fallen back to the
\* embedded image, no allocation is without an owner, the task scheduled is the one
\* loaded, and its memory holds the image.  A task whose image could not be loaded
\* keeps its slot, READY and never queued, with its stacks, tables and pages.
LoaderInv == LoaderTypeOK /\ RollbackComplete /\ EntryMatches /\ LoadedExactly
=============================================================================
