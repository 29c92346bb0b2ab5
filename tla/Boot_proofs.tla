---------------------------- MODULE Boot_proofs -----------------------------
(***************************************************************************)
(* The boot path with the processor tables it builds, the crossings between *)
(* ring 3 and the kernel, the attestation the boot waits for, and the file *)
(* system the boot mounts and reads programs from (main.c, gdt.c, idt.c,   *)
(* syscall.asm, irq.asm, tpm_tis.c, tpm.c, fat32.c, vfs.c).                *)
(***************************************************************************)
EXTENDS Boot, Context, TPM, FAT32, SequenceTheorems, WellFoundedInduction, TLAPS

----------------------------------------------------------------------------
(* The boot path.                                                           *)

\* The tables and registers the boot path goes through: the loader's descriptors, and
\* the kernel's with the task segment in it (gdt_init, tss_init).
LoaderTable == [i \in 0 .. 7 |-> CASE i = 5 -> "kcode64" [] i = 6 -> "kdata" [] OTHER -> "none"]
FullTable == [Descriptors EXCEPT ![6] = "tss", ![7] = "tss_high"]

\* The gates all name the kernel's code segment (idt_set_gate with the segment in force).
KernelGates == [v \in 0 .. 47 |-> 8]
PicSet == [base |-> 32, open |-> {0, 1}]
StarSet == [sys |-> 8, ret |-> 24]
\* The segment registers as the loader, the kernel, a handler entered from ring 3 and
\* ring 3 itself have them.
LoaderSeg == [cs |-> 40, ss |-> 48]
KernelSeg == [cs |-> 8, ss |-> 16]
PanicSeg == [cs |-> 8, ss |-> 0]
UserSeg == [cs |-> 40 + 3, ss |-> 32 + 3]

\* What each table holds after so many calls.
Tables ==
  /\ gdt = IF at < 4 THEN LoaderTable ELSE IF at = 4 THEN Descriptors ELSE FullTable
  /\ tr = IF at < 5 THEN 0 ELSE 48
  /\ idt = IF at < 6 THEN <<>> ELSE KernelGates
  /\ at >= 7 => pic = PicSet
  /\ handlers = IF at < 8 THEN {} ELSE IF at = 8 THEN {0} ELSE {0, 1}
  /\ at >= 20 => star = StarSet

\* Where the segment registers point.
Segments ==
  /\ at < 4 => seg = LoaderSeg
  /\ at \in 4 .. 27 => seg \in {KernelSeg, PanicSeg}
  /\ at = 28 => seg \in {KernelSeg, PanicSeg, UserSeg}

\* How the boot path got here.
Path ==
  /\ IF_ => at >= 10
  /\ mode = "reset" => at < 6
  /\ at = 28 => mode # "halted"
  /\ at < 27 => choice = "none"
  /\ mode = "runs" \/ at = 28 =>
       /\ ~refused /\ choice \in {"none", "t", "s"}
       /\ at >= 25 => rbx = "entry" \/ (choice = "s" /\ rbx = "test")

\* How far the boot is, and the flags of the path.
BootTypes == at \in 0 .. 28 /\ mode \in {"runs", "halted", "panic", "reset"} /\ IF_ \in BOOLEAN
             /\ rbx \in {"none", "entry", "test"} /\ refused \in BOOLEAN

\* The inductive invariant: the number of calls made fixes what each table holds and
\* where the segment registers may point, so that every gate fits what it is passed through
\* with (_start).
BootIInv == BootTypes /\ Tables /\ Segments /\ Path

\* The place of each call in the boot path.
LEMMA Places ==
  /\ Len(BootOrder) = 28
  /\ \A n \in 1 .. 28 :
       /\ BootOrder[n] = "gdt_init" => n = 4
       /\ BootOrder[n] = "tss_init" => n = 5
       /\ BootOrder[n] = "idt_init" => n = 6
       /\ BootOrder[n] = "irq_init" => n = 7
       /\ BootOrder[n] = "pit_init" => n = 8
       /\ BootOrder[n] = "keyboard_init" => n = 9
       /\ BootOrder[n] = "sti" => n = 10
       /\ BootOrder[n] = "syscall_init" => n = 20
       /\ BootOrder[n] = "load" => n = 25
       /\ BootOrder[n] = "menu" => n = 27
       /\ BootOrder[n] = "sched_start" => n = 28
BY DEF BootOrder

\* The calls that touch none of the tables, and the ones that may halt the boot.
LEMMA QuietPlaces ==
  /\ \A n \in 1 .. 28 : BootOrder[n] \in Quiet
     => n \in (1 .. 3) \cup (11 .. 19) \cup (21 .. 24) \cup {26}
  /\ \A n \in 1 .. 28 : BootOrder[n] \in MayFail => n \in {2, 3, 11, 19, 21, 23, 24, 25}
  /\ BootOrder[3] = "fb_init"
BY DEF BootOrder, Quiet, MayFail

\* The descriptors that matter, table by table.
LEMMA BootTables ==
  /\ LoaderTable[5] = "kcode64" /\ LoaderTable[6] = "kdata"
  /\ Descriptors[1] = "kcode64" /\ Descriptors[2] = "kdata"
  /\ FullTable[1] = "kcode64" /\ FullTable[2] = "kdata" /\ FullTable[4] = "udata"
  /\ FullTable[5] = "ucode64" /\ FullTable[6] = "tss"
<1>1. LoaderTable[5] = "kcode64" /\ LoaderTable[6] = "kdata"
  BY DEF LoaderTable
<1>2. /\ Descriptors[1] = "kcode64" /\ Descriptors[2] = "kdata"
      /\ Descriptors[4] = "udata" /\ Descriptors[5] = "ucode64"
  BY DEF Descriptors
<1>3. DOMAIN Descriptors = 0 .. 7
  BY DEF Descriptors
<1>4. /\ FullTable[6] = "tss"
      /\ \A i \in 0 .. 5 : FullTable[i] = Descriptors[i]
  BY <1>3 DEF FullTable
<1> QED
  BY <1>1, <1>2, <1>4

\* The fields of the constant records.
LEMMA Registers ==
  /\ LoaderSeg.cs = 40 /\ LoaderSeg.ss = 48 /\ KernelSeg.cs = 8 /\ KernelSeg.ss = 16
  /\ PanicSeg.cs = 8 /\ PanicSeg.ss = 0 /\ UserSeg.cs = 43 /\ UserSeg.ss = 35
  /\ PicSet.base = 32 /\ PicSet.open = {0, 1} /\ StarSet.sys = 8 /\ StarSet.ret = 24
  /\ DOMAIN KernelGates = 0 .. 47 /\ \A v \in 0 .. 47 : KernelGates[v] = 8
BY DEF LoaderSeg, KernelSeg, PanicSeg, UserSeg, PicSet, StarSet, KernelGates

\* A loaded interrupt table is not the empty one.
LEMMA HasGates == KernelGates # <<>>
<1>1. DOMAIN KernelGates = 0 .. 47 /\ DOMAIN <<>> = {} /\ 0 \in 0 .. 47
  BY Registers
<1> QED
  BY <1>1

\* What the loader leaves satisfies the invariant.
LEMMA BootInitOK == BootInit => BootIInv
<1> SUFFICES ASSUME BootInit PROVE BootIInv
  OBVIOUS
<1>1. gdt = LoaderTable
  BY DEF BootInit, LoaderTable
<1>2. BootTypes
  <2>1. at = 0 /\ mode = "runs" /\ IF_ = FALSE /\ rbx = "none" /\ refused = FALSE
    BY DEF BootInit
  <2>2. IF_ \in BOOLEAN /\ refused \in BOOLEAN
    BY <2>1, Zenon
  <2>3. at \in 0 .. 28
    BY <2>1
  <2> QED
    BY <2>1, <2>2, <2>3, Zenon DEF BootTypes
<1>3. Tables
  BY <1>1 DEF BootInit, Tables
<1>4. Segments /\ Path
  BY DEF BootInit, Segments, Path, LoaderSeg
<1> QED
  BY <1>2, <1>3, <1>4 DEF BootIInv

\* Every vector is served once the interrupt table is loaded.
LEMMA AllServed ==
  ASSUME BootIInv, at >= 6 PROVE \A v \in 0 .. 47 : Served(v)
<1> USE DEF BootIInv
<1>1. gdt = FullTable /\ tr = 48 /\ idt = KernelGates
  BY DEF Tables, BootTypes
<1>2. 8 \div 8 = 1 /\ 48 \div 8 = 6
  OBVIOUS
<1>3. Kind(8) = "kcode64" /\ Kind(48) = "tss"
  BY <1>1, <1>2, BootTables DEF Kind
<1> QED
  BY <1>1, <1>3, Registers DEF Served

\* The invariant gives every part of BootInv: segments fit, interrupts are delivered,
\* ring 3 is reached through the gates.
LEMMA BootIInvImplies == BootIInv => BootInv
<1> SUFFICES ASSUME BootIInv PROVE BootInv
  OBVIOUS
<1> USE DEF BootIInv
<1>1. BootTypeOK
  <2>1. at \in 0 .. Len(BootOrder)
    BY Places DEF BootTypes
  <2>2. handlers \subseteq {0, 1}
    BY DEF Tables, BootTypes
  <2>3. gdt \in [0 .. 7 -> {"none", "kcode64", "kdata", "ucode32", "udata", "ucode64", "tss",
        "tss_high"}]
    BY DEF Tables, BootTypes, LoaderTable, Descriptors, FullTable
  <2> QED
    BY <2>1, <2>2, <2>3 DEF BootTypeOK, BootTypes
<1>2. SegmentsFit
  <2>1. 40 % 8 = 0 /\ 8 % 8 = 0 /\ 43 % 8 = 3 /\ 40 \div 8 = 5 /\ 48 \div 8 = 6 /\ 8 \div 8 = 1
        /\ 16 \div 8 = 2 /\ 43 \div 8 = 5 /\ 35 \div 8 = 4
    OBVIOUS
  <2>2. CASE at < 4
    <3>1. gdt = LoaderTable /\ seg = LoaderSeg
      BY <2>2 DEF Tables, Segments, BootTypes
    <3>2. seg.cs = 40 /\ seg.ss = 48
      BY <3>1, Registers
    <3> QED
      BY <2>1, <3>1, <3>2, BootTables DEF SegmentsFit, Ring, Kind
  <2>3. CASE at >= 4
    <3>1. gdt[1] = "kcode64" /\ gdt[2] = "kdata"
      BY <2>3, BootTables DEF Tables, BootTypes
    <3>2. CASE seg \in {KernelSeg, PanicSeg}
      <4>1. seg.cs = 8 /\ seg.ss \in {16, 0}
        BY <3>2, Registers
      <4> QED
        BY <2>1, <3>1, <4>1 DEF SegmentsFit, Ring, Kind
    <3>3. CASE seg = UserSeg /\ at = 28
      <4>1. seg.cs = 43 /\ seg.ss = 35
        BY <3>3, Registers
      <4>2. gdt[5] = "ucode64" /\ gdt[4] = "udata"
        BY <3>3, BootTables DEF Tables
      <4> QED
        BY <2>1, <4>1, <4>2 DEF SegmentsFit, Ring, Kind
    <3> QED
      BY <2>3, <3>2, <3>3 DEF Segments, BootTypes
  <2> QED
    BY <2>2, <2>3 DEF BootTypes
<1>3. Delivers
  <2>1. ASSUME idt # <<>> PROVE (\A v \in 0 .. 31 : Served(v)) /\ mode # "reset"
    <3>1. at >= 6
      BY <2>1, HasGates DEF Tables, BootTypes
    <3>2. \A v \in 0 .. 31 : v \in 0 .. 47
      OBVIOUS
    <3> QED
      BY <3>1, <3>2, AllServed DEF Path, BootTypes
  <2>2. ASSUME IF_
        PROVE  /\ \A irq \in pic.open : pic.base + irq >= 32 /\ Served(pic.base + irq)
               /\ pic.open = handlers /\ "fb_init" \in Done
    <3>1. at >= 10
      BY <2>2 DEF Path
    <3>2. pic.base = 32 /\ pic.open = {0, 1} /\ handlers = {0, 1}
      <4>1. pic = PicSet
        BY <3>1 DEF Tables, BootTypes
      <4>2. handlers = {0, 1}
        BY <3>1 DEF Tables, BootTypes
      <4> QED
        BY <4>1, <4>2, Registers
    <3>3. 32 \in 0 .. 47 /\ 33 \in 0 .. 47 /\ 32 + 0 = 32 /\ 32 + 1 = 33
      OBVIOUS
    <3>4. Served(32) /\ Served(33)
      BY <3>1, <3>3, AllServed DEF BootTypes
    <3>5. "fb_init" \in Done
      <4>1. 3 \in 1 .. at
        BY <3>1 DEF BootTypes
      <4> QED
        BY <4>1, QuietPlaces DEF Done
    <3> QED
      BY <3>2, <3>3, <3>4, <3>5
  <2> QED
    BY <2>1, <2>2 DEF Delivers
<1>4. Gated
  <2> SUFFICES ASSUME Ring = 3 \/ at = Len(BootOrder)
               PROVE  /\ ~refused /\ mode # "halted"
                      /\ choice \in {"none", "t", "s"} /\ (choice # "s" => rbx = "entry")
    BY DEF Gated
  <2>1. 40 % 8 = 0 /\ 8 % 8 = 0
    OBVIOUS
  <2>2. at = 28
    BY <2>1, Places, Registers DEF Ring, Segments, BootTypes
  <2> QED
    BY <2>2 DEF Path
<1> QED
  BY <1>1, <1>2, <1>3, <1>4 DEF BootInv

----------------------------------------------------------------------------
(* The calls.                                                               *)

\* The boot path is straight: the call f is made after exactly the calls before it.
LEMMA CallAt ==
  ASSUME BootIInv, NEW f, Calls(f)
  PROVE  /\ mode = "runs" /\ at \in 0 .. 27 /\ at' = at + 1
         /\ at + 1 \in 1 .. 28 /\ BootOrder[at + 1] = f
BY Places DEF Calls, BootIInv, BootTypes

\* gdt_init, tss_init, idt_init and irq_init build the tables in the order they need.
LEMMA TableCalls ==
  ASSUME BootIInv, gdt_init \/ tss_init \/ idt_init \/ irq_init PROVE BootIInv'
<1> USE DEF BootIInv
<1>1. ASSUME gdt_init PROVE BootIInv'
  <2>1. at = 3 /\ at' = 4 /\ mode = "runs"
    BY <1>1, CallAt, Places DEF gdt_init
  <2>8. Tables' /\ Segments'
    BY <1>1, <2>1 DEF gdt_init, BootTypes, Tables, Segments, KernelSeg
  <2>9. BootTypes' /\ Path'
    BY <1>1, <2>1 DEF gdt_init, BootTypes, Path
  <2> QED
    BY <2>8, <2>9
<1>2. ASSUME tss_init PROVE BootIInv'
  <2>1. at = 4 /\ at' = 5 /\ mode = "runs"
    BY <1>2, CallAt, Places DEF tss_init
  <2>8. Tables' /\ Segments'
    BY <1>2, <2>1 DEF tss_init, BootTypes, Tables, Segments, FullTable
  <2>9. BootTypes' /\ Path'
    BY <1>2, <2>1 DEF tss_init, BootTypes, Path
  <2> QED
    BY <2>8, <2>9
<1>3. ASSUME idt_init PROVE BootIInv'
  <2>1. at = 5 /\ at' = 6 /\ mode = "runs"
    BY <1>3, CallAt, Places DEF idt_init
  <2>2. seg.cs = 8
    BY <2>1, Registers DEF Segments
  <2>3. idt' = KernelGates
    BY <1>3, <2>2 DEF idt_init, KernelGates
  <2>8. Tables' /\ Segments'
    BY <1>3, <2>1, <2>3 DEF idt_init, BootTypes, Tables, Segments
  <2>9. BootTypes' /\ Path'
    BY <1>3, <2>1, <2>3 DEF idt_init, BootTypes, Path
  <2> QED
    BY <2>8, <2>9
<1>4. ASSUME irq_init PROVE BootIInv'
  <2>1. at = 6 /\ at' = 7 /\ mode = "runs"
    BY <1>4, CallAt, Places DEF irq_init
  <2>8. Tables' /\ Segments'
    BY <1>4, <2>1 DEF irq_init, BootTypes, Tables, Segments, PicSet
  <2>9. BootTypes' /\ Path'
    BY <1>4, <2>1 DEF irq_init, BootTypes, Path
  <2> QED
    BY <2>8, <2>9
<1> QED
  BY <1>1, <1>2, <1>3, <1>4

\* pit_init, keyboard_init, sti and syscall_init: handlers are there before interrupts
\* are let in.
LEMMA HandlerCalls ==
  ASSUME BootIInv, (\E irq \in {0, 1} : irq_install_handler(irq)) \/ sti \/ syscall_init
  PROVE  BootIInv'
<1> USE DEF BootIInv
<1>1. ASSUME irq_install_handler(0) PROVE BootIInv'
  <2>1. at = 7 /\ at' = 8 /\ mode = "runs"
    BY <1>1, CallAt, Places DEF irq_install_handler
  <2>8. Tables' /\ Segments'
    BY <1>1, <2>1 DEF irq_install_handler, BootTypes, Tables, Segments
  <2>9. BootTypes' /\ Path'
    BY <1>1, <2>1 DEF irq_install_handler, BootTypes, Path
  <2> QED
    BY <2>8, <2>9
<1>2. ASSUME irq_install_handler(1) PROVE BootIInv'
  <2>1. at = 8 /\ at' = 9 /\ mode = "runs"
    BY <1>2, CallAt, Places DEF irq_install_handler
  <2>8. Tables' /\ Segments'
    BY <1>2, <2>1 DEF irq_install_handler, BootTypes, Tables, Segments
  <2>9. BootTypes' /\ Path'
    BY <1>2, <2>1 DEF irq_install_handler, BootTypes, Path
  <2> QED
    BY <2>8, <2>9
<1>3. ASSUME sti PROVE BootIInv'
  <2>1. at = 9 /\ at' = 10 /\ mode = "runs"
    BY <1>3, CallAt, Places DEF sti
  <2>8. Tables' /\ Segments'
    BY <1>3, <2>1 DEF sti, BootTypes, Tables, Segments
  <2>9. BootTypes' /\ Path'
    BY <1>3, <2>1 DEF sti, BootTypes, Path
  <2> QED
    BY <2>8, <2>9
<1>4. ASSUME syscall_init PROVE BootIInv'
  <2>1. at = 19 /\ at' = 20 /\ mode = "runs"
    BY <1>4, CallAt, Places DEF syscall_init
  <2>8. Tables' /\ Segments'
    BY <1>4, <2>1 DEF syscall_init, BootTypes, Tables, Segments, StarSet
  <2>9. BootTypes' /\ Path'
    BY <1>4, <2>1 DEF syscall_init, BootTypes, Path
  <2> QED
    BY <2>8, <2>9
<1> QED
  BY <1>1, <1>2, <1>3, <1>4

\* The load of the first program, the menu and sched_start.
LEMMA LateCalls == ASSUME BootIInv, load \/ menu \/ StartTask PROVE BootIInv'
<1> USE DEF BootIInv
<1>1. ASSUME load PROVE BootIInv'
  <2>1. at = 24 /\ at' = 25 /\ mode = "runs"
    BY <1>1, CallAt, Places DEF load
  <2>8. Tables' /\ Segments'
    BY <1>1, <2>1 DEF load, BootTypes, Tables, Segments
  <2>9. BootTypes' /\ Path'
    BY <1>1, <2>1 DEF load, BootTypes, Path
  <2> QED
    BY <2>8, <2>9
<1>2. ASSUME menu PROVE BootIInv'
  <2>1. at = 26 /\ at' = 27 /\ mode = "runs"
    BY <1>2, CallAt, Places DEF menu
  <2>2. Tables' /\ Segments'
    BY <1>2, <2>1 DEF menu, Tables, Segments
  <2>3. BootTypes' /\ Path'
    <3>1. UNCHANGED refused /\ ~refused /\ rbx = "entry"
      BY <1>2, <2>1 DEF menu, Path
    <3>2. PICK key \in {"none", "t", "s", "n", "h", "v"} :
            /\ choice' = key
            /\ \/ mode' = "halted" /\ IF_' = FALSE /\ rbx' = rbx
               \/ key \in {"none", "t", "s"} /\ UNCHANGED <<mode, IF_, rbx>>
               \/ key = "s" /\ rbx' = "test" /\ UNCHANGED <<mode, IF_>>
      BY <1>2 DEF menu
    <3>3. BootTypes'
      <4>1. at' \in 0 .. 28
        BY <2>1
      <4>2. IF_' \in BOOLEAN /\ refused' \in BOOLEAN
        BY <3>1, <3>2, Zenon DEF BootTypes
      <4>3. mode' \in {"runs", "halted"} /\ rbx' \in {"entry", "test"}
        BY <2>1, <3>1, <3>2
      <4> QED
        BY <4>1, <4>2, <4>3 DEF BootTypes
    <3>4. Path'
      BY <2>1, <3>1, <3>2 DEF Path
    <3> QED
      BY <3>3, <3>4
  <2> QED
    BY <2>2, <2>3
<1>3. ASSUME StartTask PROVE BootIInv'
  <2>1. at = 27 /\ at' = 28 /\ mode = "runs"
    BY <1>3, CallAt, Places DEF StartTask
  <2>8. Tables' /\ Segments'
    BY <1>3, <2>1 DEF StartTask, BootTypes, Tables, Segments, UserSeg
  <2>9. BootTypes' /\ Path'
    BY <1>3, <2>1 DEF StartTask, BootTypes, Path
  <2> QED
    BY <2>8, <2>9
<1> QED
  BY <1>1, <1>2, <1>3

\* The other calls of the path, and the ones that fail.
LEMMA OtherCalls ==
  ASSUME BootIInv, (\E f \in Quiet : Succeed(f)) \/ (\E f \in MayFail : Fail(f))
  PROVE  BootIInv'
<1> USE DEF BootIInv
<1>1. ASSUME NEW f \in Quiet, Succeed(f) PROVE BootIInv'
  <2>1. /\ at' = at + 1 /\ mode = "runs"
        /\ at' \in (1 .. 3) \cup (11 .. 19) \cup (21 .. 24) \cup {26}
    BY <1>1, CallAt, QuietPlaces DEF Succeed
  <2>2. Tables' /\ Segments'
    BY <1>1, <2>1 DEF Succeed, BootTypes, Tables, Segments
  <2>3. BootTypes' /\ Path'
    BY <1>1, <2>1 DEF Succeed, BootTypes, Path
  <2> QED
    BY <2>2, <2>3
<1>2. ASSUME NEW f \in MayFail, Fail(f) PROVE BootIInv'
  <2>1. /\ at' = at + 1 /\ mode = "runs" /\ mode' = "halted"
        /\ at' \in {2, 3, 11, 19, 21, 23, 24, 25}
    BY <1>2, CallAt, QuietPlaces DEF Fail, Stop
  <2>2. Tables' /\ Segments'
    BY <1>2, <2>1 DEF Fail, BootTypes, Tables, Segments
  <2>3. BootTypes' /\ Path'
    BY <1>2, <2>1 DEF Fail, BootTypes, Path
  <2> QED
    BY <2>2, <2>3
<1> QED
  BY <1>1, <1>2

\* What the processor does on its own, at any time: system call, return, exception,
\* interrupt.
LEMMA ProcessorOK ==
  ASSUME BootIInv, SyscallInsn \/ SysretInsn \/ Exception \/ \E irq \in {0, 1} : Interrupt(irq)
  PROVE  BootIInv'
<1> USE DEF BootIInv
<1>0. 40 % 8 = 0 /\ 8 % 8 = 0 /\ 8 + 8 = 16 /\ 24 + 16 + 3 = 40 + 3 /\ 24 + 8 + 3 = 32 + 3
  OBVIOUS
<1>1. ASSUME SyscallInsn PROVE BootIInv'
  <2>1. at = 28
    BY <1>0, <1>1, Registers DEF SyscallInsn, Ring, Segments, BootTypes
  <2>2. seg' = KernelSeg
    BY <1>0, <1>1, <2>1, Registers DEF SyscallInsn, Tables, KernelSeg
  <2>8. Tables' /\ Segments'
    BY <1>1, <2>1, <2>2 DEF SyscallInsn, BootTypes, Tables, Segments
  <2>9. BootTypes' /\ Path'
    BY <1>1, <2>1, <2>2 DEF SyscallInsn, BootTypes, Path
  <2> QED
    BY <2>8, <2>9
<1>2. ASSUME SysretInsn PROVE BootIInv'
  <2>1. at = 28
    BY <1>2, Places DEF SysretInsn
  <2>2. seg' = UserSeg
    BY <1>0, <1>2, <2>1, Registers DEF SysretInsn, Tables, UserSeg
  <2>8. Tables' /\ Segments'
    BY <1>2, <2>1, <2>2 DEF SysretInsn, BootTypes, Tables, Segments
  <2>9. BootTypes' /\ Path'
    BY <1>2, <2>1, <2>2 DEF SysretInsn, BootTypes, Path
  <2> QED
    BY <2>8, <2>9
<1>3. ASSUME Exception PROVE BootIInv'
  <2>0. UNCHANGED <<at, gdt, tr, idt, pic, handlers, star, rbx, choice, refused>>
        /\ mode \in {"runs", "halted"}
    BY <1>3 DEF Exception
  <2>1. CASE \A v \in 0 .. 31 : Served(v)
    <3>1. at >= 6 /\ idt[0] = 8
      <4>1. Served(0) /\ 0 \in DOMAIN idt
        BY <2>1 DEF Served
      <4>2. idt # <<>>
        BY <4>1
      <4> QED
        <5>1. ~(at < 6) /\ at \in 0 .. 28 /\ idt = KernelGates
          BY <4>2 DEF Tables, BootTypes
        <5>2. KernelGates[0] = 8
          BY Registers
        <5> QED
          BY <5>1, <5>2
    <3>2. mode' = "panic" /\ IF_' = FALSE /\ seg' = PanicSeg
      BY <1>3, <2>1, <3>1 DEF Exception, PanicSeg
    <3>3. Tables' /\ Segments'
      BY <2>0, <3>1, <3>2 DEF BootTypes, Tables, Segments
    <3>4. BootTypes' /\ Path'
      BY <2>0, <3>1, <3>2 DEF BootTypes, Path
    <3> QED
      BY <3>3, <3>4
  <2>2. CASE ~\A v \in 0 .. 31 : Served(v)
    <3>1. at < 6
      <4>1. \A v \in 0 .. 31 : v \in 0 .. 47
        OBVIOUS
      <4> QED
        BY <2>2, <4>1, AllServed DEF BootTypes
    <3>2. mode' = "reset" /\ UNCHANGED <<IF_, seg>>
      BY <1>3, <2>2 DEF Exception
    <3>3. Tables' /\ Segments'
      BY <2>0, <3>1, <3>2 DEF BootTypes, Tables, Segments
    <3>4. BootTypes' /\ Path'
      BY <2>0, <3>1, <3>2 DEF BootTypes, Path
    <3> QED
      BY <3>3, <3>4
  <2> QED
    BY <2>1, <2>2
<1>4. ASSUME NEW irq \in {0, 1}, Interrupt(irq) PROVE BootIInv'
  <2>1. at >= 10 /\ pic.base = 32
    <3>1. at >= 10
      BY <1>4 DEF Interrupt, Path
    <3>2. pic = PicSet
      BY <3>1 DEF Tables, BootTypes
    <3> QED
      BY <3>1, <3>2, Registers
  <2>2. pic.base + irq \in 0 .. 47 /\ ~(pic.base + irq < 32)
    BY <2>1
  <2>3. Served(pic.base + irq)
    BY <2>1, <2>2, AllServed DEF BootTypes
  <2>4. UNCHANGED bootVars
    BY <1>4, <2>2, <2>3 DEF Interrupt, bootVars
  <2>8. Tables' /\ Segments'
    BY <2>4 DEF bootVars, BootTypes, Tables, Segments
  <2>9. BootTypes' /\ Path'
    BY <2>4 DEF bootVars, BootTypes, Path
  <2> QED
    BY <2>8, <2>9
<1> QED
  BY <1>1, <1>2, <1>3, <1>4

\* Every step keeps the invariant.
LEMMA BootStep == BootIInv /\ [BootNext]_bootVars => BootIInv'
<1>1. ASSUME BootIInv, UNCHANGED bootVars PROVE BootIInv'
  <2>1. Tables' /\ Segments'
    BY <1>1 DEF bootVars, BootIInv, Tables, Segments
  <2>2. BootTypes' /\ Path'
    BY <1>1 DEF bootVars, BootIInv, BootTypes, Path
  <2> QED
    BY <2>1, <2>2 DEF BootIInv
<1> QED
  BY <1>1, TableCalls, HandlerCalls, LateCalls, OtherCalls, ProcessorOK DEF BootNext

\* The processor can always go on, interrupts are delivered to handlers that exist, and
\* ring 3 is reached only through attestation, self-test and authentication, whatever fails
\* and whenever an exception or interrupt comes (_start in main.c).
THEOREM BootSafe == BootSpec => []BootInv
BY BootInitOK, BootStep, BootIInvImplies, PTL DEF BootSpec

----------------------------------------------------------------------------
(* Entering and leaving the kernel.                                         *)

\* Where a task can stand, and what its kernel stack and saved registers then hold: one
\* frame inside a call or an interrupt, none in ring 3 or before the trampoline
\* (syscall.asm, irq.asm, task.asm).
StandsAt(t, p) ==
  \/ t = KTask /\ p \in {"start", "idle"} /\ kstack[t] = <<>>
  \/ t = KTask /\ p = "irq"
     /\ \E v \in Values : kstack[t] = <<[kind |-> "idle", rsp |-> KTask, val |-> v]>>
  \/ t \in Users /\ p \in {"syscall", "irq"}
     /\ kstack[t] = <<[kind |-> p, rsp |-> t, val |-> shadow[t]]>>
  \/ t \in Users /\ p = "trampoline" /\ kstack[t] = <<>> /\ shadow[t] = Blank /\ regs[t] = Fresh
  \/ t \in Users /\ p = "user" /\ kstack[t] = <<>>

\* The inductive invariant: every task stands at a place with the stack that goes with
\* it, and processor, TSS and page-table root are those of the current task.
ContextIInv ==
  /\ ContextTypeOK
  /\ rsp0 = current /\ cpu.cr3 = current
  /\ StandsAt(current, place)
  /\ place = "user" => cpu.val = shadow[current] /\ cpu.rsp = current
  /\ \A t \in AllTasks \ {current} : StandsAt(t, RipOf(t))

\* The registers of a fresh task hold a value.
LEMMA BlankIsValue == Blank \in Values
BY ContextAssumption DEF Blank

\* The kernel task is none of the user tasks.
LEMMA KTaskNotUser == KTask \notin Users
BY ContextAssumption DEF KTask

\* Popping a stack of one frame.
LEMMA PopOne ==
  ASSUME NEW x
  PROVE /\ SubSeq(<<x>>, 1, Len(<<x>>) - 1) = <<>>
        /\ <<x>>[Len(<<x>>)] = x /\ Len(<<x>>) = 1
OBVIOUS

\* A task whose stack, saved registers and program state a step leaves alone stands
\* where it stood.
LEMMA Unmoved ==
  ASSUME NEW t \in AllTasks, kstack'[t] = kstack[t], regs'[t] = regs[t],
         t \in Users => shadow'[t] = shadow[t]
  PROVE  /\ RipOf(t)' = RipOf(t)
         /\ \A p : StandsAt(t, p) => StandsAt(t, p)'
BY DEF RipOf, StandsAt

\* The initial state satisfies the invariant.
LEMMA ContextInitOK == ContextInit => ContextIInv
<1> SUFFICES ASSUME ContextInit PROVE ContextIInv
  OBVIOUS
<1> USE BlankIsValue, KTaskNotUser DEF ContextInit, AllTasks
<1>1. ContextTypeOK
  <2>1. kstack \in [AllTasks -> Seq(Frames)]
    OBVIOUS
  <2> QED
    <3>1. regs \in [AllTasks -> [rip : {"entry", "start", "syscall", "irq"}, depth : 0 .. 2]]
      BY DEF Fresh
    <3>2. cpu \in [val : Values, rsp : AllTasks, cr3 : AllTasks] /\ unacked \in BOOLEAN
      OBVIOUS
    <3> QED
      BY <2>1, <3>1, <3>2 DEF ContextTypeOK
<1>2. \A t \in AllTasks : kstack[t] = <<>> /\ regs[t] = Fresh
  OBVIOUS
<1>3. \A t \in AllTasks \ {current} : StandsAt(t, RipOf(t))
  BY <1>2 DEF StandsAt, RipOf
<1>4. StandsAt(current, place)
  BY <1>2 DEF StandsAt
<1> QED
  BY <1>1, <1>3, <1>4 DEF ContextIInv

\* The invariant gives every part of ContextInv.
LEMMA ContextIInvImplies == ContextIInv => ContextInv
<1> SUFFICES ASSUME ContextIInv PROVE ContextInv
  OBVIOUS
<1> USE KTaskNotUser DEF ContextIInv
<1>1. RunsAsItself
  BY DEF RunsAsItself, StandsAt, ContextTypeOK
<1>2. FramesKept
  BY DEF FramesKept, StandsAt, ContextTypeOK, RipOf, Fresh, AllTasks
<1>3. BootStackBounded
  <2>1. \E p : StandsAt(KTask, p)
    BY DEF AllTasks
  <2>2. \/ kstack[KTask] = <<>>
        \/ \E v \in Values : kstack[KTask] = <<[kind |-> "idle", rsp |-> KTask, val |-> v]>>
    BY <2>1 DEF StandsAt
  <2>3. CASE kstack[KTask] = <<>>
    BY <2>3 DEF BootStackBounded
  <2>4. ASSUME NEW v, kstack[KTask] = <<[kind |-> "idle", rsp |-> KTask, val |-> v]>>
        PROVE BootStackBounded
    BY <2>4 DEF BootStackBounded
  <2> QED
    BY <2>2, <2>3, <2>4
<1>4. EntersOnce
  BY DEF StandsAt, EntersOnce
<1> QED
  BY <1>1, <1>2, <1>3, <1>4 DEF ContextInv

\* Every crossing between ring 3 and the kernel keeps the invariant.
LEMMA ContextStep == ContextIInv /\ [ContextNext]_ctxVars => ContextIInv'
<1> SUFFICES ASSUME ContextIInv, [ContextNext]_ctxVars PROVE ContextIInv'
  OBVIOUS
<1> USE KTaskNotUser, BlankIsValue DEF AllTasks
<1>0. /\ ContextTypeOK /\ StandsAt(current, place) /\ rsp0 = current /\ cpu.cr3 = current
      /\ \A t \in AllTasks \ {current} : StandsAt(t, RipOf(t))
      /\ place = "user" => cpu.val = shadow[current] /\ cpu.rsp = current
  BY DEF ContextIInv
<1>1. CASE Compute
  <2>1. current \in Users /\ kstack[current] = <<>>
    BY <1>0, <1>1 DEF Compute, StandsAt
  <2>2. ContextTypeOK'
    <3>1. PICK v \in Values : cpu' = [cpu EXCEPT !.val = v]
          /\ shadow' = [shadow EXCEPT ![current] = v]
      BY <1>1 DEF Compute
    <3>2. cpu' \in [val : Values, rsp : AllTasks, cr3 : AllTasks] /\ shadow' \in [Users -> Values]
      BY <1>0, <3>1 DEF ContextTypeOK
    <3> QED
      BY <1>0, <1>1, <3>2 DEF Compute, ContextTypeOK
  <2>3. \A t \in AllTasks \ {current} : StandsAt(t, RipOf(t))'
    BY <1>0, <1>1, Unmoved DEF Compute, ContextTypeOK
  <2>4. StandsAt(current, place)'
    BY <1>1, <2>1 DEF Compute, StandsAt
  <2> QED
    BY <1>0, <1>1, <2>1, <2>2, <2>3, <2>4 DEF Compute, ContextIInv, ContextTypeOK
<1>2. CASE syscall_entry
  <2>1. current \in Users /\ kstack[current] = <<>>
    BY <1>0, <1>2 DEF syscall_entry, StandsAt
  <2> DEFINE f == [kind |-> "syscall", rsp |-> current, val |-> shadow[current]]
  <2>2. Frame("syscall", cpu.rsp) = f /\ f \in Frames
    BY <1>0, <1>2, <2>1 DEF syscall_entry, Frame, Frames, ContextTypeOK
  <2>3. kstack' = [kstack EXCEPT ![current] = <<f>>]
    BY <1>2, <2>2 DEF syscall_entry
  <2>4. kstack' \in [AllTasks -> Seq(Frames)] /\ kstack'[current] = <<f>>
    BY <1>0, <2>1, <2>2, <2>3 DEF ContextTypeOK
  <2>5. ContextTypeOK'
    BY <1>0, <1>2, <2>4 DEF syscall_entry, ContextTypeOK
  <2>6. \A t \in AllTasks \ {current} : StandsAt(t, RipOf(t))'
    BY <1>0, <1>2, <2>3, Unmoved DEF syscall_entry, ContextTypeOK
  <2>7. StandsAt(current, place)'
    BY <1>2, <2>1, <2>4 DEF syscall_entry, StandsAt
  <2> QED
    BY <1>0, <1>2, <2>5, <2>6, <2>7 DEF syscall_entry, ContextIInv
<1>3. CASE irq_entry
  <2>1. kstack[current] = <<>> /\ current' = current /\ place' = "irq"
    BY <1>0, <1>3 DEF irq_entry, StandsAt
  <2> DEFINE f == IF place = "user" THEN Frame("irq", cpu.rsp) ELSE Frame("idle", KTask)
  <2>2. f \in Frames
    BY <1>0 DEF Frame, Frames, ContextTypeOK
  <2>3. kstack' = [kstack EXCEPT ![current] = <<f>>]
    <3>1. CASE place = "user"
      BY <1>0, <1>3, <3>1 DEF irq_entry
    <3>2. CASE place = "idle"
      <4>1. Append(<<>>, Frame("idle", KTask)) = <<f>>
        BY <3>2
      <4> QED
        BY <1>3, <2>1, <3>2, <4>1 DEF irq_entry
    <3> QED
      BY <1>3, <3>1, <3>2 DEF irq_entry
  <2> HIDE DEF f
  <2>4. kstack' \in [AllTasks -> Seq(Frames)] /\ kstack'[current] = <<f>>
    BY <1>0, <2>1, <2>2, <2>3 DEF ContextTypeOK
  <2>5. ContextTypeOK'
    BY <1>0, <1>3, <2>4 DEF irq_entry, ContextTypeOK
  <2>6. \A t \in AllTasks \ {current} : StandsAt(t, RipOf(t))'
    BY <1>0, <1>3, <2>3, Unmoved DEF irq_entry, ContextTypeOK
  <2>7. StandsAt(current, "irq")'
    <3>1. CASE place = "user"
      <4>1. current \in Users /\ f = [kind |-> "irq", rsp |-> current, val |-> shadow'[current]]
        BY <1>0, <1>3, <3>1 DEF f, Frame, StandsAt, irq_entry
      <4> QED
        BY <2>1, <2>4, <4>1 DEF StandsAt
    <3>2. CASE place = "idle"
      <4>1. current = KTask /\ cpu.val \in Values
            /\ f = [kind |-> "idle", rsp |-> KTask, val |-> cpu.val]
        BY <1>0, <3>2 DEF f, Frame, StandsAt, ContextTypeOK
      <4> QED
        BY <2>1, <2>4, <4>1 DEF StandsAt
    <3> QED
      BY <1>3, <3>1, <3>2 DEF irq_entry
  <2> QED
    BY <1>0, <1>3, <2>1, <2>5, <2>6, <2>7 DEF irq_entry, ContextIInv
<1>4. CASE task_entry_trampoline
  <2>1. current \in Users /\ kstack[current] = <<>> /\ shadow[current] = Blank
    BY <1>0, <1>4 DEF task_entry_trampoline, StandsAt
  <2>2. ContextTypeOK' /\ cpu'.rsp = current /\ cpu'.val = shadow[current] /\ cpu'.cr3 = current
    BY <1>0, <1>4, <2>1 DEF task_entry_trampoline, ContextTypeOK
  <2>3. \A t \in AllTasks \ {current} : StandsAt(t, RipOf(t))'
    BY <1>0, <1>4, Unmoved DEF task_entry_trampoline
  <2>4. StandsAt(current, place)'
    BY <1>4, <2>1 DEF task_entry_trampoline, StandsAt
  <2> QED
    BY <1>0, <1>4, <2>2, <2>3, <2>4 DEF task_entry_trampoline, ContextIInv
<1>5. CASE sysret
  <2> DEFINE f == [kind |-> "syscall", rsp |-> current, val |-> shadow[current]]
  <2>1. current \in Users /\ kstack[current] = <<f>>
    BY <1>0, <1>5 DEF sysret, StandsAt
  <2>2. Top = f /\ SubSeq(kstack[current], 1, Len(kstack[current]) - 1) = <<>>
    BY <2>1, PopOne DEF Top
  <2>3. kstack' = [kstack EXCEPT ![current] = <<>>]
    BY <1>5, <2>2 DEF sysret, Popped
  <2>4. kstack' \in [AllTasks -> Seq(Frames)] /\ kstack'[current] = <<>>
    BY <1>0, <2>1, <2>3 DEF ContextTypeOK
  <2>5. ContextTypeOK' /\ cpu'.rsp = current /\ cpu'.val = shadow[current] /\ cpu'.cr3 = current
    BY <1>0, <1>5, <2>1, <2>2, <2>4 DEF sysret, UserRsp, ContextTypeOK
  <2>6. \A t \in AllTasks \ {current} : StandsAt(t, RipOf(t))'
    BY <1>0, <1>5, <2>3, Unmoved DEF sysret, ContextTypeOK
  <2>7. StandsAt(current, place)'
    BY <1>5, <2>1, <2>4 DEF sysret, StandsAt
  <2> QED
    BY <1>0, <1>5, <2>5, <2>6, <2>7 DEF sysret, ContextIInv
<1>6. CASE iretq
  <2>1. PICK f \in Frames : kstack[current] = <<f>>
    BY <1>0, <1>6 DEF iretq, StandsAt, Frames, ContextTypeOK
  <2>2. Top = f /\ SubSeq(kstack[current], 1, Len(kstack[current]) - 1) = <<>>
    BY <2>1, PopOne DEF Top
  <2>3. kstack' = [kstack EXCEPT ![current] = <<>>] /\ current' = current
    BY <1>6, <2>2 DEF iretq, Popped
  <2>4. kstack' \in [AllTasks -> Seq(Frames)] /\ kstack'[current] = <<>>
    BY <1>0, <2>3 DEF ContextTypeOK
  <2>5. \/ f.kind = "idle" /\ current = KTask
        \/ current \in Users /\ f = [kind |-> "irq", rsp |-> current, val |-> shadow[current]]
    BY <1>0, <1>6, <2>1, PopOne DEF iretq, StandsAt
  <2>6. \A t \in AllTasks \ {current} : StandsAt(t, RipOf(t))'
    BY <1>0, <1>6, <2>3, Unmoved DEF iretq, ContextTypeOK
  <2>7. CASE f.kind = "idle" /\ current = KTask
    <3>1. place' = "idle" /\ cpu' = cpu
      BY <1>6, <2>2, <2>7 DEF iretq
    <3>2. ContextTypeOK'
      BY <1>0, <1>6, <2>4, <3>1 DEF iretq, ContextTypeOK
    <3>3. StandsAt(current, place)'
      BY <2>3, <2>4, <2>7, <3>1 DEF StandsAt
    <3> QED
      BY <1>0, <1>6, <2>3, <2>6, <3>1, <3>2, <3>3 DEF iretq, ContextIInv
  <2>8. CASE current \in Users /\ f = [kind |-> "irq", rsp |-> current, val |-> shadow[current]]
    <3>1. place' = "user" /\ cpu' = [cpu EXCEPT !.rsp = current, !.val = shadow[current]]
      BY <1>6, <2>2, <2>8 DEF iretq
    <3>2. ContextTypeOK' /\ cpu'.rsp = current /\ cpu'.val = shadow[current] /\ cpu'.cr3 = current
      BY <1>0, <1>6, <2>4, <2>8, <3>1 DEF iretq, ContextTypeOK
    <3>3. StandsAt(current, place)'
      BY <2>3, <2>4, <2>8, <3>1 DEF StandsAt
    <3> QED
      BY <1>0, <1>6, <2>3, <2>6, <3>1, <3>2, <3>3 DEF iretq, ContextIInv
  <2> QED
    BY <2>5, <2>7, <2>8
<1>7. CASE IdleLoop
  BY <1>7 DEF IdleLoop, ContextIInv, ContextTypeOK, StandsAt, RipOf, Fresh
<1>8. ASSUME NEW n \in AllTasks, task_switch(n) PROVE ContextIInv'
  <2>1. /\ n # current /\ place \in {"start", "syscall", "irq"} /\ current \in AllTasks
        /\ kstack' = kstack /\ shadow' = shadow /\ current' = n
    BY <1>0, <1>8 DEF task_switch, ContextTypeOK
  <2>2. Len(kstack[current]) = 0 \/ Len(kstack[current]) = 1
    <3>1. CASE kstack[current] = <<>>
      BY <3>1
    <3>2. ASSUME NEW f, kstack[current] = <<f>> PROVE Len(kstack[current]) = 1
      BY <3>2, PopOne
    <3>3. kstack[current] = <<>> \/ \E f : kstack[current] = <<f>>
      BY <1>0, <2>1 DEF StandsAt
    <3> QED
      BY <3>1, <3>2, <3>3
  <2> DEFINE r == [rip |-> place, depth |-> Len(kstack[current]) + 1]
  <2>3. r \in [rip : {"entry", "start", "syscall", "irq"}, depth : 0 .. 2] /\ r # Fresh
    <3>0. \A k : k = 0 \/ k = 1 => k + 1 \in 0 .. 2
      OBVIOUS
    <3>1. Len(kstack[current]) + 1 \in 0 .. 2
      BY <2>2, <3>0
    <3> QED
      BY <2>1, <3>1 DEF Fresh
  <2>4. regs' = [regs EXCEPT ![current] = r]
    BY <1>8 DEF task_switch
  <2>5. place' = RipOf(n) /\ RipOf(n) \in {"start", "syscall", "irq", "trampoline"}
    <3>1. RipOf(n) \in {"entry", "start", "syscall", "irq", "trampoline"}
      BY <1>0 DEF RipOf, ContextTypeOK
    <3>2. StandsAt(n, RipOf(n))
      BY <1>0, <2>1
    <3>3. RipOf(n) # "entry"
      BY <3>2 DEF StandsAt
    <3> QED
      BY <1>8, <3>1, <3>3 DEF task_switch
  <2> HIDE DEF r
  <2>6. ContextTypeOK' /\ cpu'.cr3 = n /\ rsp0' = n
    <3>1. regs' \in [AllTasks -> [rip : {"entry", "start", "syscall", "irq"}, depth : 0 .. 2]]
      BY <1>0, <2>3, <2>4 DEF ContextTypeOK
    <3>2. cpu' \in [val : Values, rsp : AllTasks, cr3 : AllTasks] /\ cpu'.cr3 = n
      BY <1>0, <1>8 DEF task_switch, ContextTypeOK
    <3> QED
      BY <1>0, <1>8, <2>1, <2>5, <3>1, <3>2 DEF task_switch, KernelStack, ContextTypeOK
  <2>7. \A t \in AllTasks \ {current} : RipOf(t)' = RipOf(t)
        /\ \A p : StandsAt(t, p) => StandsAt(t, p)'
    BY <1>0, <2>1, <2>4, Unmoved DEF ContextTypeOK
  <2>8. ASSUME NEW t, t = current PROVE StandsAt(t, RipOf(t))'
    <3>1. regs'[t] = r /\ r.rip = place
      BY <1>0, <2>1, <2>4, <2>8 DEF ContextTypeOK, r
    <3>2. RipOf(t)' = place
      BY <2>3, <3>1 DEF RipOf
    <3> QED
      BY <1>0, <2>1, <2>8, <3>2 DEF StandsAt
  <2>9. \A t \in AllTasks \ {current'} : StandsAt(t, RipOf(t))'
    BY <1>0, <2>1, <2>7, <2>8
  <2> QED
    BY <1>0, <2>1, <2>5, <2>6, <2>7, <2>9 DEF ContextIInv
<1>9. CASE UNCHANGED ctxVars
  <2>1. ContextTypeOK'
    BY <1>0, <1>9 DEF ctxVars, ContextTypeOK
  <2>2. \A t \in AllTasks : RipOf(t)' = RipOf(t) /\ \A p : StandsAt(t, p) => StandsAt(t, p)'
    BY <1>9, Unmoved DEF ctxVars
  <2>3. \A t \in AllTasks \ {current} : StandsAt(t, RipOf(t))'
    BY <1>0, <2>2
  <2>4. StandsAt(current, place)'
    BY <1>0, <1>9, <2>2 DEF ctxVars, ContextTypeOK
  <2> QED
    BY <1>0, <1>9, <2>1, <2>3, <2>4 DEF ctxVars, ContextIInv
<1> QED
  BY <1>1, <1>2, <1>3, <1>4, <1>5, <1>6, <1>7, <1>8, <1>9 DEF ContextNext

\* Each task goes on as itself, on its own stack and in its own address space, for any
\* set of tasks and register values and through any nesting of calls, interrupts and
\* switches (syscall_entry, irq_common, task_switch, task_trampoline).
THEOREM ContextSafe == ContextSpec => []ContextInv
BY ContextInitOK, ContextStep, ContextIInvImplies, PTL DEF ContextSpec

----------------------------------------------------------------------------
(* Attestation.                                                             *)

\* The TPM has bytes of a command, works on one or has its answer.
Busy == tis \in {"reception", "execution", "completion"}
\* The length of an answer.
Full(kind, ok) == IF ok THEN AnswerLength[kind] ELSE HEADER
\* The commands of a boot.
Cmds == {Script[j] : j \in 1 .. 9}
\* tpm2_verify_attestation has read PCR i.
Looked(i) == step > 6 + i \/ (stage = "idle" /\ step = 6 + i)

\* Every variable has its type; the kernel's copy of the PCRs holds what was measured up
\* to the present command (tpm2_pcr_extend).
TpmTypes ==
  /\ tis \in {"ones", "idle", "ready", "aborting", "reception", "execution", "completion"}
  /\ stage \in {"idle", "call", "ready", "bytes", "go", "answer", "read", "returned"}
  /\ verdict \in {"none", "attested", "refused"}
  /\ g_tis_ready \in BOOLEAN /\ result \in BOOLEAN
  /\ number \in Nat /\ executed \in 0 .. number /\ sent \in Nat
  /\ step \in 0 .. 9 /\ (step = 0 => stage = "idle" /\ verdict = "none")
  /\ hw \in [Pcrs -> Seq(Pcrs)] /\ \A i \in Pcrs : \A k \in DOMAIN hw[i] : hw[i][k] = i
  /\ pcr = [i \in Pcrs |-> IF step >= 3 + i THEN <<i>> ELSE <<>>]
  /\ seen \in [Pcrs -> Seq(Int)]

\* What the TPM has received are bytes of the last command sent and of no other, since
\* each command begins by dropping the one before (tpm_tis_send_cmd).
Received ==
  /\ ~Busy => fifo = EmptyFifo
  /\ Busy => /\ fifo.of = {number} /\ fifo.cmd \in Cmds
             /\ fifo.count \in 1 .. Announced[fifo.cmd.kind]
             /\ fifo.cmd.kind = "extend" => fifo.digest = <<fifo.cmd.pcr>> /\ step <= 6
             /\ stage # "call" => fifo.cmd = Pending
  /\ ~g_tis_ready => tis \in {"ones", "idle"}

\* An answer the TPM holds is to the last command sent.
Answered ==
  /\ tis # "completion" => answer = NoAnswer
  /\ tis = "completion" =>
       /\ answer.cmd = number /\ answer.ok \in BOOLEAN
       /\ answer.left \in 0 .. Full(fifo.cmd.kind, answer.ok)
       /\ answer.ok => executed = number
       /\ answer.ok /\ fifo.cmd.kind = "read" => answer.value = hw[fifo.cmd.pcr]

\* Each wait of tpm_tis_send_cmd: what is sent, received and read so far.  Where every
\* register reads as ones nothing is.
Sending ==
  /\ stage \in {"ready", "bytes", "go", "answer", "read"} => g_tis_ready
  /\ stage \in {"ready", "bytes", "go", "answer"} => got = NoResponse
  /\ stage \in {"ready", "bytes"} => sent < BytesSent[Pending.kind]
  /\ tis # "ones" =>
       /\ stage = "ready" => tis \in {"ready", "aborting"} /\ sent = 0
       /\ stage = "bytes" => /\ fifo.count = sent
                             /\ tis = IF sent = 0 THEN "ready" ELSE "reception"
       /\ stage = "go" => tis = "reception"
       /\ stage = "answer" => Busy
       /\ stage = "answer" /\ tis = "completion" =>
            answer.left = Full(fifo.cmd.kind, answer.ok)
       /\ stage = "read" =>
            /\ tis = "completion" /\ got.count \in Nat
            /\ got.count + answer.left = Full(fifo.cmd.kind, answer.ok)
            /\ got.count > 0 => got.cmd = number /\ got.ok = answer.ok
            /\ got.count >= READ_MIN => got.value = answer.value

\* What a success says when tpm_tis_send_cmd returns: a whole answer is this command's.
Reported ==
  stage = "returned" /\ result =>
    /\ g_tis_ready /\ tis = "ready"
    /\ got.count \in Nat
    /\ got.count >= HEADER =>
         /\ got.cmd = number /\ executed = number /\ got.count <= AnswerLength[Pending.kind]
         /\ Pending.kind = "read" /\ got.count >= READ_MIN => got.value = hw[Pending.pcr]

\* What tpm2_verify_attestation has seen, and what its verdict rests on.
Attesting ==
  /\ \A i \in Pcrs : Looked(i) => seen[i] \in {<<i>>, Window(hw[i])}
  /\ verdict # "none" => stage = "idle"
  /\ stage = "idle" /\ step > 0 => step \in {8, 9}
  /\ verdict = "attested" => step = 9
  /\ verdict = "refused" => g_tis_ready /\ got.count >= AnswerLength.quote

\* The inductive invariant: driver and TPM agree on the command at every wait, late answers
\* included.
TpmIInv == TpmTypes /\ Received /\ Answered /\ Sending /\ Reported /\ Attesting

\* The named assumption in the form the proofs use.
LEMMA TpmConstants ==
  /\ BytesSent \in [Kinds -> Nat \ {0}] /\ Announced \in [Kinds -> Nat \ {0}]
  /\ AnswerLength \in [Kinds -> Nat \ {0}] /\ HEADER \in Nat \ {0}
  /\ \A k \in Kinds : AnswerLength[k] >= HEADER /\ BytesSent[k] <= Announced[k]
  /\ READ_MIN \in HEADER .. AnswerLength.read
BY TpmAssumption

\* The nine commands.
LEMMA ScriptFacts ==
  /\ Len(Script) = 9 /\ DOMAIN Script = 1 .. 9
  /\ Script[1] = Cmd("startup", 0) /\ Script[2] = Cmd("self_test", 0)
  /\ Script[3] = Cmd("extend", 0) /\ Script[4] = Cmd("extend", 1) /\ Script[5] = Cmd("extend", 2)
  /\ Script[6] = Cmd("read", 0) /\ Script[7] = Cmd("read", 1) /\ Script[8] = Cmd("read", 2)
  /\ Script[9] = Cmd("quote", 0)
BY DEF Script, InitCmds, VerifyCmds

\* Which command measures, reads or quotes which PCR.
LEMMA CommandFacts ==
  /\ \A n \in 1 .. 9 : Script[n].kind \in Kinds /\ Script[n].pcr \in Pcrs /\ Script[n] \in Cmds
  /\ \A n \in 1 .. 9 : Script[n].kind = "extend" <=> n \in 3 .. 5
  /\ \A n \in 1 .. 9 : Script[n].kind = "extend" => Script[n].pcr = n - 3
  /\ \A n \in 1 .. 9 : Script[n].kind = "read" <=> n \in 6 .. 8
  /\ \A n \in 1 .. 9 : Script[n].kind = "read" => Script[n].pcr = n - 6
  /\ \A n \in 1 .. 9 : Script[n] = Cmd("read", 2) <=> n = 8
  /\ \A n \in 1 .. 9 : Script[n].kind = "quote" <=> n = 9
  /\ \A c \in Cmds : c.kind \in Kinds /\ c.pcr \in Pcrs
<1>1. ASSUME NEW n \in 1 .. 9
      PROVE  n = 1 \/ n = 2 \/ n = 3 \/ n = 4 \/ n = 5 \/ n = 6 \/ n = 7 \/ n = 8 \/ n = 9
  OBVIOUS
<1>2. ASSUME NEW n \in 1 .. 9
      PROVE  /\ Script[n].kind \in Kinds /\ Script[n].pcr \in Pcrs
             /\ Script[n].kind = "extend" <=> n \in 3 .. 5
             /\ Script[n].kind = "extend" => Script[n].pcr = n - 3
             /\ Script[n].kind = "read" <=> n \in 6 .. 8
             /\ Script[n].kind = "read" => Script[n].pcr = n - 6
             /\ Script[n] = Cmd("read", 2) <=> n = 8
             /\ Script[n].kind = "quote" <=> n = 9
  BY <1>1, ScriptFacts DEF Cmd, Kinds, Pcrs
<1> QED
  BY <1>2 DEF Cmds

\* The same of the command being sent.
LEMMA PendingFacts ==
  ASSUME step \in 1 .. 9
  PROVE  /\ Pending = Script[step] /\ Pending \in Cmds
         /\ Pending.kind \in Kinds /\ Pending.pcr \in Pcrs
         /\ Pending.kind = "extend" => step \in 3 .. 5 /\ Pending.pcr = step - 3
         /\ Pending.kind = "read" <=> step \in 6 .. 8
         /\ Pending.kind = "read" => Pending.pcr = step - 6
         /\ Pending = Cmd("read", 2) <=> step = 8
         /\ Pending.kind = "quote" <=> step = 9
BY ScriptFacts, CommandFacts DEF Pending

\* The command being sent changes with the step only.
LEMMA SamePending == step' = step => Pending' = Pending
BY DEF Pending

\* Lengths are numbers, and an answer has at least a header.
LEMMA LengthFacts ==
  /\ \A k \in Kinds : BytesSent[k] \in Nat /\ BytesSent[k] > 0 /\ Announced[k] \in Nat
  /\ \A k \in Kinds : BytesSent[k] <= Announced[k] /\ AnswerLength[k] >= HEADER
  /\ \A k \in Kinds : AnswerLength[k] \in Nat /\ HEADER \in Nat /\ HEADER > 0
  /\ AnswerLength.read = AnswerLength["read"] /\ AnswerLength.quote = AnswerLength["quote"]
  /\ \A k \in Kinds : \A b \in BOOLEAN : Full(k, b) \in Nat
  /\ READ_MIN \in Nat /\ READ_MIN >= HEADER /\ READ_MIN > 0
BY TpmConstants DEF Full, Kinds

\* What is copied from an answer is not zero, whatever the PCR holds (tpm2_pcr_read_real).
LEMMA WindowFacts ==
  ASSUME NEW h \in Seq(Pcrs)
  PROVE  Window(h) \in Seq(Int) /\ Window(h) # <<>>
<1>1. h \in Seq(Int) /\ Len(h) \in Nat
  <2>1. Len(h) \in Nat /\ h = [k \in 1 .. Len(h) |-> h[k]] /\ \A k \in 1 .. Len(h) : h[k] \in Int
    BY DEF Pcrs
  <2> QED
    BY <2>1
<1>2. <<SizeField>> \in Seq(Int) /\ Len(<<SizeField>>) = 1
  BY DEF SizeField
<1>3. Window(h) \in Seq(Int) /\ Len(Window(h)) = 1 + Len(h)
  BY <1>1, <1>2 DEF Window
<1> QED
  BY <1>1, <1>3

\* The fields of the empty records.
LEMMA Blanks ==
  /\ EmptyFifo.count = 0 /\ NoResponse.count = 0
  /\ NoAnswer.left = 0 /\ NoAnswer.ok = FALSE
BY DEF EmptyFifo, NoResponse, NoAnswer

\* The initial state satisfies the invariant.
LEMMA TpmInitOK == TpmInit => TpmIInv
<1> SUFFICES ASSUME TpmInit PROVE TpmIInv
  OBVIOUS
<1> USE DEF TpmInit
<1>1. TpmTypes
  <2>1. \A i \in Pcrs : hw[i] = <<>> /\ seen[i] = <<>>
    OBVIOUS
  <2>2. pcr = [i \in Pcrs |-> IF step >= 3 + i THEN <<i>> ELSE <<>>]
    BY DEF Pcrs
  <2>3. hw \in [Pcrs -> Seq(Pcrs)] /\ seen \in [Pcrs -> Seq(Int)]
    OBVIOUS
  <2>4. \A i \in Pcrs : \A k \in DOMAIN hw[i] : hw[i][k] = i
    BY <2>1
  <2>5. executed \in 0 .. number /\ number \in Nat
    OBVIOUS
  <2> HIDE DEF TpmInit
  <2>6. /\ tis \in {"ones", "idle"} /\ stage = "idle" /\ verdict = "none" /\ sent = 0 /\ step = 0
        /\ g_tis_ready = FALSE /\ result = FALSE
    BY DEF TpmInit
  <2>7. g_tis_ready \in BOOLEAN /\ result \in BOOLEAN
    BY <2>6, Zenon
  <2>8. sent \in Nat /\ step \in 0 .. 9
    BY <2>6
  <2> QED
    BY <2>2, <2>3, <2>4, <2>5, <2>6, <2>7, <2>8, Zenon DEF TpmTypes
<1> QED
  BY <1>1 DEF TpmIInv, Received, Busy, Answered, Sending, Reported, Attesting, Looked, Pcrs

\* The invariant gives every part of TpmInv.
LEMMA TpmIInvImplies == TpmIInv => TpmInv
<1> SUFFICES ASSUME TpmIInv PROVE TpmInv
  OBVIOUS
<1> USE DEF TpmIInv
<1>1. TpmTypeOK
  <2>1. fifo.count <= Announced[IF fifo.count = 0 THEN "read" ELSE fifo.cmd.kind]
    <3>1. CASE Busy
      <4>1. fifo.count # 0 /\ fifo.count <= Announced[fifo.cmd.kind]
        BY <3>1, CommandFacts, LengthFacts DEF Received
      <4> QED
        BY <4>1
    <3>2. CASE ~Busy
      <4>1. fifo.count = 0
        BY <3>2, Blanks DEF Received
      <4> QED
        BY <4>1, LengthFacts DEF Kinds
    <3> QED
      BY <3>1, <3>2
  <2> QED
    BY <2>1, ScriptFacts DEF TpmTypes, TpmTypeOK
<1>2. OkMeansDone
  BY DEF Reported, OkMeansDone
<1>3. AttestsOwn
  <2> SUFFICES ASSUME verdict = "attested", NEW i \in Pcrs
               PROVE  /\ pcr[i] = <<i>> /\ seen[i] \in {pcr[i], Window(hw[i])}
                      /\ \A k \in DOMAIN hw[i] : hw[i][k] = i
    BY DEF AttestsOwn
  <2>1. step = 9
    BY DEF Attesting
  <2>2. step > 6 + i /\ step >= 3 + i
    BY <2>1 DEF Pcrs
  <2>3. pcr[i] = <<i>>
    BY <2>2 DEF TpmTypes
  <2>4. seen[i] \in {<<i>>, Window(hw[i])}
    BY <2>2 DEF Attesting, Looked
  <2> QED
    BY <2>1, <2>3, <2>4 DEF TpmTypes
<1>4. RefusalFromTpm
  BY DEF Attesting, RefusalFromTpm
<1> QED
  BY <1>1, <1>2, <1>3, <1>4 DEF TpmInv

\* The places inside a command.
Stages == {"call", "ready", "bytes", "go", "answer", "read", "returned"}

\* A step inside a command keeps the types.
LEMMA TypesKept ==
  ASSUME TpmTypes, UNCHANGED <<g_tis_ready, hw, executed, pcr, step, seen, verdict>>,
         tis' \in {"ones", "idle", "ready", "aborting", "reception", "execution", "completion"},
         stage \in Stages, stage' \in Stages, result' \in BOOLEAN,
         number' = number \/ number' = number + 1, sent' \in Nat
  PROVE  TpmTypes'
<1>1. number' \in Nat /\ executed' \in 0 .. number'
  BY DEF TpmTypes
<1>2. step # 0
  BY DEF TpmTypes, Stages
<1> QED
  BY <1>1, <1>2 DEF TpmTypes, Stages

\* A step inside a command leaves the attestation alone.
LEMMA AttestingKept ==
  ASSUME Attesting, stage \in Stages, stage' \in Stages,
         UNCHANGED <<step, seen, hw, g_tis_ready, verdict>>
  PROVE  Attesting'
BY DEF Attesting, Stages, Looked

\* Where every register reads as ones a command gets as far as its answer, which never
\* ends, or fails at once.
LEMMA SendOnesOK == TpmIInv /\ SendCmd /\ tis = "ones" => TpmIInv'
<1> SUFFICES ASSUME TpmIInv, SendCmd, tis = "ones" PROVE TpmIInv'
  OBVIOUS
<1>0. TpmTypes /\ Received /\ Answered /\ Sending /\ Reported /\ Attesting
  BY DEF TpmIInv
<1>1. stage \in Stages /\ stage' \in Stages
  BY DEF SendCmd, SendBegin, SendReady, SendByte, SendLast, SendGo, SendAnswered, SendRead,
     SendDone, SendTimesOut, TimesOut, Fails, Stages
<1>2. UNCHANGED <<manner, hw, executed, g_tis_ready, pcr, step, seen, verdict, inits>>
  BY DEF SendCmd, SendBegin, SendReady, SendByte, SendLast, SendGo, SendAnswered, SendRead,
     SendDone, SendTimesOut, Rest
<1>3. step \in 1 .. 9 /\ Pending' = Pending /\ Pending.kind \in Kinds
  <2>1. step \in 1 .. 9
    BY <1>0, <1>1 DEF TpmTypes, Stages
  <2> QED
    BY <1>2, <2>1, PendingFacts, SamePending
<1>4. Attesting'
  BY <1>0, <1>1, <1>2, AttestingKept
<1>5. fifo = EmptyFifo /\ answer = NoAnswer /\ ~Busy
  BY <1>0 DEF Received, Answered, Busy
<1>6. /\ tis' = "ones" /\ fifo' = EmptyFifo /\ answer' = NoAnswer
      /\ result' \in BOOLEAN /\ (number' = number \/ number' = number + 1)
      /\ sent' \in Nat /\ ~(stage' = "returned" /\ result')
      /\ stage' = "ready" => sent' = 0 /\ g_tis_ready
      /\ stage' = "bytes" => sent' < BytesSent[Pending.kind] /\ g_tis_ready
      /\ stage' \in {"go", "answer", "read"} => g_tis_ready
      /\ stage' \in {"ready", "bytes", "go", "answer"} => got' = NoResponse
  <2>1. CASE SendBegin
    BY <1>0, <1>5, <2>1 DEF SendBegin, Abort, Fails, TpmTypes
  <2>2. CASE SendReady
    BY <1>0, <1>3, <1>5, <2>2, LengthFacts DEF SendReady, TpmTypes, Sending
  <2>3. CASE SendByte \/ SendLast
    <3>0. sent \in Nat /\ BytesSent[Pending.kind] \in Nat
      BY <1>0, <1>3, LengthFacts DEF TpmTypes
    <3>1. /\ stage = "bytes" /\ UNCHANGED <<tis, fifo, answer, number, got, result>>
          /\ sent' = sent + 1
          /\ \/ sent = BytesSent[Pending.kind] - 1 /\ stage' = "go"
             \/ sent < BytesSent[Pending.kind] - 1 /\ stage' = "bytes"
      BY <2>3 DEF SendByte, SendLast, Accept
    <3>2. g_tis_ready /\ got = NoResponse /\ result \in BOOLEAN /\ tis = "ones"
      BY <1>0, <3>1 DEF TpmTypes, Sending
    <3>3. sent' \in Nat /\ (stage' = "bytes" => sent' < BytesSent[Pending.kind])
      BY <3>0, <3>1
    <3> QED
      BY <1>5, <3>1, <3>2, <3>3
  <2>4. CASE SendGo
    BY <1>0, <1>5, <2>4 DEF SendGo, Start, TpmTypes, Sending
  <2>5. CASE SendAnswered
    BY <1>0, <1>5, <2>5 DEF SendAnswered, TpmTypes, Sending
  <2>6. CASE SendTimesOut
    BY <1>0, <1>5, <2>6 DEF SendTimesOut, TimesOut, Fails, TpmTypes
  <2>7. ~SendRead /\ ~SendDone
    BY DEF SendRead, SendDone, DATA_AVAIL
  <2> QED
    BY <2>1, <2>2, <2>3, <2>4, <2>5, <2>6, <2>7 DEF SendCmd
<1>7. TpmTypes'
  BY <1>0, <1>1, <1>2, <1>6, TypesKept
<1>8. Received' /\ Answered'
  BY <1>6 DEF Received, Answered, Busy
<1>9. Sending' /\ Reported'
  BY <1>2, <1>3, <1>6, LengthFacts DEF Sending, Reported
<1> QED
  BY <1>4, <1>7, <1>8, <1>9 DEF TpmIInv

\* Every step of tpm_tis_send_cmd keeps the invariant.
LEMMA SendOK == TpmIInv /\ SendCmd => TpmIInv'
<1> SUFFICES ASSUME TpmIInv, SendCmd, tis # "ones" PROVE TpmIInv'
  BY SendOnesOK
<1>0. TpmTypes /\ Received /\ Answered /\ Sending /\ Reported /\ Attesting
  BY DEF TpmIInv
<1>1. stage \in Stages /\ stage' \in Stages
  BY DEF SendCmd, SendBegin, SendReady, SendByte, SendLast, SendGo, SendAnswered, SendRead,
     SendDone, SendTimesOut, TimesOut, Fails, Stages
<1>2. UNCHANGED <<manner, hw, executed, g_tis_ready, pcr, step, seen, verdict, inits>>
  BY DEF SendCmd, SendBegin, SendReady, SendByte, SendLast, SendGo, SendAnswered, SendRead,
     SendDone, SendTimesOut, Rest
<1>3. step \in 1 .. 9 /\ Pending' = Pending /\ Pending.kind \in Kinds
  <2>1. step \in 1 .. 9
    BY <1>0, <1>1 DEF TpmTypes, Stages
  <2> QED
    BY <1>2, <2>1, PendingFacts, SamePending
<1>4. Attesting'
  BY <1>0, <1>1, <1>2, AttestingKept
<1>5. CASE SendBegin
  <2>1. number' = number + 1 /\ sent' = 0 /\ got' = NoResponse /\ stage = "call"
    BY <1>5 DEF SendBegin
  <2>2. CASE g_tis_ready
    <3>1. /\ tis' \in {"ready", "aborting"} /\ fifo' = EmptyFifo /\ answer' = NoAnswer
          /\ stage' = "ready" /\ result' = result
      BY <1>5, <2>2 DEF SendBegin, Abort
    <3>2. TpmTypes'
      BY <1>0, <1>1, <1>2, <2>1, <3>1, TypesKept DEF TpmTypes
    <3>3. Received' /\ Answered'
      BY <1>2, <2>2, <3>1 DEF Received, Busy, Answered
    <3>4. Sending' /\ Reported'
      <4>1. sent' < BytesSent[Pending.kind]' /\ g_tis_ready'
        BY <1>2, <1>3, <2>1, <2>2, LengthFacts
      <4> QED
        BY <2>1, <3>1, <4>1 DEF Sending, Reported
    <3> QED
      BY <1>4, <3>2, <3>3, <3>4 DEF TpmIInv
  <2>3. CASE ~g_tis_ready
    <3>1. UNCHANGED <<tis, fifo, answer>> /\ stage' = "returned" /\ result' = FALSE
      BY <1>5, <2>3 DEF SendBegin, Fails
    <3>2. TpmTypes'
      BY <1>0, <1>1, <1>2, <2>1, <3>1, TypesKept DEF TpmTypes
    <3>3. tis = "idle" /\ fifo = EmptyFifo /\ answer = NoAnswer
      BY <1>0, <2>3 DEF Received, Answered, Busy
    <3>4. Received' /\ Answered'
      BY <3>1, <3>3 DEF Received, Busy, Answered
    <3>5. Sending' /\ Reported'
      BY <3>1 DEF Sending, Reported
    <3> QED
      BY <1>4, <3>2, <3>4, <3>5 DEF TpmIInv
  <2> QED
    BY <2>2, <2>3
<1>6. CASE SendReady
  <2>1. /\ stage = "ready" /\ tis = "ready" /\ stage' = "bytes"
        /\ UNCHANGED <<tis, fifo, answer, number, sent, got, result>>
    BY <1>6 DEF SendReady, CMD_READY
  <2>2. TpmTypes'
    BY <1>0, <1>1, <1>2, <2>1, TypesKept DEF TpmTypes
  <2>3. fifo = EmptyFifo /\ fifo.count = 0 /\ sent = 0
    BY <1>0, <2>1, Blanks DEF Received, Busy, Sending
  <2>4. Sending'
    BY <1>0, <1>2, <1>3, <2>1, <2>3, LengthFacts DEF Sending
  <2> QED
    BY <1>0, <1>2, <1>4, <2>1, <2>2, <2>3, <2>4
    DEF TpmIInv, Received, Busy, Answered, Reported
<1>7. CASE stage = "bytes" /\ Accept /\ sent < BytesSent[Pending.kind] /\ sent' = sent + 1
           /\ (stage' = IF sent = BytesSent[Pending.kind] - 1 THEN "go" ELSE "bytes")
           /\ UNCHANGED <<answer, number, got, result>>
  <2>1. fifo.count = sent /\ (tis = IF sent = 0 THEN "ready" ELSE "reception") /\ sent \in Nat
    BY <1>0, <1>7 DEF Sending, TpmTypes
  <2>2. /\ tis' = "reception" /\ fifo'.count = sent + 1 /\ fifo'.of = fifo.of \cup {number}
        /\ fifo'.cmd = (IF sent = 0 THEN Pending ELSE fifo.cmd)
        /\ fifo'.digest = (IF sent = 0 THEN pcr[Pending.pcr] ELSE fifo.digest)
    BY <1>7, <2>1 DEF Accept
  <2>3. fifo'.of = {number} /\ fifo'.cmd = Pending
    <3>1. CASE sent = 0
      BY <1>0, <2>1, <2>2, <3>1 DEF Received, Busy, EmptyFifo
    <3>2. CASE sent # 0
      BY <1>0, <1>7, <2>1, <2>2, <3>2 DEF Received, Busy
    <3> QED
      BY <3>1, <3>2
  <2>4. Pending.kind = "extend" => fifo'.digest = <<Pending.pcr>> /\ step <= 6
    <3> SUFFICES ASSUME Pending.kind = "extend"
                 PROVE  fifo'.digest = <<Pending.pcr>> /\ step <= 6
      OBVIOUS
    <3>1. step \in 3 .. 5 /\ Pending.pcr = step - 3 /\ Pending.pcr \in Pcrs
      BY <1>3, PendingFacts
    <3>2. CASE sent = 0
      <4>1. pcr[Pending.pcr] = <<Pending.pcr>>
        BY <1>0, <3>1 DEF TpmTypes
      <4> QED
        BY <2>2, <3>1, <3>2, <4>1
    <3>3. CASE sent # 0
      BY <1>0, <1>7, <2>1, <2>2, <3>1, <3>3 DEF Received, Busy
    <3> QED
      BY <3>2, <3>3
  <2>5. sent + 1 \in 1 .. Announced[Pending.kind]
    BY <1>3, <1>7, <2>1, LengthFacts
  <2>6. TpmTypes'
    BY <1>0, <1>1, <1>2, <1>7, <2>1, <2>2, TypesKept DEF TpmTypes
  <2>7. Received'
    BY <1>0, <1>2, <1>3, <1>7, <2>2, <2>3, <2>4, <2>5, PendingFacts DEF Received, Busy, Sending
  <2>8. Answered'
    BY <1>0, <1>7, <2>1, <2>2 DEF Answered
  <2>9. Sending'
    <3>1. sent + 1 < BytesSent[Pending.kind] \/ sent = BytesSent[Pending.kind] - 1
      BY <1>3, <1>7, <2>1, LengthFacts
    <3> QED
      BY <1>0, <1>2, <1>3, <1>7, <2>1, <2>2, <3>1 DEF Sending
  <2>10. Reported'
    BY <1>7 DEF Reported
  <2> QED
    BY <1>4, <2>6, <2>7, <2>8, <2>9, <2>10 DEF TpmIInv
<1>8. CASE SendGo
  <2>1. /\ stage = "go" /\ stage' = "answer" /\ tis = "reception"
        /\ tis' \in {"reception", "execution"}
        /\ UNCHANGED <<fifo, answer, number, sent, got, result>>
    BY <1>0, <1>8 DEF SendGo, Start, Sending
  <2>2. TpmTypes'
    BY <1>0, <1>1, <1>2, <2>1, TypesKept DEF TpmTypes
  <2> QED
    BY <1>0, <1>2, <1>3, <1>4, <2>1, <2>2
    DEF TpmIInv, Received, Busy, Answered, Sending, Reported
<1>9. CASE SendAnswered
  <2>1. /\ stage = "answer" /\ stage' = "read" /\ tis = "completion" /\ got = NoResponse
        /\ UNCHANGED <<tis, fifo, answer, number, sent, got, result>>
    BY <1>0, <1>9 DEF SendAnswered, DATA_AVAIL, Sending
  <2>2. TpmTypes'
    BY <1>0, <1>1, <1>2, <2>1, TypesKept DEF TpmTypes
  <2>3. Full(fifo.cmd.kind, answer.ok) \in Nat
    BY <1>0, <2>1, CommandFacts, LengthFacts DEF Received, Busy, Answered
  <2>4. Sending'
    <3>1. g_tis_ready /\ answer.left = Full(fifo.cmd.kind, answer.ok)
      BY <1>0, <2>1 DEF Sending
    <3>2. got.count = 0 /\ ~(got.count >= READ_MIN) /\ got.count + answer.left = answer.left
      BY <2>1, <2>3, <3>1, Blanks, LengthFacts
    <3> QED
      BY <1>2, <2>1, <3>1, <3>2 DEF Sending
  <2> QED
    BY <1>0, <1>2, <1>3, <1>4, <2>1, <2>2, <2>4
    DEF TpmIInv, Received, Busy, Answered, Reported
<1>10. CASE SendRead
  <2>1. /\ stage = "read" /\ tis = "completion" /\ answer.left > 0
        /\ UNCHANGED <<stage, tis, fifo, number, sent, result>>
    BY <1>10 DEF SendRead, DATA_AVAIL
  <2>2. /\ answer.left \in Nat /\ got.count \in Nat /\ Full(fifo.cmd.kind, answer.ok) \in Nat
        /\ got.count + answer.left = Full(fifo.cmd.kind, answer.ok)
    <3>1. fifo.cmd.kind \in Kinds /\ answer.ok \in BOOLEAN
      BY <1>0, <2>1, CommandFacts DEF Received, Busy, Answered
    <3>2. Full(fifo.cmd.kind, answer.ok) \in Nat
      BY <3>1, LengthFacts
    <3> QED
      BY <1>0, <2>1, <3>2 DEF Answered, Sending
  <2>3. /\ answer'.left = answer.left - 1 /\ answer'.cmd = answer.cmd /\ answer'.ok = answer.ok
        /\ answer'.value = answer.value
    <3>1. answer' = [answer EXCEPT !.left = @ - 1]
      BY <1>10 DEF SendRead
    <3> QED
      BY <3>1
  <2>4. /\ got'.count = got.count + 1 /\ got'.cmd = answer.cmd /\ got'.ok = answer.ok
        /\ got'.value = IF got.count + 1 >= READ_MIN THEN answer.value ELSE Junk
    BY <1>10 DEF SendRead
  <2>5. TpmTypes'
    BY <1>0, <1>1, <1>2, <2>1, TypesKept DEF TpmTypes
  <2>6. Answered'
    BY <1>0, <1>2, <2>1, <2>2, <2>3 DEF Answered
  <2>7. Sending'
    BY <1>0, <1>2, <2>1, <2>2, <2>3, <2>4 DEF Sending, Answered
  <2> QED
    BY <1>0, <1>2, <1>3, <1>4, <2>1, <2>5, <2>6, <2>7 DEF TpmIInv, Received, Busy, Reported
<1>11. CASE SendDone
  <2>1. /\ stage = "read" /\ stage' = "returned" /\ (result' = Succeeded(got)) /\ tis = "completion"
        /\ tis' = "ready" /\ fifo' = EmptyFifo /\ answer' = NoAnswer
        /\ UNCHANGED <<number, sent, got>>
    BY <1>0, <1>11 DEF SendDone, Abort, Sending
  <2>2. /\ g_tis_ready /\ got.count \in Nat /\ answer.left \in Nat /\ answer.ok \in BOOLEAN
        /\ got.count + answer.left = Full(Pending.kind, answer.ok)
        /\ fifo.cmd = Pending
    <3>1. fifo.cmd = Pending
      BY <1>0, <2>1 DEF Received, Busy
    <3>2. answer.ok \in BOOLEAN /\ Full(Pending.kind, answer.ok) \in Nat
      BY <1>0, <1>3, <2>1, LengthFacts DEF Answered
    <3> QED
      BY <1>0, <2>1, <3>1, <3>2 DEF Sending, Answered
  <2>3. result' \in BOOLEAN
    <3>1. CASE got.count = 0
      <4>1. Succeeded(got)
        BY <3>1, TpmConstants DEF Succeeded
      <4> QED
        BY <2>1, <4>1
    <3>2. CASE got.count > 0
      <4>1. got.ok \in BOOLEAN
        BY <1>0, <2>1, <2>2, <3>2 DEF Sending
      <4> QED
        BY <2>1, <4>1 DEF Succeeded
    <3> QED
      BY <2>2, <3>1, <3>2
  <2>4. TpmTypes'
    BY <1>0, <1>1, <1>2, <2>1, <2>3, TypesKept DEF TpmTypes
  <2>5. ASSUME result', got.count >= HEADER
        PROVE  /\ got.cmd = number /\ executed = number /\ got.count <= AnswerLength[Pending.kind]
               /\ Pending.kind = "read" /\ got.count >= READ_MIN => got.value = hw[Pending.pcr]
    <3>1. got.count > 0 /\ ~(got.count < HEADER)
      BY <2>2, <2>5, TpmConstants
    <3>2. got.cmd = number /\ got.ok = answer.ok
      BY <1>0, <2>1, <3>1 DEF Sending
    <3>3. answer.ok
      BY <2>1, <2>5, <3>1, <3>2 DEF Succeeded
    <3>4. got.count + answer.left = AnswerLength[Pending.kind] /\ AnswerLength[Pending.kind] \in Nat
      BY <1>3, <2>2, <3>3, LengthFacts DEF Full
    <3>5. executed = number /\ (Pending.kind = "read" => answer.value = hw[Pending.pcr])
      BY <1>0, <2>1, <2>2, <3>3 DEF Answered
    <3>6. got.count >= READ_MIN => got.value = answer.value
      BY <1>0, <2>1 DEF Sending
    <3> QED
      BY <2>2, <3>2, <3>4, <3>5, <3>6
  <2>6. Reported'
    BY <1>2, <1>3, <2>1, <2>2, <2>5 DEF Reported
  <2> QED
    BY <1>2, <1>4, <2>1, <2>2, <2>4, <2>6 DEF TpmIInv, Received, Busy, Answered, Sending
<1>12. CASE SendTimesOut
  <2>1. /\ stage' = "returned" /\ result' = FALSE /\ stage # "call"
        /\ UNCHANGED <<tis, fifo, answer, number, sent, got>>
    BY <1>12 DEF SendTimesOut, TimesOut, Fails
  <2>2. TpmTypes'
    BY <1>0, <1>1, <1>2, <2>1, TypesKept DEF TpmTypes
  <2> QED
    BY <1>0, <1>2, <1>3, <1>4, <2>1, <2>2
    DEF TpmIInv, Received, Busy, Answered, Sending, Reported
<1>13. SendByte \/ SendLast => /\ stage = "bytes" /\ Accept /\ sent < BytesSent[Pending.kind]
            /\ sent' = sent + 1
            /\ (stage' = IF sent = BytesSent[Pending.kind] - 1 THEN "go" ELSE "bytes")
            /\ UNCHANGED <<answer, number, got, result>>
  <2>1. sent \in Nat /\ BytesSent[Pending.kind] \in Nat /\ BytesSent[Pending.kind] > 0
    BY <1>0, <1>3, LengthFacts DEF TpmTypes
  <2> QED
    BY <2>1 DEF SendByte, SendLast
<1> QED
  BY <1>5, <1>6, <1>7, <1>8, <1>9, <1>10, <1>11, <1>12, <1>13 DEF SendCmd

\* Measuring in order gives each PCR its own measurement (tpm2_pcr_extend).
LEMMA MeasureOK ==
  ASSUME NEW j \in 1 .. 9, NEW p,
         j >= FirstExtend => p = [i \in Pcrs |-> IF j > 3 + i THEN <<i>> ELSE <<>>],
         j < FirstExtend => p = [i \in Pcrs |-> <<>>]
  PROVE  Measure(j, p) = [i \in Pcrs |-> IF j >= 3 + i THEN <<i>> ELSE <<>>]
<1> DEFINE q == [i \in Pcrs |-> IF j >= 3 + i THEN <<i>> ELSE <<>>]
<1>1. CASE j \in 3 .. 5
  <2>1. Script[j].kind = "extend" /\ Script[j].pcr = j - 3 /\ j - 3 \in Pcrs
    BY <1>1, CommandFacts DEF Pcrs
  <2>2. p = [i \in Pcrs |-> IF j > 3 + i THEN <<i>> ELSE <<>>]
    BY <1>1 DEF FirstExtend
  <2>3. Append(p[j - 3], j - 3) = <<j - 3>>
    <3>1. ~(j > 3 + (j - 3))
      OBVIOUS
    <3>2. p[j - 3] = <<>>
      BY <2>1, <2>2, <3>1
    <3> QED
      BY <3>2
  <2>4. Measure(j, p) = [p EXCEPT ![j - 3] = <<j - 3>>]
    BY <2>1, <2>3 DEF Measure
  <2>5. ASSUME NEW i \in Pcrs PROVE Measure(j, p)[i] = q[i]
    <3>1. CASE i = j - 3
      BY <1>1, <2>1, <2>2, <2>4, <3>1
    <3>2. CASE i # j - 3
      <4>1. Measure(j, p)[i] = p[i] /\ (j > 3 + i <=> j >= 3 + i)
        BY <1>1, <2>2, <2>4, <3>2 DEF Pcrs
      <4> QED
        BY <2>2, <4>1
    <3> QED
      BY <3>1, <3>2
  <2>6. Measure(j, p) = [i \in Pcrs |-> Measure(j, p)[i]]
    BY <2>2, <2>4
  <2> HIDE DEF q
  <2>7. q = [i \in Pcrs |-> q[i]]
    BY DEF q
  <2> QED
    BY <2>5, <2>6, <2>7, Zenon DEF q
<1>2. CASE j \notin 3 .. 5
  <2>1. Measure(j, p) = p
    BY <1>2, CommandFacts DEF Measure
  <2>2. CASE j < 3
    <3>1. \A i \in Pcrs : ~(j >= 3 + i)
      BY <2>2 DEF Pcrs
    <3> QED
      BY <2>1, <2>2, <3>1 DEF FirstExtend
  <2>3. CASE j > 5
    <3>1. \A i \in Pcrs : j >= 3 + i /\ j > 3 + i
      BY <2>3 DEF Pcrs
    <3> QED
      BY <2>1, <2>3, <3>1 DEF FirstExtend
  <2> QED
    BY <1>2, <2>2, <2>3
<1> QED
  BY <1>1, <1>2

\* tpm2_init starts over.
LEMMA InitCallOK == TpmIInv /\ tpm2_init => TpmIInv'
<1> SUFFICES ASSUME TpmIInv, tpm2_init PROVE TpmIInv'
  OBVIOUS
<1>0. TpmTypes /\ Received /\ Answered /\ Sending /\ Reported /\ Attesting
  BY DEF TpmIInv
<1>1. /\ verdict' = "none" /\ stage' = "call" /\ step' \in {1, 3}
      /\ pcr' = Measure(step', [i \in Pcrs |-> <<>>])
      /\ g_tis_ready' = g_tis_ready \/ g_tis_ready' = TRUE
      /\ UNCHANGED <<tis, fifo, answer, hw, executed, number, sent, got, result>>
      /\ seen' = [i \in Pcrs |-> <<>>]
  BY DEF tpm2_init, Issue, devVars, FirstExtend
<1>2. pcr' = [i \in Pcrs |-> IF step' >= 3 + i THEN <<i>> ELSE <<>>]
  <2>1. step' \in 1 .. 9
    BY <1>1
  <2>2. [i \in Pcrs |-> <<>>] = [i \in Pcrs |-> IF 3 > 3 + i THEN <<i>> ELSE <<>>]
    BY DEF Pcrs
  <2>3. /\ step' >= FirstExtend =>
             [i \in Pcrs |-> <<>>] = [i \in Pcrs |-> IF step' > 3 + i THEN <<i>> ELSE <<>>]
    BY <1>1, <2>2 DEF FirstExtend
  <2> QED
    BY <1>1, <2>1, <2>3, MeasureOK
<1>3. g_tis_ready' \in BOOLEAN
  BY <1>0, <1>1 DEF TpmTypes
<1>4. TpmTypes'
  <2>1. step' \in 0 .. 9 /\ step' # 0
    BY <1>1
  <2>2. seen' \in [Pcrs -> Seq(Int)]
    <3>1. <<>> \in Seq(Int)
      OBVIOUS
    <3> QED
      BY <1>1, <3>1
  <2> QED
    BY <1>0, <1>1, <1>2, <1>3, <2>1, <2>2 DEF TpmTypes
<1>5. Received'
  <2>1. Busy' = Busy /\ (Busy /\ fifo.cmd.kind = "extend" => fifo.digest = <<fifo.cmd.pcr>>)
    BY <1>0, <1>1 DEF Busy, Received
  <2>2. step' <= 6
    BY <1>1
  <2> QED
    BY <1>0, <1>1, <2>1, <2>2 DEF Received
<1>6. Answered'
  BY <1>0, <1>1 DEF Answered
<1>7. Sending' /\ Reported'
  BY <1>1 DEF Sending, Reported
<1>8. Attesting'
  <2>1. \A i \in Pcrs : ~Looked(i)'
    BY <1>1 DEF Looked, Pcrs
  <2> QED
    BY <1>1, <2>1 DEF Attesting
<1> QED
  BY <1>4, <1>5, <1>6, <1>7, <1>8 DEF TpmIInv

\* tpm.c goes on to the next command, or concludes.
LEMMA ReturnedOK == TpmIInv /\ Returned => TpmIInv'
<1> SUFFICES ASSUME TpmIInv, Returned PROVE TpmIInv'
  OBVIOUS
<1>0. TpmTypes /\ Received /\ Answered /\ Sending /\ Reported /\ Attesting
  BY DEF TpmIInv
<1> DEFINE rejects == Pending = Cmd("read", 2) /\ \E i \in Pcrs : seen'[i] = <<>>
           more == step < 9 /\ ~rejects
<1>1. /\ stage = "returned"
      /\ seen' = IF Pending.kind = "read" THEN [seen EXCEPT ![Pending.pcr] = PcrValue] ELSE seen
      /\ more => /\ step' = step + 1 /\ stage' = "call" /\ pcr' = Measure(step + 1, pcr)
                 /\ verdict' = verdict
      /\ ~more => /\ verdict' = (IF ~rejects /\ QuoteTag THEN "attested" ELSE "refused")
                  /\ stage' = "idle" /\ step' = step /\ pcr' = pcr
      /\ UNCHANGED <<tis, fifo, answer, hw, executed, g_tis_ready, number, sent, got, result>>
  BY ScriptFacts DEF Returned, Issue, devVars
<1>2. step \in 1 .. 9 /\ verdict = "none"
  BY <1>0, <1>1 DEF TpmTypes, Attesting
<1>3. /\ Pending.kind \in Kinds /\ Pending.pcr \in Pcrs
      /\ Pending.kind = "extend" => step \in 3 .. 5
      /\ Pending.kind = "read" <=> step \in 6 .. 8
      /\ Pending.kind = "read" => Pending.pcr = step - 6
      /\ Pending = Cmd("read", 2) <=> step = 8
  BY <1>2, PendingFacts
<1> HIDE DEF rejects, more
<1>4. Pending.kind = "read" =>
        /\ PcrValue \in {<<step - 6>>, Window(hw[step - 6])}
        /\ PcrValue \in Seq(Int)
  <2> SUFFICES ASSUME Pending.kind = "read"
               PROVE  /\ PcrValue \in {<<step - 6>>, Window(hw[step - 6])}
                      /\ PcrValue \in Seq(Int)
    OBVIOUS
  <2>1. step - 6 \in Pcrs /\ Pending.pcr = step - 6 /\ step >= 3 + (step - 6)
    BY <1>2, <1>3 DEF Pcrs
  <2>2. pcr[step - 6] = <<step - 6>>
    BY <1>0, <2>1 DEF TpmTypes
  <2>3. CASE result /\ got.count >= READ_MIN
    <3>1. got.count >= HEADER
      BY <1>0, <1>1, <2>3, LengthFacts DEF Reported, Kinds
    <3>2. got.value = hw[step - 6]
      BY <1>0, <1>1, <2>1, <2>3, <3>1 DEF Reported
    <3>3. Window(hw[step - 6]) \in Seq(Int)
      BY <1>0, <2>1, WindowFacts DEF TpmTypes
    <3>4. PcrValue = Window(hw[step - 6])
      BY <2>3, <3>2 DEF PcrValue
    <3> QED
      BY <3>3, <3>4
  <2>4. CASE ~(result /\ got.count >= READ_MIN)
    <3>1. PcrValue = <<step - 6>>
      BY <2>1, <2>2, <2>4 DEF PcrValue
    <3>2. <<step - 6>> \in Seq(Int)
      BY <2>1 DEF Pcrs
    <3> QED
      BY <3>1, <3>2
  <2> QED
    BY <2>3, <2>4
<1>5. seen' \in [Pcrs -> Seq(Int)]
  BY <1>0, <1>1, <1>3, <1>4 DEF TpmTypes
<1>6. ASSUME NEW i \in Pcrs, step >= 6 + i
      PROVE  seen'[i] \in {<<i>>, Window(hw[i])}
  <2>1. CASE step = 6 + i
    <3>1. i = step - 6 /\ step \in 6 .. 8
      BY <1>2, <2>1 DEF Pcrs
    <3>2. seen'[i] = PcrValue
      BY <1>0, <1>1, <1>3, <3>1 DEF TpmTypes
    <3> QED
      BY <1>3, <1>4, <3>1, <3>2
  <2>2. CASE step > 6 + i
    <3>1. i # step - 6
      BY <1>2, <2>2 DEF Pcrs
    <3>2. seen'[i] = seen[i]
      BY <1>0, <1>1, <1>3, <3>1 DEF TpmTypes
    <3> QED
      BY <1>0, <2>2, <3>2 DEF Attesting, Looked
  <2> QED
    BY <1>2, <1>6, <2>1, <2>2 DEF Pcrs
<1>7. rejects <=> step = 8 /\ \E i \in Pcrs : seen'[i] = <<>>
  BY <1>3 DEF rejects
<1>8. CASE more
  <2>1. step' = step + 1 /\ step' \in 2 .. 9 /\ stage' = "call" /\ verdict' = "none"
    BY <1>1, <1>2, <1>8 DEF more
  <2>2. pcr' = [i \in Pcrs |-> IF step' >= 3 + i THEN <<i>> ELSE <<>>]
    <3>1. pcr = [i \in Pcrs |-> IF step' > 3 + i THEN <<i>> ELSE <<>>]
      <4>1. \A i \in Pcrs : step' > 3 + i <=> step >= 3 + i
        BY <1>2, <2>1 DEF Pcrs
      <4> QED
        BY <1>0, <4>1 DEF TpmTypes
    <3>2. step' < FirstExtend => pcr = [i \in Pcrs |-> <<>>]
      <4>1. step' < 3 => \A i \in Pcrs : ~(step >= 3 + i)
        BY <1>2, <2>1 DEF Pcrs
      <4> QED
        BY <1>0, <4>1 DEF TpmTypes, FirstExtend
    <3>3. pcr' = Measure(step', pcr) /\ step' \in 1 .. 9
      BY <1>1, <1>8, <2>1
    <3> QED
      BY <3>1, <3>2, <3>3, MeasureOK
  <2>3. TpmTypes'
    <3>1. step' \in 0 .. 9 /\ step' # 0
      BY <2>1
    <3> QED
      BY <1>0, <1>1, <1>5, <2>1, <2>2, <3>1 DEF TpmTypes
  <2>4. Received'
    <3>1. Busy /\ fifo.cmd.kind = "extend" => step' <= 6
      BY <1>0, <1>1, <1>3, <2>1 DEF Received
    <3>2. Busy' = Busy
      BY <1>1 DEF Busy
    <3> QED
      BY <1>0, <1>1, <2>1, <3>1, <3>2 DEF Received
  <2>5. Answered' /\ Sending' /\ Reported'
    BY <1>0, <1>1, <2>1 DEF Answered, Sending, Reported
  <2>6. Attesting'
    <3>1. ASSUME NEW i \in Pcrs, Looked(i)' PROVE step >= 6 + i
      BY <1>2, <2>1, <3>1 DEF Looked, Pcrs
    <3> QED
      BY <1>1, <1>6, <2>1, <3>1 DEF Attesting
  <2> QED
    BY <2>3, <2>4, <2>5, <2>6 DEF TpmIInv
<1>9. CASE ~more
  <2>1. /\ step' = step /\ stage' = "idle" /\ pcr' = pcr
        /\ verdict' = (IF ~rejects /\ QuoteTag THEN "attested" ELSE "refused")
        /\ Pending' = Pending
    BY <1>1, <1>9, SamePending
  <2>2. (step = 9 /\ ~rejects) \/ (step = 8 /\ rejects)
    <3>1. ~(step < 9) \/ rejects
      BY <1>9 DEF more
    <3> QED
      BY <1>2, <1>7, <3>1
  <2>3. TpmTypes'
    BY <1>0, <1>1, <1>2, <1>5, <2>1 DEF TpmTypes
  <2>4. Received'
    <3>1. Busy' = Busy
      BY <1>1 DEF Busy
    <3> QED
      BY <1>0, <1>1, <2>1, <3>1 DEF Received
  <2>5. Answered' /\ Sending' /\ Reported'
    BY <1>0, <1>1, <2>1 DEF Answered, Sending, Reported
  <2>6. Attesting'
    <3>1. ASSUME NEW i \in Pcrs, Looked(i)' PROVE step >= 6 + i
      BY <1>2, <2>1, <3>1 DEF Looked, Pcrs
    <3>2. ~rejects
      <4> SUFFICES ASSUME step = 8, NEW i \in Pcrs, seen'[i] = <<>> PROVE FALSE
        BY <1>7
      <4>1. step >= 6 + i /\ <<i>> # <<>>
        BY DEF Pcrs
      <4>2. Window(hw[i]) # <<>>
        BY <1>0, WindowFacts DEF TpmTypes
      <4> QED
        BY <1>6, <4>1, <4>2
    <3>3. verdict' = "refused" => g_tis_ready /\ got.count >= AnswerLength.quote
      BY <1>0, <1>1, <2>1, <3>2 DEF Reported, QuoteTag
    <3>4. verdict' = "attested" => step = 9
      BY <2>1, <2>2
    <3> QED
      BY <1>1, <1>6, <2>1, <2>2, <3>1, <3>3, <3>4 DEF Attesting
  <2> QED
    BY <2>3, <2>4, <2>5, <2>6 DEF TpmIInv
<1> QED
  BY <1>8, <1>9

\* The TPM becomes ready, or executes a command, perhaps after the driver gave up on it.
LEMMA DeviceOK == TpmIInv /\ Device => TpmIInv'
<1> SUFFICES ASSUME TpmIInv, Device PROVE TpmIInv'
  OBVIOUS
<1>0. TpmTypes /\ Received /\ Answered /\ Sending /\ Reported /\ Attesting
  BY DEF TpmIInv
<1>1. /\ UNCHANGED <<g_tis_ready, pcr, step, number, stage, sent, got, result, seen, verdict>>
      /\ UNCHANGED fifo
  BY DEF Device, BecomesReady, Execute, drvVars
<1>2. Pending' = Pending
  BY <1>1, SamePending
<1>3. CASE BecomesReady
  <2>1. tis = "aborting" /\ tis' = "ready" /\ UNCHANGED <<answer, hw, executed>>
    BY <1>3 DEF BecomesReady
  <2>2. TpmTypes'
    BY <1>0, <1>1, <2>1 DEF TpmTypes
  <2>3. Received' /\ Answered'
    BY <1>0, <1>1, <2>1 DEF Received, Answered, Busy
  <2>4. Sending' /\ Reported'
    BY <1>0, <1>1, <1>2, <2>1 DEF Sending, Reported, Busy
  <2>5. Attesting'
    BY <1>0, <1>1, <2>1 DEF Attesting, Looked
  <2> QED
    BY <2>2, <2>3, <2>4, <2>5 DEF TpmIInv
<1>4. CASE Execute
  <2>1. tis = "execution" /\ tis' = "completion" /\ Busy /\ Busy'
    BY <1>4 DEF Execute, Busy
  <2>2. fifo.of = {number} /\ fifo.cmd \in Cmds /\ fifo.cmd.kind \in Kinds /\ fifo.cmd.pcr \in Pcrs
    BY <1>0, <2>1, CommandFacts DEF Received
  <2>3. Sender = number
    BY <2>2 DEF Sender
  <2>4. \/ /\ hw' = (IF fifo.cmd.kind = "extend"
                     THEN [hw EXCEPT ![fifo.cmd.pcr] = @ \o fifo.digest] ELSE hw)
           /\ executed' = number /\ answer'.ok = TRUE
           /\ answer'.value = (IF fifo.cmd.kind = "read" THEN hw[fifo.cmd.pcr] ELSE <<>>)
           /\ answer'.cmd = number /\ answer'.left = AnswerLength[fifo.cmd.kind]
        \/ /\ UNCHANGED <<hw, executed>> /\ answer'.ok = FALSE /\ answer'.cmd = number
           /\ answer'.left = HEADER
    <3>1. CASE answer' = [NoAnswer EXCEPT !.cmd = Sender, !.left = HEADER]
          /\ UNCHANGED <<hw, executed>>
      BY <2>3, <3>1 DEF NoAnswer
    <3>2. ASSUME NEW t,
                 answer' = [cmd |-> Sender, ok |-> TRUE, tag |-> t,
                            value |-> IF fifo.cmd.kind = "read" THEN hw[fifo.cmd.pcr] ELSE <<>>,
                            left |-> AnswerLength[fifo.cmd.kind]]
          PROVE  /\ answer'.ok = TRUE /\ answer'.cmd = number
                 /\ answer'.value = (IF fifo.cmd.kind = "read" THEN hw[fifo.cmd.pcr] ELSE <<>>)
                 /\ answer'.left = AnswerLength[fifo.cmd.kind]
      BY <2>3, <3>2
    <3>3. CASE /\ hw' = (IF fifo.cmd.kind = "extend"
                     THEN [hw EXCEPT ![fifo.cmd.pcr] = @ \o fifo.digest] ELSE hw)
               /\ executed' = Sender
               /\ \E t \in IF fifo.cmd.kind = "quote" THEN BOOLEAN ELSE {FALSE} :
                    answer' = [cmd |-> Sender, ok |-> TRUE, tag |-> t,
                               value |-> IF fifo.cmd.kind = "read" THEN hw[fifo.cmd.pcr] ELSE <<>>,
                               left |-> AnswerLength[fifo.cmd.kind]]
      BY <2>3, <3>2, <3>3
    <3> QED
      BY <1>4, <3>1, <3>3 DEF Execute
  <2>5. \/ hw' = hw
        \/ /\ fifo.cmd.kind = "extend" /\ step <= 6
           /\ hw' = [hw EXCEPT ![fifo.cmd.pcr] = @ \o <<fifo.cmd.pcr>>]
    BY <1>0, <2>1, <2>4 DEF Received
  <2>6. hw' \in [Pcrs -> Seq(Pcrs)] /\ \A i \in Pcrs : \A k \in DOMAIN hw'[i] : hw'[i][k] = i
    <3>1. CASE hw' = hw
      BY <1>0, <3>1 DEF TpmTypes
    <3>2. CASE hw' = [hw EXCEPT ![fifo.cmd.pcr] = @ \o <<fifo.cmd.pcr>>]
      <4>1. ASSUME NEW i \in Pcrs
            PROVE  hw'[i] \in Seq(Pcrs) /\ \A k \in DOMAIN hw'[i] : hw'[i][k] = i
        <5>1. hw[i] \in Seq(Pcrs) /\ \A k \in DOMAIN hw[i] : hw[i][k] = i
          BY <1>0 DEF TpmTypes
        <5>2. CASE i = fifo.cmd.pcr
          <6>1. hw'[i] = hw[i] \o <<i>>
            BY <1>0, <3>2, <5>2 DEF TpmTypes
          <6>2. /\ hw[i] \o <<i>> \in Seq(Pcrs)
                /\ \A k \in DOMAIN (hw[i] \o <<i>>) : (hw[i] \o <<i>>)[k] = i
            BY <5>1
          <6> QED
            BY <6>1, <6>2
        <5>3. CASE i # fifo.cmd.pcr
          BY <1>0, <3>2, <5>1, <5>3 DEF TpmTypes
        <5> QED
          BY <5>2, <5>3
      <4>2. hw' = [i \in Pcrs |-> hw'[i]]
        BY <1>0, <3>2 DEF TpmTypes
      <4> QED
        BY <4>1, <4>2
    <3> QED
      BY <2>5, <3>1, <3>2
  <2>7. TpmTypes'
    <3>1. executed' \in 0 .. number'
      <4>1. number \in Nat /\ executed \in 0 .. number /\ number' = number
        BY <1>0, <1>1 DEF TpmTypes
      <4>2. executed' = number \/ executed' = executed
        BY <2>4
      <4> QED
        BY <4>1, <4>2
    <3> QED
      BY <1>0, <1>1, <2>1, <2>6, <3>1 DEF TpmTypes
  <2>8. Received'
    BY <1>0, <1>1, <1>2, <2>1 DEF Received
  <2>9. Answered'
    <3>1. answer'.left = Full(fifo.cmd.kind, answer'.ok) /\ answer'.ok \in BOOLEAN
      BY <2>4 DEF Full
    <3>2. answer'.left \in 0 .. Full(fifo.cmd.kind, answer'.ok)
      BY <2>2, <3>1, LengthFacts
    <3>3. answer'.ok /\ fifo.cmd.kind = "read" => answer'.value = hw'[fifo.cmd.pcr]
      BY <2>4
    <3>4. answer'.cmd = number /\ (answer'.ok => executed' = number)
      BY <2>4
    <3> QED
      BY <1>1, <2>1, <3>1, <3>2, <3>3, <3>4 DEF Answered
  <2>10. Sending' /\ Reported'
    <3>1. answer'.left = Full(fifo.cmd.kind, answer'.ok)
      BY <2>4 DEF Full
    <3>2. stage \notin {"ready", "bytes", "go", "read"} /\ ~(stage = "returned" /\ result)
      BY <1>0, <2>1 DEF Sending, Reported
    <3> QED
      BY <1>0, <1>1, <2>1, <3>1, <3>2 DEF Sending, Reported
  <2>11. Attesting'
    <3>1. CASE hw' = hw
      BY <1>0, <1>1, <3>1 DEF Attesting, Looked
    <3>2. CASE step <= 6 /\ hw' # hw
      <4>1. verdict = "none" /\ \A i \in Pcrs : ~Looked(i)
        BY <1>0, <3>2 DEF Attesting, Looked, Pcrs, TpmTypes
      <4> QED
        BY <1>0, <1>1, <4>1 DEF Attesting, Looked
    <3> QED
      BY <2>5, <3>1, <3>2
  <2> QED
    BY <2>7, <2>8, <2>9, <2>10, <2>11 DEF TpmIInv
<1> QED
  BY <1>3, <1>4 DEF Device

\* Every step keeps the invariant.
LEMMA TpmStep == TpmIInv /\ [TpmNext]_tpmVars => TpmIInv'
<1>1. ASSUME TpmIInv, UNCHANGED tpmVars PROVE TpmIInv'
  <2>1. UNCHANGED <<Pending, Busy>>
    BY <1>1 DEF tpmVars, Pending, Busy
  <2>2. TpmTypes' /\ Received' /\ Answered'
    BY <1>1, <2>1 DEF tpmVars, TpmIInv, TpmTypes, Received, Answered
  <2>3. Sending' /\ Reported' /\ Attesting'
    BY <1>1, <2>1 DEF tpmVars, TpmIInv, Sending, Reported, Attesting, Looked
  <2> QED
    BY <2>2, <2>3 DEF TpmIInv
<1> QED
  BY <1>1, InitCallOK, SendOK, ReturnedOK, DeviceOK DEF TpmNext

\* A whole answer that counts as a success is this command's, each digest that attestation
\* accepts is the kernel's own measurement or was copied from the PCR of that number, and
\* only a quote refuses a boot, for all lengths of commands and answers, late answers, gaps,
\* time-outs and with no TPM at all (tpm_tis_send_cmd, tpm2_verify_attestation).
THEOREM TpmSafe == TpmSpec => []TpmInv
BY TpmInitOK, TpmStep, TpmIInvImplies, PTL DEF TpmSpec

----------------------------------------------------------------------------
(* The file system.                                                         *)

\* Every set of natural numbers that is not empty has a least element: induction, in a
\* form the provers can use.
LEMMA LeastElement ==
  ASSUME NEW T, T \subseteq Nat, T # {}
  PROVE  \E n \in T : \A m \in T : n <= m
<1>1. IsWellFoundedOn(OpToRel(<, Nat), Nat)
  BY NatLessThanWellFounded
<1>2. PICK n \in T : \A m \in T : ~(<<m, n>> \in OpToRel(<, Nat))
  BY <1>1, WFMin
<1>3. \A m \in T : <<m, n>> \in OpToRel(<, Nat) <=> m < n
  BY DEF OpToRel
<1>4. \A m \in T : ~(m < n)
  BY <1>2, <1>3, Zenon
<1>5. \A m \in T : n <= m
  BY <1>4
<1> QED BY <1>5

----------------------------------------------------------------------------
(* The file system: where things are on the volume.                         *)

\* Quotient and remainder, as the provers need them.
LEMMA Quotient ==
  ASSUME NEW n \in Nat, NEW d \in Nat, d > 0
  PROVE  /\ n \div d \in Nat /\ n % d \in 0 .. d - 1
         /\ n = (n \div d) * d + (n % d) /\ (n \div d) * d \in Nat
OBVIOUS

\* A product grows with its factor by at least the other factor.
LEMMA MulStep ==
  ASSUME NEW a \in Nat, NEW b \in Nat, NEW d \in Nat, a < b
  PROVE  a * d \in Nat /\ b * d \in Nat /\ a * d + d <= b * d
OBVIOUS

\* One factor more.
LEMMA MulNext ==
  ASSUME NEW a \in Nat, NEW d \in Nat
  PROVE  a * d \in Nat /\ (a + 1) * d = a * d + d
OBVIOUS

\* There is one quotient and one remainder.
LEMMA QuotientIs ==
  ASSUME NEW n \in Nat, NEW d \in Nat, d > 0, NEW r \in 0 .. d - 1
  PROVE  n * d + r \in Nat /\ (n * d + r) \div d = n /\ (n * d + r) % d = r
<1> DEFINE x == n * d + r
           p == x \div d
           t == x % d
<1>0. n * d \in Nat /\ x \in Nat
  OBVIOUS
<1>1. p \in Nat /\ t \in 0 .. d - 1 /\ n * d + r = p * d + t /\ p * d \in Nat
  BY <1>0, Quotient
<1> HIDE DEF p, t
<1>2. ~(p < n)
  <2> SUFFICES ASSUME p < n PROVE FALSE OBVIOUS
  <2>1. p * d + d <= n * d
    BY <1>1, MulStep
  <2> QED BY <1>0, <1>1, <2>1
<1>3. ~(n < p)
  <2> SUFFICES ASSUME n < p PROVE FALSE OBVIOUS
  <2>1. n * d + d <= p * d
    BY <1>1, MulStep
  <2> QED BY <1>0, <1>1, <2>1
<1>4. p = n
  BY <1>1, <1>2, <1>3
<1>5. t = r
  BY <1>0, <1>1, <1>4
<1> QED BY <1>0, <1>4, <1>5 DEF p, t

\* The numbers of a formatted volume.
LEMMA Geometry ==
  ASSUME NEW v, Formatted(v)
  PROVE  /\ v.reserved \in Nat /\ v.num_fats \in Nat /\ v.num_fats > 0 /\ v.fat_size \in Nat
         /\ v.fat_size > 0 /\ v.spc \in Nat /\ v.spc > 0 /\ v.clusters \in Nat
         /\ v.root \in 0 .. MASK - 1 /\ SECTOR \in Nat /\ SECTOR > 0 /\ MASK \in Nat /\ MASK > 0
         /\ EOF_MIN \in 0 .. MASK - 1
         /\ v.fat_size * SECTOR \in Nat
         /\ v.fat \in [0 .. v.fat_size * SECTOR - 1 -> Nat]
         /\ v.clusters + 1 < v.fat_size * SECTOR /\ v.fat_size * SECTOR <= EOF_MIN
         /\ PerCluster(v) \in Nat /\ PerCluster(v) > 0
         /\ DataStart(v) \in Nat /\ v.reserved + v.fat_size <= DataStart(v)
         /\ v.clusters * v.spc \in Nat
<1>1. /\ v.reserved \in Nat /\ v.num_fats \in Nat /\ v.num_fats > 0 /\ v.fat_size \in Nat
      /\ v.spc \in Nat /\ v.spc > 0 /\ v.clusters \in Nat
      /\ v.root \in 0 .. MASK - 1 /\ v.fat \in [0 .. v.fat_size * SECTOR - 1 -> Nat]
      /\ v.clusters + 1 < v.fat_size * SECTOR /\ v.fat_size * SECTOR <= EOF_MIN
  BY DEF Formatted
<1>2. SECTOR \in Nat /\ SECTOR > 0 /\ MASK \in Nat /\ MASK > 0 /\ EOF_MIN \in 0 .. MASK - 1
  BY FatAssumption
<1>3. v.fat_size * SECTOR \in Nat /\ v.fat_size > 0
  <2>1. v.fat_size = 0 => v.fat_size * SECTOR = 0
    BY <1>2
  <2>2. v.fat_size \in Nat /\ v.clusters \in Nat /\ v.clusters + 1 < v.fat_size * SECTOR
    BY <1>1
  <2>3. SECTOR \in Nat
    BY <1>2
  <2>4. v.fat_size * SECTOR \in Nat
    BY ONLY <2>2, <2>3
  <2> QED BY ONLY <2>1, <2>2, <2>4
<1>4. PerCluster(v) \in Nat /\ PerCluster(v) > 0
  <2>1. 0 * SECTOR + SECTOR <= v.spc * SECTOR /\ v.spc * SECTOR \in Nat
    BY <1>1, <1>2, MulStep
  <2> QED BY <1>2, <2>1 DEF PerCluster
<1>5. DataStart(v) \in Nat /\ v.reserved + v.fat_size <= DataStart(v)
  <2>1. 0 * v.fat_size + v.fat_size <= v.num_fats * v.fat_size /\ v.num_fats * v.fat_size \in Nat
    BY <1>1, MulStep
  <2> QED BY <1>1, <1>3, <2>1 DEF DataStart
<1>6. v.clusters * v.spc \in Nat
  BY <1>1
<1> QED BY <1>1, <1>2, <1>3, <1>4, <1>5, <1>6

\* The sectors of a data cluster are where cluster_to_lba looks for them.
LEMMA ClusterSector ==
  ASSUME NEW v, Formatted(v), NEW c \in DataClusters(v), NEW i \in 0 .. v.spc - 1
  PROVE  LET lba == DataStart(v) + (c - 2) * v.spc + i
         IN lba \in DOMAIN Disk(v) /\ Disk(v)[lba] = Cluster(v, c, i + 1)
<1> DEFINE d == DataStart(v)
           n == (c - 2) * v.spc + i
           lba == d + (c - 2) * v.spc + i
<1>1. /\ d \in Nat /\ v.reserved \in Nat /\ v.fat_size \in Nat /\ v.reserved + v.fat_size <= d
      /\ v.spc \in Nat /\ v.spc > 0 /\ v.clusters \in Nat /\ v.clusters * v.spc \in Nat
  BY Geometry
<1>2. c - 2 \in Nat /\ c - 2 < v.clusters /\ (c - 2) + 2 = c /\ i \in Nat /\ i < v.spc
  BY <1>1 DEF DataClusters
<1>3. n \in Nat /\ n \div v.spc = c - 2 /\ n % v.spc = i
  BY <1>1, <1>2, QuotientIs
<1>4. (c - 2) * v.spc + v.spc <= v.clusters * v.spc /\ (c - 2) * v.spc \in Nat
  BY <1>1, <1>2, MulStep
<1>5. /\ lba \in Nat /\ lba <= d + v.clusters * v.spc - 1 /\ lba >= d
      /\ lba - d = n /\ ~(lba < v.reserved) /\ ~(lba < d)
  <2> DEFINE x == (c - 2) * v.spc
             y == v.clusters * v.spc
  <2>1. x \in Nat /\ y \in Nat /\ x + v.spc <= y
    BY <1>1, <1>4
  <2> HIDE DEF x, y, d
  <2>2. d + x + i \in Nat /\ d + x + i <= d + y - 1 /\ d + x + i >= d /\ d + x + i - d = x + i
    BY <1>1, <1>2, <2>1
  <2>3. ~(d + x + i < v.reserved) /\ ~(d + x + i < d)
    BY <1>1, <1>2, <2>1
  <2> QED BY <1>1, <1>2, <2>1, <2>2, <2>3 DEF x, y, d
<1>6. lba \in DOMAIN Disk(v)
  BY <1>1, <1>5 DEF Disk
<1>7. Disk(v)[lba] = Cluster(v, ((lba - d) \div v.spc) + 2, ((lba - d) % v.spc) + 1)
  <2>1. lba \in 0 .. DataStart(v) + v.clusters * v.spc - 1
    BY <1>6 DEF Disk
  <2> HIDE DEF lba
  <2> QED BY <1>5, <2>1 DEF Disk
<1> QED BY <1>2, <1>3, <1>5, <1>6, <1>7

\* A cell of the FAT.
LEMMA FatCopyCell ==
  ASSUME NEW v, NEW i \in Nat, NEW j \in 0 .. SECTOR - 1
  PROVE  FatCopy(v, i + 1)[j + 1].next = v.fat[i * SECTOR + j]
<1>0. SECTOR \in Nat
  BY FatAssumption
<1>1. PICK n, k : n = i + 1 /\ k = j + 1
  OBVIOUS
<1>2. k \in 1 .. SECTOR
  BY <1>0, <1>1
<1>3. FatCopy(v, n)[k].next = v.fat[(n - 1) * SECTOR + k - 1]
  BY <1>2 DEF FatCopy, Cell
<1>4. (n - 1) * SECTOR + k - 1 = i * SECTOR + j
  <2>1. n - 1 = i
    BY <1>1
  <2> DEFINE y == i * SECTOR
  <2>2. y \in Nat
    BY <1>0
  <2>3. y + k - 1 = y + j
    <3> HIDE DEF y
    <3> QED BY <1>0, <1>1, <2>2
  <2> QED BY <2>1, <2>3
<1> QED BY <1>1, <1>3, <1>4

\* The entry of a cluster in the FAT is where fat_next looks for it.
LEMMA FatEntry ==
  ASSUME NEW v, Formatted(v), NEW c \in DOMAIN v.fat
  PROVE  LET lba == v.reserved + (c \div SECTOR)
         IN lba \in DOMAIN Disk(v) /\ Disk(v)[lba][(c % SECTOR) + 1].next = v.fat[c]
<1> DEFINE q == c \div SECTOR
           r == c % SECTOR
           d == DataStart(v)
           lba == v.reserved + q
<1>1. /\ d \in Nat /\ v.reserved \in Nat /\ v.fat_size \in Nat /\ v.reserved + v.fat_size <= d
      /\ v.fat_size > 0 /\ v.clusters * v.spc \in Nat /\ SECTOR \in Nat /\ SECTOR > 0
      /\ v.fat_size * SECTOR \in Nat /\ v.fat \in [0 .. v.fat_size * SECTOR - 1 -> Nat]
  BY Geometry
<1>2. c \in Nat /\ c < v.fat_size * SECTOR
  BY <1>1
<1>3. q \in Nat /\ r \in 0 .. SECTOR - 1 /\ c = q * SECTOR + r /\ q * SECTOR \in Nat
  BY <1>1, <1>2, Quotient
<1> HIDE DEF q, r, d
<1>4. q < v.fat_size
  <2> SUFFICES ASSUME ~(q < v.fat_size) PROVE FALSE OBVIOUS
  <2>1. v.fat_size * SECTOR <= q * SECTOR
    <3>1. CASE v.fat_size = q BY <1>1, <1>3, <3>1
    <3>2. CASE v.fat_size < q
      <4>1. v.fat_size * SECTOR + SECTOR <= q * SECTOR
        BY <1>1, <1>3, <3>2, MulStep
      <4> QED BY <1>1, <1>3, <4>1
    <3> QED BY <1>1, <1>3, <3>1, <3>2
  <2> QED BY <1>1, <1>2, <1>3, <2>1
<1>5. q % v.fat_size = q
  <2>1. q \in 0 .. v.fat_size - 1
    BY <1>1, <1>3, <1>4
  <2>2. (0 * v.fat_size + q) % v.fat_size = q
    BY <1>1, <2>1, QuotientIs
  <2> QED BY <1>1, <1>3, <2>2
<1>6. /\ lba \in 0 .. d + v.clusters * v.spc - 1 /\ ~(lba < v.reserved) /\ lba < d
      /\ lba - v.reserved = q
  <2> DEFINE y == v.clusters * v.spc
  <2>1. y \in Nat
    BY <1>1
  <2> HIDE DEF y
  <2>2. /\ v.reserved + q \in 0 .. d + y - 1 /\ ~(v.reserved + q < v.reserved) /\ v.reserved + q < d
        /\ v.reserved + q - v.reserved = q
    <3>1. /\ d \in Nat /\ v.reserved \in Nat /\ v.fat_size \in Nat /\ v.reserved + v.fat_size <= d
          /\ q \in Nat
      BY <1>1, <1>3
    <3> QED BY ONLY <1>4, <2>1, <3>1
  <2> QED BY <1>1, <1>3, <1>4, <2>1, <2>2 DEF y
<1>7. Disk(v)[lba] = FatCopy(v, ((lba - v.reserved) % v.fat_size) + 1)
  <2> HIDE DEF lba
  <2> QED BY <1>6 DEF Disk, d
<1>8. Disk(v)[lba] = FatCopy(v, q + 1)
  BY <1>5, <1>6, <1>7
<1>10. FatCopy(v, q + 1)[r + 1].next = v.fat[q * SECTOR + r]
  BY <1>3, FatCopyCell
<1>11. lba \in DOMAIN Disk(v)
  BY <1>6 DEF Disk, d
<1>12. Disk(v)[lba][r + 1].next = v.fat[c]
  BY <1>3, <1>8, <1>10
<1> QED BY <1>11, <1>12 DEF q, r

\* An entry that is not there is the end of a directory.
LEMMA NoEntryOK == EntryOK(NoEntry)
<1>1. HALF \in Nat /\ MASK \in Nat /\ MASK > 0
  BY FatAssumption
<1> QED BY <1>1 DEF EntryOK, NoEntry, StartCluster

\* Whatever sector is read, its cells can be looked at in every way.
CellIds == Int \X Int \X Int
CellOK(x) == x.next \in Nat /\ EntryOK(x.entry) /\ x.id \in CellIds
LEMMA SectorCells ==
  ASSUME NEW v, Formatted(v), NEW lba \in DOMAIN Disk(v), NEW k \in 1 .. SECTOR
  PROVE  CellOK(Disk(v)[lba][k])
<1> DEFINE d == DataStart(v)
<1>1. /\ d \in Nat /\ v.reserved \in Nat /\ v.fat_size \in Nat /\ v.reserved + v.fat_size <= d
      /\ v.fat_size > 0 /\ v.clusters * v.spc \in Nat /\ SECTOR \in Nat /\ SECTOR > 0
      /\ v.spc \in Nat /\ v.spc > 0
      /\ v.fat_size * SECTOR \in Nat /\ v.fat \in [0 .. v.fat_size * SECTOR - 1 -> Nat]
  BY Geometry
<1>2. lba \in 0 .. d + v.clusters * v.spc - 1
  BY DEF Disk
<1>3. lba \in Nat /\ k \in Nat /\ 1 <= k /\ k <= SECTOR
  <2> DEFINE y == v.clusters * v.spc
  <2>1. y \in Nat /\ lba \in 0 .. d + y - 1
    BY <1>1, <1>2
  <2> HIDE DEF y, d
  <2> QED BY <1>1, <2>1
<1>4. CASE lba < v.reserved
  <2>1. Disk(v)[lba] = ReservedArea(lba + 1)
    BY <1>2, <1>4 DEF Disk
  <2>2. ReservedArea(lba + 1)[k] = Cell(0, NoEntry, 0, lba + 1, k)
    BY DEF ReservedArea
  <2> QED BY <1>3, <2>1, <2>2, NoEntryOK DEF Cell, CellOK, CellIds
<1>5. CASE ~(lba < v.reserved) /\ lba < d
  <2> DEFINE i == ((lba - v.reserved) % v.fat_size) + 1
             n == (i - 1) * SECTOR + k - 1
  <2>1. Disk(v)[lba] = FatCopy(v, i)
    BY <1>2, <1>5 DEF Disk
  <2>2. i \in 1 .. v.fat_size
    <3>1. lba - v.reserved \in Nat
      BY <1>1, <1>3, <1>5
    <3>2. (lba - v.reserved) % v.fat_size \in 0 .. v.fat_size - 1
      BY <1>1, <3>1, Quotient
    <3> QED BY <1>1, <3>2
  <2> HIDE DEF i
  <2>3. n \in 0 .. v.fat_size * SECTOR - 1
    <3>1. i - 1 \in Nat /\ i - 1 < v.fat_size
      BY <1>1, <2>2
    <3>2. (i - 1) * SECTOR + SECTOR <= v.fat_size * SECTOR /\ (i - 1) * SECTOR \in Nat
      BY <1>1, <3>1, MulStep
    <3> DEFINE x == (i - 1) * SECTOR
               y == v.fat_size * SECTOR
    <3>3. x \in Nat /\ y \in Nat /\ x + SECTOR <= y
      BY <1>1, <3>2
    <3> HIDE DEF x, y
    <3>4. x + k - 1 \in 0 .. y - 1
      BY <1>1, <1>3, <3>3
    <3> QED BY <3>4 DEF x, y
  <2>4. FatCopy(v, i)[k] = Cell(v.fat[n], NoEntry, 1, i, k)
    BY DEF FatCopy
  <2>5. v.fat[n] \in Nat
    BY <1>1, <2>3
  <2>6. i \in Int
    BY <1>1, <2>2
  <2> HIDE DEF n
  <2> QED BY <1>3, <2>1, <2>4, <2>5, <2>6, NoEntryOK DEF Cell, CellOK, CellIds
<1>6. CASE ~(lba < v.reserved) /\ ~(lba < d)
  <2> DEFINE c == ((lba - d) \div v.spc) + 2
             i == ((lba - d) % v.spc) + 1
             n == (i - 1) * SECTOR + k
  <2>1. Disk(v)[lba] = Cluster(v, c, i)
    BY <1>2, <1>6 DEF Disk
  <2>2. i \in 1 .. v.spc
    <3>1. lba - d \in Nat
      BY <1>1, <1>3, <1>6
    <3>2. (lba - d) % v.spc \in 0 .. v.spc - 1
      BY <1>1, <3>1, Quotient
    <3> QED BY <1>1, <3>2
  <2> HIDE DEF i, c
  <2>3. n \in 1 .. PerCluster(v)
    <3>1. i - 1 \in Nat /\ i - 1 < v.spc
      BY <1>1, <2>2
    <3>2. (i - 1) * SECTOR + SECTOR <= v.spc * SECTOR /\ (i - 1) * SECTOR \in Nat
      BY <1>1, <3>1, MulStep
    <3> DEFINE x == (i - 1) * SECTOR
               y == v.spc * SECTOR
    <3>3. x \in Nat /\ y \in Nat /\ x + SECTOR <= y
      BY <1>1, <3>2
    <3> HIDE DEF x, y
    <3>4. x + k \in 1 .. y
      BY <1>1, <1>3, <3>3
    <3> QED BY <3>4 DEF x, y, PerCluster
  <2>4. Cluster(v, c, i)[k] = Cell(0, DirEntry(v, c, n), c, i, k)
    BY DEF Cluster
  <2>5. EntryOK(DirEntry(v, c, n))
    <3> HIDE DEF n
    <3> QED BY <2>3, NoEntryOK DEF DirEntry, Formatted
  <2>6. i \in Int /\ c \in Int
    <3>1. lba - d \in Nat
      BY <1>1, <1>3, <1>6
    <3>2. (lba - d) \div v.spc \in Nat
      BY <1>1, <3>1, Quotient
    <3> QED BY <1>1, <2>2, <3>2 DEF c
  <2> HIDE DEF n
  <2> QED BY <1>3, <2>1, <2>4, <2>5, <2>6 DEF Cell, CellOK, CellIds
<1> QED BY <1>4, <1>5, <1>6

----------------------------------------------------------------------------
(* Cluster chains.                                                          *)

\* The link after a cluster.
After(v, c) == IF c \in DOMAIN v.fat THEN v.fat[c] % MASK ELSE EOF_MIN
LinkEqn(v, c, n, f) == f = [i \in 0 .. n |-> IF i = 0 THEN c ELSE After(v, f[i - 1])]

\* There is a function that follows a chain for n links.
LEMMA LinkExists ==
  ASSUME NEW v, NEW c, NEW n \in Nat
  PROVE  \E f : LinkEqn(v, c, n, f)
<1> DEFINE Has(m) == \E f : LinkEqn(v, c, m, f)
           Bad == {m \in Nat : ~Has(m)}
<1>1. SUFFICES ASSUME Bad # {} PROVE FALSE
  OBVIOUS
<1>2. PICK m \in Bad : \A j \in Bad : m <= j
  <2>1. Bad \subseteq Nat
    OBVIOUS
  <2> HIDE DEF Bad
  <2> QED BY <1>1, <2>1, LeastElement
<1>3. m \in Nat /\ ~Has(m)
  BY <1>2
<1>4. m # 0
  <2> SUFFICES Has(0)
    BY <1>3
  <2> DEFINE g == [i \in 0 .. 0 |-> c]
  <2>1. 0 .. 0 = {0}
    OBVIOUS
  <2>2. g = [i \in 0 .. 0 |-> IF i = 0 THEN c ELSE After(v, g[i - 1])]
    BY <2>1
  <2> QED BY <2>2 DEF LinkEqn
<1>5. m - 1 \in Nat /\ ~(m <= m - 1)
  BY <1>3, <1>4
<1>6. PICK f : LinkEqn(v, c, m - 1, f)
  BY <1>2, <1>5
<1>7. DOMAIN f = 0 .. m - 1 /\ \A i \in 0 .. m - 1 : f[i] = IF i = 0 THEN c ELSE After(v, f[i - 1])
  BY <1>6 DEF LinkEqn
<1> DEFINE g == [i \in 0 .. m |-> IF i = m THEN After(v, f[m - 1]) ELSE f[i]]
<1>8. \A i \in 0 .. m : g[i] = IF i = 0 THEN c ELSE After(v, g[i - 1])
  <2> TAKE i \in 0 .. m
  <2>1. CASE i = 0
    <3>1. 0 \in 0 .. m - 1 /\ 0 # m /\ 0 \in 0 .. m
      BY <1>3, <1>4
    <3> QED BY <1>7, <2>1, <3>1
  <2>2. CASE i # 0
    <3>1. i - 1 \in 0 .. m /\ i - 1 # m /\ i - 1 \in 0 .. m - 1
      BY <1>3, <2>2
    <3>2. g[i - 1] = f[i - 1]
      BY <3>1
    <3>3. i # m => i \in 0 .. m - 1
      BY <1>3
    <3> QED BY <1>7, <2>2, <3>2, <3>3
  <2> QED BY <2>1, <2>2
<1>9. g = [i \in 0 .. m |-> g[i]]
  OBVIOUS
<1> HIDE DEF g
<1>10. LinkEqn(v, c, m, g)
  BY <1>8, <1>9 DEF LinkEqn
<1> QED BY <1>3, <1>10

\* Two such functions agree where both are defined.
LEMMA LinkAgrees ==
  ASSUME NEW v, NEW c, NEW n \in Nat, NEW m \in Nat, NEW f, NEW g,
         LinkEqn(v, c, n, f), LinkEqn(v, c, m, g)
  PROVE  \A i \in Nat : i <= n /\ i <= m => f[i] = g[i]
<1> DEFINE Bad == {i \in Nat : i <= n /\ i <= m /\ f[i] # g[i]}
<1>1. SUFFICES ASSUME Bad # {} PROVE FALSE
  OBVIOUS
<1>2. PICK i \in Bad : \A j \in Bad : i <= j
  <2>1. Bad \subseteq Nat
    OBVIOUS
  <2> HIDE DEF Bad
  <2> QED BY <1>1, <2>1, LeastElement
<1>3. i \in 0 .. n /\ i \in 0 .. m /\ f[i] # g[i] /\ i \in Nat
  BY <1>2
<1>4. /\ f[i] = IF i = 0 THEN c ELSE After(v, f[i - 1])
      /\ g[i] = IF i = 0 THEN c ELSE After(v, g[i - 1])
  BY <1>3 DEF LinkEqn
<1>5. i # 0
  BY <1>3, <1>4
<1>6. i - 1 \in Nat /\ i - 1 <= n /\ i - 1 <= m /\ ~(i <= i - 1)
  BY <1>3, <1>5
<1>7. f[i - 1] = g[i - 1]
  BY <1>2, <1>6
<1> QED BY <1>3, <1>4, <1>5, <1>7

\* What Link computes: the first cluster, and from each link the next one.
LEMMA LinkIs ==
  ASSUME NEW v, NEW c, NEW n \in Nat
  PROVE  Link(v, c, 0) = c /\ Link(v, c, n + 1) = After(v, Link(v, c, n))
<1> DEFINE F(m) == CHOOSE f : LinkEqn(v, c, m, f)
<1>1. ASSUME NEW m \in Nat PROVE LinkEqn(v, c, m, F(m)) /\ Link(v, c, m) = F(m)[m]
  <2>1. LinkEqn(v, c, m, F(m))
    BY LinkExists
  <2>2. Link(v, c, m) = F(m)[m]
    BY DEF Link, LinkEqn, After
  <2> QED BY <2>1, <2>2
<1> HIDE DEF F
<1>2. 0 \in Nat /\ n + 1 \in Nat /\ n \in 0 .. n + 1 /\ n + 1 \in 0 .. n + 1 /\ n + 1 # 0
      /\ n + 1 - 1 = n /\ 0 \in 0 .. 0 /\ n <= n /\ n <= n + 1
  OBVIOUS
<1>3. F(0)[0] = c
  BY <1>1, <1>2 DEF LinkEqn
<1>4. F(n + 1)[n + 1] = After(v, F(n + 1)[n])
  BY <1>1, <1>2 DEF LinkEqn
<1>5. F(n + 1)[n] = F(n)[n]
  BY <1>1, <1>2, LinkAgrees
<1> QED BY <1>1, <1>2, <1>3, <1>4, <1>5

\* The number of a data cluster has an entry in the FAT and is no end-of-chain mark.
LEMMA DataInFat ==
  ASSUME NEW v, Formatted(v), NEW c \in DataClusters(v)
  PROVE  c \in DOMAIN v.fat /\ ~is_eof(c) /\ c \in Nat /\ c \in 0 .. MASK - 1
<1>1. /\ v.clusters \in Nat /\ v.fat_size * SECTOR \in Nat
      /\ v.clusters + 1 < v.fat_size * SECTOR /\ v.fat_size * SECTOR <= EOF_MIN
      /\ v.fat \in [0 .. v.fat_size * SECTOR - 1 -> Nat] /\ EOF_MIN \in 0 .. MASK - 1
      /\ MASK \in Nat
  BY Geometry
<1>2. c \in Nat /\ c <= v.clusters + 1
  BY <1>1 DEF DataClusters
<1> DEFINE y == v.fat_size * SECTOR
<1>3. y \in Nat /\ v.clusters + 1 < y /\ y <= EOF_MIN /\ DOMAIN v.fat = 0 .. y - 1
  BY <1>1
<1> HIDE DEF y
<1> QED BY <1>1, <1>2, <1>3 DEF is_eof

\* Behind an end-of-chain mark there are only end-of-chain marks.
LEMMA PastEnd ==
  ASSUME NEW v, Formatted(v), NEW c, NEW n \in Nat, is_eof(Link(v, c, n))
  PROVE  \A m \in Nat : n <= m => is_eof(Link(v, c, m))
<1> DEFINE Bad == {m \in Nat : n <= m /\ ~is_eof(Link(v, c, m))}
<1>1. SUFFICES ASSUME Bad # {} PROVE FALSE
  OBVIOUS
<1>2. PICK m \in Bad : \A j \in Bad : m <= j
  <2>1. Bad \subseteq Nat
    OBVIOUS
  <2> HIDE DEF Bad
  <2> QED BY <1>1, <2>1, LeastElement
<1>3. m \in Nat /\ n <= m /\ ~is_eof(Link(v, c, m))
  BY <1>2
<1>4. m # n
  BY <1>3
<1>5. m - 1 \in Nat /\ n <= m - 1 /\ ~(m <= m - 1) /\ (m - 1) + 1 = m
  BY <1>3, <1>4
<1>6. is_eof(Link(v, c, m - 1))
  BY <1>2, <1>5
<1> DEFINE x == Link(v, c, m - 1)
           y == v.fat_size * SECTOR
<1>7. x \notin DOMAIN v.fat
  <2>1. y \in Nat /\ y <= EOF_MIN /\ DOMAIN v.fat = 0 .. y - 1 /\ EOF_MIN \in Int /\ x >= EOF_MIN
    BY <1>6, Geometry DEF is_eof
  <2> HIDE DEF x, y
  <2> QED BY <2>1
<1>8. Link(v, c, m) = After(v, x)
  BY <1>5, LinkIs
<1> HIDE DEF x, y
<1>9. Link(v, c, m) = EOF_MIN
  BY <1>7, <1>8 DEF After
<1>10. EOF_MIN \in Int
  BY FatAssumption
<1> QED BY <1>3, <1>9, <1>10 DEF is_eof

\* What lies in the data area is before the end of the chain.
LEMMA BeforeEnd ==
  ASSUME NEW v, Formatted(v), NEW c, NEW n \in Nat, ChainLength(v, c, n), NEW m \in Nat
  PROVE  Link(v, c, m) \in DataClusters(v) <=> m < n
<1>1. ASSUME m < n PROVE Link(v, c, m) \in DataClusters(v)
  <2>1. m \in 0 .. n - 1
    BY <1>1
  <2> QED BY <2>1 DEF ChainLength
<1>2. ASSUME ~(m < n) PROVE Link(v, c, m) \notin DataClusters(v)
  <2>1. is_eof(Link(v, c, n)) /\ n <= m
    BY <1>2 DEF ChainLength
  <2>2. is_eof(Link(v, c, m))
    BY <2>1, PastEnd
  <2> QED BY <2>2, DataInFat
<1> QED BY <1>1, <1>2

\* A chain has one length.
LEMMA OneLength ==
  ASSUME NEW v, Formatted(v), NEW c, NEW n \in Nat, NEW m \in Nat,
         ChainLength(v, c, n), ChainLength(v, c, m)
  PROVE  n = m
<1>1. ~(n < m)
  BY BeforeEnd
<1>2. ~(m < n)
  BY BeforeEnd
<1> QED BY <1>1, <1>2

\* The parts of a position on a chain: cluster, sector of the cluster, cell of the sector.
LEMMA PositionParts ==
  ASSUME NEW v, Formatted(v), NEW q \in Nat, NEW i \in 0 .. v.spc - 1, NEW k \in 0 .. SECTOR - 1
  PROVE  LET x == q * PerCluster(v) + i * SECTOR + k
         IN /\ x \in Nat /\ x \div PerCluster(v) = q /\ x % PerCluster(v) = i * SECTOR + k
            /\ (x % PerCluster(v)) \div SECTOR = i /\ x % SECTOR = k
            /\ i * SECTOR + k \in 0 .. PerCluster(v) - 1
<1> DEFINE P == PerCluster(v)
           r == i * SECTOR + k
           x == q * P + i * SECTOR + k
<1>1. /\ SECTOR \in Nat /\ SECTOR > 0 /\ v.spc \in Nat /\ v.spc > 0 /\ P \in Nat /\ P > 0
      /\ P = v.spc * SECTOR
  BY Geometry DEF PerCluster
<1>2. i \in Nat /\ i < v.spc /\ k \in Nat /\ k < SECTOR
  BY <1>1
<1>3. r \in Nat /\ r \div SECTOR = i
  BY <1>1, <1>2, QuotientIs
<1>4. r \in 0 .. P - 1
  <2>1. i * SECTOR + SECTOR <= v.spc * SECTOR /\ i * SECTOR \in Nat
    BY <1>1, <1>2, MulStep
  <2> DEFINE y == i * SECTOR
  <2>2. y + SECTOR <= P /\ y \in Nat
    BY <1>1, <2>1
  <2> HIDE DEF y, P
  <2>3. y + k \in 0 .. P - 1
    BY <1>1, <1>2, <2>2
  <2> QED BY <2>3 DEF y
<1>5. q * P + r \in Nat /\ (q * P + r) \div P = q /\ (q * P + r) % P = r
  <2> HIDE DEF P, r
  <2> QED BY <1>1, <1>4, QuotientIs
<1>6. x = q * P + r
  <2> DEFINE y == i * SECTOR
             z == q * P
  <2>1. y \in Nat /\ z \in Nat
    BY <1>1, <1>2
  <2> HIDE DEF y, z
  <2>2. z + y + k = z + (y + k)
    BY <1>2, <2>1
  <2> QED BY <2>2 DEF y, z
<1>7. x = (q * v.spc + i) * SECTOR + k /\ q * v.spc + i \in Nat
  <2>1. q * (v.spc * SECTOR) + i * SECTOR + k = (q * v.spc + i) * SECTOR + k
    BY <1>1, <1>2
  <2>2. q * v.spc + i \in Nat
    BY <1>1, <1>2
  <2> QED BY <1>1, <2>1, <2>2
<1>8. x % SECTOR = k
  <2> DEFINE z == q * v.spc + i
  <2>1. z \in Nat /\ x = z * SECTOR + k
    BY <1>7
  <2> HIDE DEF z, x
  <2> QED BY <1>1, <2>1, QuotientIs
<1> QED BY <1>3, <1>4, <1>5, <1>6, <1>8

----------------------------------------------------------------------------
(* Names.                                                                   *)

\* The letters of a path in capitals: no space among them, and a dot only for a dot.
LEMMA UpperFacts ==
  ASSUME NEW x \in DOMAIN Upper
  PROVE  Upper[x] \in Chars /\ Upper[x] # Space /\ (Upper[x] = "." <=> x = ".")
<1>1. Upper[x] \in {"A", "B", "C", ".", "/"} /\ (Upper[x] = "." <=> x = ".")
  BY SMT DEF Upper
<1>2. Space \notin {"A", "B", "C", ".", "/"}
  BY Zenon DEF Space
<1>3. {"A", "B", "C", ".", "/"} \subseteq DOMAIN Upper
  BY DEF Upper
<1> QED BY <1>1, <1>2, <1>3 DEF Chars

\* The lengths of the two parts of a name that is filled up with spaces.
NameShape(nm, a, b) ==
  /\ a \in 0 .. NAME /\ b \in 0 .. EXT
  /\ \A i \in 1 .. NAME : nm[i] = Space <=> i > a
  /\ \A i \in 1 .. EXT : nm[NAME + i] = Space <=> i > b

LEMMA Leading ==
  ASSUME NEW n \in Nat, NEW f,
         \A i, j \in 1 .. n : i < j /\ f[i] = Space => f[j] = Space
  PROVE  \E a \in 0 .. n : \A i \in 1 .. n : f[i] = Space <=> i > a
<1> DEFINE T == {i \in 1 .. n : f[i] = Space}
<1>1. CASE T = {}
  <2>1. n \in 0 .. n /\ \A i \in 1 .. n : f[i] = Space <=> i > n
    BY <1>1
  <2> QED BY <2>1
<1>2. CASE T # {}
  <2>1. PICK t \in T : \A i \in T : t <= i
    <3>1. T \subseteq Nat
      OBVIOUS
    <3> HIDE DEF T
    <3> QED BY <1>2, <3>1, LeastElement
  <2>2. t \in 1 .. n /\ f[t] = Space
    BY <2>1
  <2>3. \A i \in 1 .. n : f[i] = Space <=> i > t - 1
    <3> TAKE i \in 1 .. n
    <3>1. i \in Nat /\ t \in Nat
      BY <2>2
    <3>2. CASE i < t
      <4>1. ~(t <= i) /\ ~(i > t - 1)
        BY <3>1, <3>2
      <4> QED BY <2>1, <4>1
    <3>3. CASE i = t
      BY <2>2, <3>1, <3>3
    <3>4. CASE i > t
      <4>1. f[i] = Space /\ i > t - 1
        BY <2>2, <3>1, <3>4
      <4> QED BY <4>1
    <3> QED BY <3>1, <3>2, <3>3, <3>4
  <2>4. t - 1 \in 0 .. n
    BY <2>2
  <2> QED BY <2>3, <2>4
<1> QED BY <1>1, <1>2

LEMMA ShortNameShape ==
  ASSUME NEW nm, ShortName(nm)
  PROVE  \E a, b : NameShape(nm, a, b)
<1>1. NAME \in Nat /\ EXT \in Nat
  BY FatAssumption
<1>2. DOMAIN nm = 1 .. NAME + EXT /\ Len(nm) = NAME + EXT
      /\ \A i, j \in DOMAIN nm : i < j /\ (j <= NAME \/ i > NAME) /\ nm[i] = Space => nm[j] = Space
  BY DEF ShortName
<1>3. PICK a \in 0 .. NAME : \A i \in 1 .. NAME : nm[i] = Space <=> i > a
  <2>1. \A i, j \in 1 .. NAME : i \in DOMAIN nm /\ j \in DOMAIN nm /\ j <= NAME
    BY <1>1, <1>2
  <2>2. \A i, j \in 1 .. NAME : i < j /\ nm[i] = Space => nm[j] = Space
    BY <1>2, <2>1
  <2> QED BY <1>1, <2>2, Leading
<1> DEFINE f == [i \in 1 .. EXT |-> nm[NAME + i]]
<1>4. PICK b \in 0 .. EXT : \A i \in 1 .. EXT : f[i] = Space <=> i > b
  <2>1. \A i, j \in 1 .. EXT : i < j => /\ NAME + i \in DOMAIN nm /\ NAME + j \in DOMAIN nm
                                        /\ NAME + i < NAME + j /\ NAME + i > NAME
    BY <1>1, <1>2
  <2>2. \A i, j \in 1 .. EXT : i < j /\ nm[NAME + i] = Space => nm[NAME + j] = Space
    BY <1>2, <2>1
  <2>3. \A i, j \in 1 .. EXT : i < j /\ f[i] = Space => f[j] = Space
    BY <2>2
  <2> HIDE DEF f
  <2> QED BY <1>1, <2>3, Leading
<1>5. \A i \in 1 .. EXT : nm[NAME + i] = Space <=> i > b
  BY <1>4
<1> QED BY <1>3, <1>4, <1>5 DEF NameShape

\* What is left of a part without the spaces behind it.
LEMMA TrimmedIs ==
  ASSUME NEW w \in Seq(Chars), NEW a \in 0 .. Len(w),
         \A i \in 1 .. Len(w) : w[i] = Space <=> i > a
  PROVE  /\ Trimmed(w) \in Seq(Chars) /\ Len(Trimmed(w)) = a
         /\ \A i \in 1 .. a : Trimmed(w)[i] = w[i]
<1> DEFINE Ok(n) == /\ \A i \in 1 .. n : w[i] # Space
                    /\ n = Len(w) \/ w[n + 1] = Space
           n0 == CHOOSE n \in 0 .. Len(w) : Ok(n)
<1>1. Len(w) \in Nat /\ a \in Nat /\ a <= Len(w) /\ \A i \in 1 .. Len(w) : w[i] \in Chars
  OBVIOUS
<1>2. Ok(a)
  <2>1. \A i \in 1 .. a : i \in 1 .. Len(w) /\ ~(i > a)
    BY <1>1
  <2>2. a # Len(w) => a + 1 \in 1 .. Len(w) /\ a + 1 > a
    BY <1>1
  <2> QED BY <2>1, <2>2
<1>3. \A n \in 0 .. Len(w) : Ok(n) => n = a
  <2> SUFFICES ASSUME NEW n \in 0 .. Len(w), Ok(n) PROVE n = a
    OBVIOUS
  <2>1. n \in Nat
    BY <1>1
  <2>2. ~(n > a)
    <3> SUFFICES ASSUME n > a PROVE FALSE OBVIOUS
    <3>1. n \in 1 .. n /\ n \in 1 .. Len(w)
      BY <1>1, <2>1
    <3> QED BY <3>1
  <2>3. ~(n < a)
    <3> SUFFICES ASSUME n < a PROVE FALSE OBVIOUS
    <3>1. n # Len(w) /\ n + 1 \in 1 .. Len(w) /\ ~(n + 1 > a)
      BY <1>1, <2>1
    <3> QED BY <3>1
  <2> QED BY <1>1, <2>1, <2>2, <2>3
<1>4. n0 = a
  <2> HIDE DEF Ok
  <2> QED BY <1>2, <1>3
<1>5. Trimmed(w) = SubSeq(w, 1, n0)
  BY DEF Trimmed
<1>6. Trimmed(w) = SubSeq(w, 1, a)
  BY <1>4, <1>5
<1> HIDE DEF Ok, n0
<1>7. \A i \in 1 .. a : w[i] \in Chars
  BY <1>1
<1>8. /\ SubSeq(w, 1, a) \in Seq(Chars) /\ Len(SubSeq(w, 1, a)) = IF 1 <= a THEN a - 1 + 1 ELSE 0
      /\ \A i \in 1 .. a - 1 + 1 : SubSeq(w, 1, a)[i] = w[1 + i - 1]
  <2>1. 1 \in Int /\ a \in Int
    BY <1>1
  <2> QED BY <1>7, <2>1, SubSeqProperties
<1>9. a - 1 + 1 = a /\ (~(1 <= a) => a = 0) /\ \A i \in 1 .. a : 1 + i - 1 = i
  BY <1>1
<1> QED BY <1>6, <1>8, <1>9

\* How a name with parts of a and b characters is spelled.
SpelledAs(nm, a, b, w) ==
  /\ w \in Seq(Chars) /\ Len(w) = IF b = 0 THEN a ELSE a + 1 + b
  /\ \A i \in 1 .. a : w[i] = nm[i]
  /\ b # 0 => w[a + 1] = "." /\ \A j \in 1 .. b : w[a + 1 + j] = nm[NAME + j]

LEMMA SpelledIs ==
  ASSUME NEW nm, ShortName(nm), NEW a, NEW b, NameShape(nm, a, b)
  PROVE  SpelledAs(nm, a, b, Spelled(nm))
<1> DEFINE w1 == SubSeq(nm, 1, NAME)
           w2 == SubSeq(nm, NAME + 1, NAME + EXT)
           t1 == Trimmed(w1)
           t2 == Trimmed(w2)
<1>1. NAME \in Nat /\ NAME > 0 /\ EXT \in Nat /\ EXT > 0
  BY FatAssumption
<1>2. nm \in Seq(Chars) /\ Len(nm) = NAME + EXT /\ \A i \in 1 .. NAME + EXT : nm[i] \in Chars
  BY DEF ShortName
<1>3. /\ a \in 0 .. NAME /\ b \in 0 .. EXT
      /\ \A i \in 1 .. NAME : nm[i] = Space <=> i > a
      /\ \A i \in 1 .. EXT : nm[NAME + i] = Space <=> i > b
  BY DEF NameShape
<1>4. w1 \in Seq(Chars) /\ Len(w1) = NAME /\ \A i \in 1 .. NAME : w1[i] = nm[i]
  <2>1. 1 \in Int /\ NAME \in Int /\ \A i \in 1 .. NAME : nm[i] \in Chars
    BY <1>1, <1>2
  <2>2. /\ SubSeq(nm, 1, NAME) \in Seq(Chars)
        /\ Len(SubSeq(nm, 1, NAME)) = IF 1 <= NAME THEN NAME - 1 + 1 ELSE 0
        /\ \A i \in 1 .. NAME - 1 + 1 : SubSeq(nm, 1, NAME)[i] = nm[1 + i - 1]
    BY <2>1, SubSeqProperties
  <2>3. NAME - 1 + 1 = NAME /\ 1 <= NAME /\ \A i \in 1 .. NAME : 1 + i - 1 = i
    BY <1>1
  <2> QED BY <2>2, <2>3
<1>5. w2 \in Seq(Chars) /\ Len(w2) = EXT /\ \A i \in 1 .. EXT : w2[i] = nm[NAME + i]
  <2> DEFINE lo == NAME + 1
             hi == NAME + EXT
  <2>1. lo \in Int /\ hi \in Int /\ \A i \in lo .. hi : nm[i] \in Chars
    BY <1>1, <1>2
  <2>3. hi - lo + 1 = EXT /\ lo <= hi /\ \A i \in 1 .. EXT : lo + i - 1 = NAME + i
    BY <1>1
  <2> HIDE DEF lo, hi
  <2>2. /\ SubSeq(nm, lo, hi) \in Seq(Chars)
        /\ Len(SubSeq(nm, lo, hi)) = IF lo <= hi THEN hi - lo + 1 ELSE 0
        /\ \A i \in 1 .. hi - lo + 1 : SubSeq(nm, lo, hi)[i] = nm[lo + i - 1]
    BY <2>1, SubSeqProperties
  <2>4. /\ SubSeq(nm, lo, hi) \in Seq(Chars) /\ Len(SubSeq(nm, lo, hi)) = EXT
        /\ \A i \in 1 .. EXT : SubSeq(nm, lo, hi)[i] = nm[NAME + i]
    BY <2>2, <2>3
  <2> QED BY <2>4 DEF lo, hi
<1> HIDE DEF w1, w2
<1>6. t1 \in Seq(Chars) /\ Len(t1) = a /\ \A i \in 1 .. a : t1[i] = w1[i]
  <2>1. a \in 0 .. Len(w1) /\ \A i \in 1 .. Len(w1) : w1[i] = Space <=> i > a
    BY <1>3, <1>4
  <2> QED BY <1>4, <2>1, TrimmedIs
<1>7. t2 \in Seq(Chars) /\ Len(t2) = b /\ \A i \in 1 .. b : t2[i] = w2[i]
  <2>1. b \in 0 .. Len(w2) /\ \A i \in 1 .. Len(w2) : w2[i] = Space <=> i > b
    BY <1>3, <1>5
  <2> QED BY <1>5, <2>1, TrimmedIs
<1>8. Spelled(nm) = t1 \o (IF t2 = <<>> THEN <<>> ELSE <<".">> \o t2)
  BY DEF Spelled, w1, w2
<1>9. \A i \in 1 .. a : i \in 1 .. NAME /\ t1[i] = nm[i]
  BY <1>1, <1>3, <1>4, <1>6
<1>10. \A i \in 1 .. b : i \in 1 .. EXT /\ t2[i] = nm[NAME + i]
  BY <1>1, <1>3, <1>5, <1>7
<1>11. a \in Nat /\ b \in Nat
  BY <1>1, <1>3
<1> HIDE DEF t1, t2
<1>12. CASE b = 0
  <2>1. t2 = <<>>
    BY <1>7, <1>12, EmptySeq
  <2>2. Spelled(nm) = t1
    BY <1>6, <1>8, <2>1, ConcatEmptySeq
  <2> QED BY <1>6, <1>9, <1>12, <2>2 DEF SpelledAs
<1>13. CASE b # 0
  <2>1. t2 # <<>>
    BY <1>7, <1>13
  <2> DEFINE u == <<".">> \o t2
  <2>2. "." \in Chars
    BY DEF Chars, Upper
  <2>3. <<".">> \in Seq(Chars) /\ Len(<<".">>) = 1 /\ <<".">>[1] = "."
    BY <2>2
  <2>4. u \in Seq(Chars) /\ Len(u) = 1 + b /\ \A i \in 1 .. 1 + b :
          u[i] = IF i <= 1 THEN <<".">>[i] ELSE t2[i - 1]
    BY <1>7, <2>3, ConcatProperties
  <2> HIDE DEF u
  <2>5. Spelled(nm) = t1 \o u
    BY <1>8, <2>1 DEF u
  <2>6. /\ t1 \o u \in Seq(Chars) /\ Len(t1 \o u) = a + (1 + b)
        /\ \A i \in 1 .. a + (1 + b) : (t1 \o u)[i] = IF i <= a THEN t1[i] ELSE u[i - a]
    <3>1. /\ t1 \o u \in Seq(Chars) /\ Len(t1 \o u) = Len(t1) + Len(u)
          /\ \A i \in 1 .. Len(t1) + Len(u) :
               (t1 \o u)[i] = IF i <= Len(t1) THEN t1[i] ELSE u[i - Len(t1)]
      BY <1>6, <2>4, ConcatProperties
    <3>2. Len(t1) = a /\ Len(u) = 1 + b
      BY <1>6, <2>4
    <3> QED BY ONLY <3>1, <3>2
  <2> DEFINE w == t1 \o u
  <2>60. /\ w \in Seq(Chars) /\ Len(w) = a + (1 + b)
         /\ \A i \in 1 .. a + (1 + b) : w[i] = IF i <= a THEN t1[i] ELSE u[i - a]
    BY <2>6
  <2> HIDE DEF w
  <2>7. \A i \in 1 .. a : w[i] = nm[i]
    <3>1. \A i \in 1 .. a : i \in 1 .. a + (1 + b) /\ i <= a
      BY <1>11
    <3> QED BY <1>9, <2>60, <3>1
  <2>8. w[a + 1] = "."
    <3>1. a + 1 \in 1 .. a + (1 + b) /\ ~(a + 1 <= a) /\ a + 1 - a = 1 /\ 1 \in 1 .. 1 + b /\ 1 <= 1
      BY <1>11
    <3>2. w[a + 1] = u[a + 1 - a]
      BY ONLY <1>11, <2>60, <3>1
    <3>3. u[1] = <<".">>[1]
      BY <2>4, <3>1, Zenon
    <3> QED BY <2>3, <3>1, <3>2, <3>3
  <2>9. \A j \in 1 .. b : w[a + 1 + j] = nm[NAME + j]
    <3> TAKE j \in 1 .. b
    <3>1. /\ a + 1 + j \in 1 .. a + (1 + b) /\ ~(a + 1 + j <= a) /\ a + 1 + j - a = 1 + j
          /\ 1 + j \in 1 .. 1 + b /\ ~(1 + j <= 1) /\ 1 + j - 1 = j
      BY <1>11
    <3>2. w[a + 1 + j] = u[a + 1 + j - a]
      BY ONLY <1>11, <2>60, <3>1
    <3>3. u[1 + j] = t2[1 + j - 1]
      BY ONLY <1>11, <2>4, <3>1
    <3>4. w[a + 1 + j] = t2[j]
      BY <3>1, <3>2, <3>3, Zenon
    <3> QED BY <1>10, <3>4
  <2>10. a + (1 + b) = a + 1 + b
    BY <1>11
  <2>11. Spelled(nm) = w
    BY <2>5 DEF w
  <2> QED BY <1>13, <2>11, <2>60, <2>7, <2>8, <2>9, <2>10 DEF SpelledAs
<1> QED BY <1>12, <1>13

\* The path without its slash.
LEMMA SlashOff ==
  ASSUME NEW p \in Seq(DOMAIN Upper)
  PROVE  WithoutSlash(p) \in Seq(DOMAIN Upper)
BY HeadTailProperties DEF WithoutSlash

\* A path of n characters and, when m is not 0, a dot and m more.
PathShape(q, n, m) ==
  /\ q \in Seq(DOMAIN Upper) /\ n \in 0 .. NAME /\ m \in 0 .. EXT
  /\ \A i \in DOMAIN q : q[i] = "." <=> (m # 0 /\ i = n + 1)
  /\ Len(q) = IF m = 0 THEN n ELSE n + 1 + m

LEMMA FitsShape ==
  ASSUME NEW p \in Seq(DOMAIN Upper), Fits83(p)
  PROVE  \E n, m : PathShape(WithoutSlash(p), n, m)
<1> DEFINE q == WithoutSlash(p)
<1>1. q \in Seq(DOMAIN Upper)
  BY SlashOff
<1> HIDE DEF q
<1>2. PICK n \in 0 .. NAME, m \in 0 .. EXT :
         \/ m = 0 /\ Len(q) = n /\ \A i \in 1 .. n : q[i] # "."
         \/ /\ m > 0 /\ Len(q) = n + 1 + m
            /\ \A i \in DOMAIN q : (q[i] = ".") = (i = n + 1)
  BY DEF Fits83, q
<1>3. NAME \in Nat /\ EXT \in Nat
  BY FatAssumption
<1>4. CASE m = 0 /\ Len(q) = n /\ \A i \in 1 .. n : q[i] # "."
  <2>1. DOMAIN q = 1 .. n
    BY <1>1, <1>4
  <2>2. \A i \in DOMAIN q : q[i] = "." <=> (m # 0 /\ i = n + 1)
    BY <1>4, <2>1
  <2>3. PathShape(q, n, m)
    BY <1>1, <1>4, <2>2 DEF PathShape
  <2> QED BY <2>3 DEF q
<1>5. CASE m > 0 /\ Len(q) = n + 1 + m /\ \A i \in DOMAIN q : (q[i] = ".") = (i = n + 1)
  <2>1. m # 0
    BY <1>3, <1>5
  <2>2. \A i \in DOMAIN q : q[i] = "." <=> (m # 0 /\ i = n + 1)
    BY <1>5, <2>1
  <2>3. PathShape(q, n, m)
    BY <1>1, <1>5, <2>1, <2>2 DEF PathShape
  <2> QED BY <2>3 DEF q
<1> QED BY <1>2, <1>4, <1>5

\* Capitals filled up with spaces.
LEMMA PaddedIs ==
  ASSUME NEW w \in Seq(DOMAIN Upper), NEW k \in Nat, Len(w) <= k
  PROVE  /\ Padded(Capitals(w), k) \in Seq(Chars) /\ Len(Padded(Capitals(w), k)) = k
         /\ \A i \in 1 .. k : Padded(Capitals(w), k)[i] = IF i <= Len(w) THEN Upper[w[i]] ELSE Space
<1> DEFINE C == Capitals(w)
           T == [i \in 1 .. k |-> IF i \in DOMAIN C THEN C[i] ELSE Space]
<1>1. Len(w) \in Nat /\ DOMAIN w = 1 .. Len(w) /\ \A i \in 1 .. Len(w) : w[i] \in DOMAIN Upper
  OBVIOUS
<1>2. DOMAIN C = 1 .. Len(w) /\ \A i \in 1 .. Len(w) : C[i] = Upper[w[i]]
  BY <1>1 DEF Capitals
<1> HIDE DEF C
<1>3. \A i \in 1 .. k : i \in DOMAIN C <=> i <= Len(w)
  BY <1>1, <1>2
<1>4. \A i \in 1 .. k : T[i] = IF i <= Len(w) THEN Upper[w[i]] ELSE Space
  BY <1>1, <1>2, <1>3
<1>5. \A i \in 1 .. k : T[i] \in Chars
  <2> TAKE i \in 1 .. k
  <2>1. CASE i <= Len(w)
    <3>1. w[i] \in DOMAIN Upper
      BY <1>1, <2>1
    <3> QED BY <1>4, <2>1, <3>1, UpperFacts
  <2>2. CASE ~(i <= Len(w))
    BY <1>4, <2>2 DEF Chars
  <2> QED BY <2>1, <2>2
<1>6. T = Padded(C, k) /\ T = [i \in 1 .. k |-> T[i]] /\ DOMAIN T = 1 .. k
  BY DEF Padded
<1> HIDE DEF T
<1>7. T \in [1 .. k -> Chars]
  BY <1>5, <1>6
<1>8. T \in Seq(Chars) /\ Len(T) = k
  BY <1>6, <1>7
<1> QED BY <1>4, <1>6, <1>8 DEF C

\* Where the name of a path ends.
LEMMA StemIs ==
  ASSUME NEW q, NEW n, NEW m, PathShape(q, n, m)
  PROVE  Stem(q) = n
<1> DEFINE Ok(k) == /\ k <= Len(q) /\ \A i \in 1 .. k : q[i] # "."
                    /\ k = NAME \/ k = Len(q) \/ q[k + 1] = "."
<1>1. /\ q \in Seq(DOMAIN Upper) /\ n \in 0 .. NAME /\ m \in 0 .. EXT
      /\ \A i \in DOMAIN q : q[i] = "." <=> (m # 0 /\ i = n + 1)
      /\ Len(q) = IF m = 0 THEN n ELSE n + 1 + m
  BY DEF PathShape
<1>2. NAME \in Nat /\ EXT \in Nat
  BY FatAssumption
<1>3. n \in Nat /\ m \in Nat /\ n <= NAME /\ Len(q) \in Nat /\ DOMAIN q = 1 .. Len(q) /\ n <= Len(q)
  BY <1>1, <1>2
<1>4. Ok(n)
  <2>1. \A i \in 1 .. n : i \in DOMAIN q /\ i # n + 1
    BY <1>3
  <2>2. m # 0 => n + 1 \in DOMAIN q
    BY <1>1, <1>3
  <2>3. m = 0 => n = Len(q)
    BY <1>1
  <2>4. \A i \in 1 .. n : q[i] # "."
    BY <1>1, <2>1
  <2>5. m # 0 => q[n + 1] = "."
    BY <1>1, <2>2
  <2> QED BY <1>3, <2>3, <2>4, <2>5
<1>5. \A k \in 0 .. NAME : Ok(k) => k = n
  <2> SUFFICES ASSUME NEW k \in 0 .. NAME, Ok(k) PROVE k = n
    OBVIOUS
  <2>1. k \in Nat
    BY <1>2
  <2>2. ~(k < n)
    <3>0. SUFFICES ASSUME k < n PROVE FALSE OBVIOUS
    <3> DEFINE l == Len(q)
    <3>2. l \in Nat /\ n <= l /\ DOMAIN q = 1 .. l
      BY <1>3
    <3> HIDE DEF l, Ok
    <3>3. k # NAME /\ k # l /\ k + 1 # n + 1
      BY <1>2, <1>3, <2>1, <3>0, <3>2
    <3>4. k + 1 \in 1 .. l
      BY <1>3, <2>1, <3>0, <3>2
    <3>1. k # NAME /\ k # Len(q) /\ k + 1 \in DOMAIN q /\ k + 1 # n + 1
      BY <3>2, <3>3, <3>4 DEF l
    <3> USE DEF Ok
    <3> QED BY <1>1, <3>1
  <2>3. ~(k > n)
    <3> SUFFICES ASSUME k > n PROVE FALSE OBVIOUS
    <3>1. m # 0
      BY <1>1, <1>3, <2>1
    <3>2. n + 1 \in DOMAIN q /\ n + 1 \in 1 .. k
      BY <1>1, <1>3, <2>1, <3>1
    <3> QED BY <1>1, <3>1, <3>2
  <2> QED BY ONLY <1>3, <2>1, <2>2, <2>3
<1>6. Stem(q) = CHOOSE k \in 0 .. NAME : Ok(k)
  BY DEF Stem
<1> HIDE DEF Ok
<1> QED BY <1>1, <1>4, <1>5, <1>6

\* What path_to_83 makes of a path.
Converted(q, n, m, w) ==
  /\ w \in Seq(Chars) /\ Len(w) = NAME + EXT
  /\ \A i \in 1 .. NAME : w[i] = IF i <= n THEN Upper[q[i]] ELSE Space
  /\ \A i \in 1 .. EXT : w[NAME + i] = IF i <= m THEN Upper[q[n + 1 + i]] ELSE Space

LEMMA PathConverted ==
  ASSUME NEW p \in Seq(DOMAIN Upper), NEW n, NEW m, PathShape(WithoutSlash(p), n, m)
  PROVE  Converted(WithoutSlash(p), n, m, path_to_83(p))
<1> DEFINE q == WithoutSlash(p)
           ext == IF Stem(q) < Len(q) /\ q[Stem(q) + 1] = "."
                  THEN SubSeq(q, Stem(q) + 2, Lesser(Len(q), Stem(q) + 1 + EXT)) ELSE <<>>
           w1 == Padded(Capitals(SubSeq(q, 1, n)), NAME)
           w2 == Padded(Capitals(ext), EXT)
<1>1. /\ q \in Seq(DOMAIN Upper) /\ n \in 0 .. NAME /\ m \in 0 .. EXT
      /\ \A i \in DOMAIN q : q[i] = "." <=> (m # 0 /\ i = n + 1)
      /\ Len(q) = IF m = 0 THEN n ELSE n + 1 + m
  BY DEF PathShape
<1>2. NAME \in Nat /\ EXT \in Nat
  BY FatAssumption
<1>3. /\ n \in Nat /\ m \in Nat /\ n <= NAME /\ m <= EXT /\ Len(q) \in Nat
      /\ DOMAIN q = 1 .. Len(q) /\ n <= Len(q) /\ \A i \in 1 .. Len(q) : q[i] \in DOMAIN Upper
  BY <1>1, <1>2
<1>4. Stem(q) = n
  BY StemIs
<1>5. path_to_83(p) = Padded(Capitals(SubSeq(q, 1, Stem(q))), NAME) \o w2
  BY DEF path_to_83
<1>6. path_to_83(p) = w1 \o w2
  BY <1>4, <1>5
<1> HIDE DEF q
<1>7. /\ SubSeq(q, 1, n) \in Seq(DOMAIN Upper) /\ Len(SubSeq(q, 1, n)) = n
      /\ \A i \in 1 .. n : SubSeq(q, 1, n)[i] = q[i]
  <2>1. 1 \in Int /\ n \in Int /\ \A i \in 1 .. n : q[i] \in DOMAIN Upper
    BY <1>3
  <2>2. /\ SubSeq(q, 1, n) \in Seq(DOMAIN Upper)
        /\ Len(SubSeq(q, 1, n)) = IF 1 <= n THEN n - 1 + 1 ELSE 0
        /\ \A i \in 1 .. n - 1 + 1 : SubSeq(q, 1, n)[i] = q[1 + i - 1]
    BY <2>1, SubSeqProperties
  <2>3. n - 1 + 1 = n /\ (~(1 <= n) => n = 0) /\ \A i \in 1 .. n : 1 + i - 1 = i
    BY <1>3
  <2> QED BY <2>2, <2>3
<1>8. ext \in Seq(DOMAIN Upper) /\ Len(ext) = m /\ \A i \in 1 .. m : ext[i] = q[n + 1 + i]
  <2>1. CASE m = 0
    <3>1. ext = <<>>
      BY <1>1, <1>3, <1>4, <2>1
    <3> HIDE DEF ext
    <3>2. \A i \in 1 .. m : FALSE
      BY <2>1
    <3> QED BY <2>1, <3>1, <3>2, EmptySeq
  <2>2. CASE m # 0
    <3>1. n < Len(q) /\ n + 1 \in DOMAIN q /\ Len(q) = n + 1 + m /\ Len(q) <= n + 1 + EXT
      BY <1>1, <1>2, <1>3, <2>2
    <3>2. q[n + 1] = "."
      BY <1>1, <2>2, <3>1
    <3>3. Lesser(Len(q), n + 1 + EXT) = n + 1 + m
      BY <1>2, <1>3, <3>1 DEF Lesser
    <3>4. ext = SubSeq(q, n + 2, n + 1 + m)
      BY <1>4, <3>1, <3>2, <3>3
    <3> HIDE DEF ext
    <3> DEFINE lo == n + 2
               hi == n + 1 + m
    <3>5. lo \in Int /\ hi \in Int /\ \A i \in lo .. hi : q[i] \in DOMAIN Upper
      <4>1. \A i \in lo .. hi : i \in 1 .. Len(q)
        BY <1>3, <3>1
      <4> QED BY <1>3, <4>1
    <3>6. hi - lo + 1 = m /\ lo <= hi /\ \A i \in 1 .. m : lo + i - 1 = n + 1 + i
      BY <1>3, <2>2
    <3> HIDE DEF lo, hi
    <3>7. /\ SubSeq(q, lo, hi) \in Seq(DOMAIN Upper)
          /\ Len(SubSeq(q, lo, hi)) = IF lo <= hi THEN hi - lo + 1 ELSE 0
          /\ \A i \in 1 .. hi - lo + 1 : SubSeq(q, lo, hi)[i] = q[lo + i - 1]
      BY <3>5, SubSeqProperties
    <3>8. ext = SubSeq(q, lo, hi)
      BY <3>4 DEF lo, hi
    <3> QED BY <3>6, <3>7, <3>8
  <2> QED BY <2>1, <2>2
<1> HIDE DEF ext
<1>9. /\ w1 \in Seq(Chars) /\ Len(w1) = NAME
      /\ \A i \in 1 .. NAME : w1[i] = IF i <= n THEN Upper[q[i]] ELSE Space
  <2> DEFINE x == SubSeq(q, 1, n)
  <2>1. x \in Seq(DOMAIN Upper) /\ Len(x) = n /\ \A i \in 1 .. n : x[i] = q[i]
    BY <1>7
  <2> HIDE DEF x
  <2>2. /\ Padded(Capitals(x), NAME) \in Seq(Chars) /\ Len(Padded(Capitals(x), NAME)) = NAME
        /\ \A i \in 1 .. NAME : Padded(Capitals(x), NAME)[i]
                                  = IF i <= Len(x) THEN Upper[x[i]] ELSE Space
    BY <1>2, <1>3, <2>1, PaddedIs
  <2>3. \A i \in 1 .. NAME : i <= n => i \in 1 .. n
    BY <1>2, <1>3
  <2>4. w1 = Padded(Capitals(x), NAME)
    BY DEF x
  <2> HIDE DEF w1
  <2> QED BY <2>1, <2>2, <2>3, <2>4
<1>10. /\ w2 \in Seq(Chars) /\ Len(w2) = EXT
       /\ \A i \in 1 .. EXT : w2[i] = IF i <= m THEN Upper[q[n + 1 + i]] ELSE Space
  <2>2. /\ w2 \in Seq(Chars) /\ Len(w2) = EXT
        /\ \A i \in 1 .. EXT : w2[i] = IF i <= Len(ext) THEN Upper[ext[i]] ELSE Space
    BY <1>2, <1>3, <1>8, PaddedIs
  <2>3. \A i \in 1 .. EXT : i <= m => i \in 1 .. m
    BY <1>2, <1>3
  <2> HIDE DEF w2
  <2> QED BY <1>8, <2>2, <2>3
<1> HIDE DEF w1, w2
<1> DEFINE w == w1 \o w2
<1>11. /\ w \in Seq(Chars) /\ Len(w) = NAME + EXT
       /\ \A i \in 1 .. NAME + EXT : w[i] = IF i <= NAME THEN w1[i] ELSE w2[i - NAME]
  <2>1. /\ w \in Seq(Chars) /\ Len(w) = Len(w1) + Len(w2)
        /\ \A i \in 1 .. Len(w1) + Len(w2) : w[i] = IF i <= Len(w1) THEN w1[i] ELSE w2[i - Len(w1)]
    BY <1>9, <1>10, ConcatProperties
  <2>2. Len(w1) = NAME /\ Len(w2) = EXT
    BY <1>9, <1>10
  <2> HIDE DEF w
  <2> QED BY ONLY <2>1, <2>2
<1> HIDE DEF w
<1>12. \A i \in 1 .. NAME : w[i] = w1[i]
  <2>1. \A i \in 1 .. NAME : i \in 1 .. NAME + EXT /\ i <= NAME
    BY <1>2
  <2> QED BY <1>11, <2>1
<1>13. \A i \in 1 .. EXT : w[NAME + i] = w2[i]
  <2> TAKE i \in 1 .. EXT
  <2>1. NAME + i \in 1 .. NAME + EXT /\ ~(NAME + i <= NAME) /\ NAME + i - NAME = i
    BY <1>2
  <2>2. w[NAME + i] = w2[NAME + i - NAME]
    BY ONLY <1>2, <1>11, <2>1
  <2> QED BY <2>1, <2>2
<1>14. Converted(q, n, m, w)
  BY <1>9, <1>10, <1>11, <1>12, <1>13 DEF Converted
<1>15. path_to_83(p) = w
  BY <1>6 DEF w
<1> QED BY <1>14, <1>15 DEF q

\* Two names are the same when their characters are.
LEMMA SameLengths ==
  ASSUME NEW n \in Nat, NEW a \in 0 .. n, NEW b \in 0 .. n, \A i \in 1 .. n : i > a <=> i > b
  PROVE  a = b
<1>1. ~(a < b)
  <2> SUFFICES ASSUME a < b PROVE FALSE OBVIOUS
  <2>1. a + 1 \in 1 .. n /\ a + 1 > a /\ ~(a + 1 > b)
    OBVIOUS
  <2> QED BY <2>1
<1>2. ~(b < a)
  <2> SUFFICES ASSUME b < a PROVE FALSE OBVIOUS
  <2>1. b + 1 \in 1 .. n /\ b + 1 > b /\ ~(b + 1 > a)
    OBVIOUS
  <2> QED BY <2>1
<1> QED BY <1>1, <1>2

\* A name spelled as the path is the name the path is converted to.
LEMMA SpelledConverts ==
  ASSUME NEW q, NEW n, NEW m, PathShape(q, n, m), NEW x, Converted(q, n, m, x),
         NEW nm, ShortName(nm), NEW a, NEW b, NameShape(nm, a, b),
         NEW w, SpelledAs(nm, a, b, w), w = Capitals(q)
  PROVE  nm = x
<1>1. /\ q \in Seq(DOMAIN Upper) /\ n \in 0 .. NAME /\ m \in 0 .. EXT
      /\ \A i \in DOMAIN q : q[i] = "." <=> (m # 0 /\ i = n + 1)
      /\ Len(q) = IF m = 0 THEN n ELSE n + 1 + m
  BY DEF PathShape
<1>2. NAME \in Nat /\ EXT \in Nat
  BY FatAssumption
<1>3. n \in Nat /\ m \in Nat /\ n <= NAME /\ m <= EXT
  BY <1>1, <1>2
<1>4. nm \in Seq(Chars) /\ Len(nm) = NAME + EXT /\ \A i \in 1 .. NAME + EXT : nm[i] # "."
  BY DEF ShortName
<1>5. /\ a \in 0 .. NAME /\ b \in 0 .. EXT
      /\ \A i \in 1 .. NAME : nm[i] = Space <=> i > a
      /\ \A i \in 1 .. EXT : nm[NAME + i] = Space <=> i > b
  BY DEF NameShape
<1>6. a \in Nat /\ b \in Nat
  BY <1>2, <1>5
<1>7. /\ w \in Seq(Chars) /\ Len(w) = IF b = 0 THEN a ELSE a + 1 + b
      /\ \A i \in 1 .. a : w[i] = nm[i]
      /\ b # 0 => w[a + 1] = "." /\ \A j \in 1 .. b : w[a + 1 + j] = nm[NAME + j]
  BY DEF SpelledAs
<1>8. DOMAIN w = DOMAIN q /\ \A i \in DOMAIN q : w[i] = Upper[q[i]] /\ q[i] \in DOMAIN Upper
  BY <1>1 DEF Capitals
<1>9. Len(w) = Len(q) /\ DOMAIN q = 1 .. Len(q) /\ Len(q) \in Nat
  <2>1. DOMAIN w = 1 .. Len(w) /\ Len(w) \in Nat /\ DOMAIN q = 1 .. Len(q) /\ Len(q) \in Nat
    BY <1>1, <1>7
  <2> DEFINE l == Len(w)
             k == Len(q)
  <2>2. l \in Nat /\ k \in Nat /\ 1 .. l = 1 .. k
    BY <1>8, <2>1
  <2> HIDE DEF l, k
  <2>3. l = k
    BY <2>2
  <2> QED BY <2>1, <2>3 DEF l, k
<1>10. \A i \in DOMAIN q : w[i] = "." <=> (m # 0 /\ i = n + 1)
  BY <1>1, <1>8, UpperFacts
<1> DEFINE l == Len(q)
<1>11. /\ l \in Nat /\ DOMAIN q = 1 .. l /\ l = (IF m = 0 THEN n ELSE n + 1 + m)
       /\ l = IF b = 0 THEN a ELSE a + 1 + b
  BY <1>1, <1>7, <1>9
<1> HIDE DEF l
<1>12. a = n /\ b = m
  <2>1. CASE m = 0
    <3>1. b = 0
      <4> SUFFICES ASSUME b # 0 PROVE FALSE OBVIOUS
      <4>1. a + 1 \in 1 .. l
        BY <1>6, <1>11
      <4> QED BY <1>7, <1>10, <1>11, <2>1, <4>1
    <3> QED BY <1>11, <2>1, <3>1
  <2>2. CASE m # 0
    <3>1. n + 1 \in 1 .. l /\ l = n + 1 + m
      BY <1>3, <1>11, <2>2
    <3>2. w[n + 1] = "."
      BY <1>10, <1>11, <2>2, <3>1
    <3>3. b # 0
      <4> SUFFICES ASSUME b = 0 PROVE FALSE OBVIOUS
      <4>1. n + 1 \in 1 .. a /\ n + 1 \in 1 .. NAME + EXT
        BY <1>2, <1>3, <1>5, <1>6, <1>11, <3>1
      <4> QED BY <1>4, <1>7, <3>2, <4>1
    <3>4. a + 1 \in 1 .. l /\ l = a + 1 + b
      BY <1>6, <1>11, <3>3
    <3>5. a + 1 = n + 1
      BY <1>7, <1>10, <1>11, <3>3, <3>4
    <3>6. a = n
      BY <1>3, <1>6, <3>5
    <3> QED BY <1>3, <1>6, <3>1, <3>4, <3>6
  <2> QED BY <2>1, <2>2
<1>13. /\ x \in Seq(Chars) /\ Len(x) = NAME + EXT
       /\ \A i \in 1 .. NAME : x[i] = IF i <= n THEN Upper[q[i]] ELSE Space
       /\ \A i \in 1 .. EXT : x[NAME + i] = IF i <= m THEN Upper[q[n + 1 + i]] ELSE Space
  BY DEF Converted
<1>14. \A i \in 1 .. NAME : nm[i] = x[i]
  <2> TAKE i \in 1 .. NAME
  <2>1. CASE i <= n
    <3>1. i \in 1 .. a /\ i \in 1 .. l
      BY <1>2, <1>3, <1>11, <1>12, <2>1
    <3> QED BY <1>7, <1>8, <1>11, <1>13, <2>1, <3>1
  <2>2. CASE ~(i <= n)
    <3>1. i > a
      BY <1>2, <1>3, <1>12, <2>2
    <3> QED BY <1>5, <1>13, <2>2, <3>1
  <2> QED BY <2>1, <2>2
<1>15. \A i \in 1 .. EXT : nm[NAME + i] = x[NAME + i]
  <2> TAKE i \in 1 .. EXT
  <2>1. CASE i <= m
    <3>1. i \in 1 .. b /\ n + 1 + i \in 1 .. l /\ b # 0
      BY <1>2, <1>3, <1>11, <1>12, <2>1
    <3>2. w[n + 1 + i] = nm[NAME + i]
      BY <1>7, <1>12, <3>1
    <3>3. w[n + 1 + i] = Upper[q[n + 1 + i]]
      BY <1>8, <1>11, <3>1
    <3> QED BY <1>13, <2>1, <3>2, <3>3
  <2>2. CASE ~(i <= m)
    <3>1. i > b
      BY <1>2, <1>3, <1>12, <2>2
    <3> QED BY <1>5, <1>13, <2>2, <3>1
  <2> QED BY <2>1, <2>2
<1>16. \A i \in 1 .. NAME + EXT : nm[i] = x[i]
  <2> TAKE i \in 1 .. NAME + EXT
  <2>1. CASE i <= NAME
    <3>1. i \in 1 .. NAME
      BY <1>2, <2>1
    <3> QED BY <1>14, <3>1
  <2>2. CASE ~(i <= NAME)
    <3>1. i - NAME \in 1 .. EXT /\ NAME + (i - NAME) = i
      BY <1>2, <2>2
    <3>2. nm[NAME + (i - NAME)] = x[NAME + (i - NAME)]
      BY <1>15, <3>1
    <3> QED BY <3>1, <3>2
  <2> QED BY <2>1, <2>2
<1> QED BY <1>4, <1>13, <1>16, SeqEqual

\* The name a path is converted to is spelled as the path.
LEMMA ConvertedSpells ==
  ASSUME NEW q, NEW n, NEW m, PathShape(q, n, m),
         NEW nm, Converted(q, n, m, nm), NEW a, NEW b, NameShape(nm, a, b),
         NEW w, SpelledAs(nm, a, b, w)
  PROVE  w = Capitals(q)
<1>1. /\ q \in Seq(DOMAIN Upper) /\ n \in 0 .. NAME /\ m \in 0 .. EXT
      /\ \A i \in DOMAIN q : q[i] = "." <=> (m # 0 /\ i = n + 1)
      /\ Len(q) = IF m = 0 THEN n ELSE n + 1 + m
  BY DEF PathShape
<1>2. NAME \in Nat /\ EXT \in Nat
  BY FatAssumption
<1>3. n \in Nat /\ m \in Nat /\ n <= NAME /\ m <= EXT
  BY <1>1, <1>2
<1>4. /\ a \in 0 .. NAME /\ b \in 0 .. EXT
      /\ \A i \in 1 .. NAME : nm[i] = Space <=> i > a
      /\ \A i \in 1 .. EXT : nm[NAME + i] = Space <=> i > b
  BY DEF NameShape
<1>5. /\ \A i \in 1 .. NAME : nm[i] = IF i <= n THEN Upper[q[i]] ELSE Space
      /\ \A i \in 1 .. EXT : nm[NAME + i] = IF i <= m THEN Upper[q[n + 1 + i]] ELSE Space
  BY DEF Converted
<1> DEFINE l == Len(q)
<1>6. /\ l \in Nat /\ DOMAIN q = 1 .. l /\ l = (IF m = 0 THEN n ELSE n + 1 + m)
      /\ \A i \in 1 .. l : q[i] \in DOMAIN Upper
  BY <1>1
<1>7. /\ w \in Seq(Chars) /\ Len(w) = IF b = 0 THEN a ELSE a + 1 + b
      /\ \A i \in 1 .. a : w[i] = nm[i]
      /\ b # 0 => w[a + 1] = "." /\ \A j \in 1 .. b : w[a + 1 + j] = nm[NAME + j]
  BY DEF SpelledAs
<1> HIDE DEF l
<1>8. a = n
  <2>1. \A i \in 1 .. NAME : i > a <=> i > n
    <3> TAKE i \in 1 .. NAME
    <3>1. CASE i <= n
      <4>1. i \in 1 .. l /\ ~(i > n)
        BY <1>2, <1>3, <1>6, <3>1
      <4>2. nm[i] # Space
        BY <1>5, <1>6, <3>1, <4>1, UpperFacts
      <4> QED BY <1>4, <4>1, <4>2
    <3>2. CASE ~(i <= n)
      <4>1. i > n
        BY <1>2, <1>3, <3>2
      <4> QED BY <1>4, <1>5, <3>2, <4>1
    <3> QED BY <3>1, <3>2
  <2> QED BY <1>1, <1>2, <1>4, <2>1, SameLengths
<1>9. b = m
  <2>1. \A i \in 1 .. EXT : i > b <=> i > m
    <3> TAKE i \in 1 .. EXT
    <3>1. CASE i <= m
      <4>1. n + 1 + i \in 1 .. l /\ ~(i > m)
        BY <1>2, <1>3, <1>6, <3>1
      <4>2. nm[NAME + i] # Space
        BY <1>5, <1>6, <3>1, <4>1, UpperFacts
      <4> QED BY <1>4, <4>1, <4>2
    <3>2. CASE ~(i <= m)
      <4>1. i > m
        BY <1>2, <1>3, <3>2
      <4> QED BY <1>4, <1>5, <3>2, <4>1
    <3> QED BY <3>1, <3>2
  <2> QED BY <1>1, <1>2, <1>4, <2>1, SameLengths
<1>10. Len(w) = l
  BY <1>6, <1>7, <1>8, <1>9
<1>11. \A i \in 1 .. l : w[i] = Upper[q[i]]
  <2> TAKE i \in 1 .. l
  <2>0. i \in Nat /\ 1 <= i /\ i <= l
    BY <1>6
  <2>1. CASE i <= n
    <3>1. i \in 1 .. a /\ i \in 1 .. NAME
      BY <1>2, <1>3, <1>8, <2>0, <2>1
    <3> QED BY <1>5, <1>7, <2>1, <3>1
  <2>2. CASE i = n + 1
    <3>1. m # 0
      BY <1>3, <1>6, <2>0, <2>2
    <3>2. q[i] = "." /\ q[i] \in DOMAIN Upper
      BY <1>1, <1>6, <2>2, <3>1
    <3>3. Upper[q[i]] = "."
      BY <3>2, UpperFacts
    <3> QED BY <1>7, <1>8, <1>9, <2>2, <3>1, <3>3
  <2>3. CASE i > n + 1
    <3> DEFINE j == i - (n + 1)
    <3>1. m # 0 /\ j \in 1 .. m /\ n + 1 + j = i /\ j <= m /\ j \in 1 .. EXT
      BY <1>2, <1>3, <1>6, <2>0, <2>3
    <3> HIDE DEF j
    <3>2. w[n + 1 + j] = nm[NAME + j]
      BY <1>7, <1>8, <1>9, <3>1
    <3>3. nm[NAME + j] = Upper[q[n + 1 + j]]
      BY <1>5, <3>1
    <3> QED BY <3>1, <3>2, <3>3
  <2> QED BY <1>3, <2>0, <2>1, <2>2, <2>3
<1>12. w = [i \in 1 .. l |-> w[i]]
  BY <1>7, <1>10
<1>13. Capitals(q) = [i \in 1 .. l |-> Upper[q[i]]]
  BY <1>6 DEF Capitals
<1> QED BY <1>11, <1>12, <1>13

\* Comparing the eleven characters is comparing what is spelled (name83_eq).
LEMMA SameName ==
  ASSUME NEW p \in Seq(DOMAIN Upper), Fits83(p), NEW nm, ShortName(nm)
  PROVE  Spelled(nm) = Capitals(WithoutSlash(p)) <=> nm = path_to_83(p)
<1>1. PICK n, m : PathShape(WithoutSlash(p), n, m)
  BY FitsShape
<1>2. Converted(WithoutSlash(p), n, m, path_to_83(p))
  BY <1>1, PathConverted
<1>3. PICK a, b : NameShape(nm, a, b)
  BY ShortNameShape
<1>4. SpelledAs(nm, a, b, Spelled(nm))
  BY <1>3, SpelledIs
<1>5. ASSUME Spelled(nm) = Capitals(WithoutSlash(p)) PROVE nm = path_to_83(p)
  BY <1>1, <1>2, <1>3, <1>4, <1>5, SpelledConverts
<1>6. ASSUME nm = path_to_83(p) PROVE Spelled(nm) = Capitals(WithoutSlash(p))
  BY <1>1, <1>2, <1>3, <1>4, <1>6, ConvertedSpells
<1> QED BY <1>5, <1>6

----------------------------------------------------------------------------
(* The file system: what its calls keep.                                    *)

\* Entry i of the root directory, counted along its chain.
EntryAt(v, i) == DirEntry(v, Link(v, v.root, i \div PerCluster(v)), (i % PerCluster(v)) + 1)
EndAt(v, i) == EntryAt(v, i).kind = "end"
HitAt(v, p, i) == ~Skipped(EntryAt(v, i)) /\ EntryAt(v, i).name = path_to_83(p)

\* No entry before position k stops the search.
Unfound(v, p, k) == \A i \in 0 .. k - 1 : ~EndAt(v, i) /\ ~HitAt(v, p, i)

\* What a search of a directory of n clusters leaves behind.
Answer(v, p, nd, flt, n) ==
  /\ nd.valid => \E i \in 0 .. n * PerCluster(v) - 1 :
                   /\ Unfound(v, p, i) /\ ~EndAt(v, i) /\ HitAt(v, p, i)
                   /\ nd.start = StartCluster(EntryAt(v, i)) /\ nd.size = EntryAt(v, i).size
  /\ ~nd.valid /\ ~flt => \A i \in 0 .. n * PerCluster(v) - 1 :
                            HitAt(v, p, i) /\ ~EndAt(v, i) => \E j \in 0 .. i - 1 : EndAt(v, j)

\* The search stands in cluster q of n, at sector i of it or behind all its sectors.
Searching(v, p, where, c, i, n, q) ==
  /\ q < n /\ c = Link(v, v.root, q)
  /\ Unfound(v, p, IF where = "dir" THEN q * PerCluster(v) + i * SECTOR ELSE (q + 1) * PerCluster(v))

\* The loop stands at link q of a chain, unless the chain has left the data area.
Along(v, c, q, x) == (\A j \in 0 .. q - 1 : Link(v, c, j) \in DataClusters(v)) => x = Link(v, c, q)

\* What was copied are the cells of the file.
Copied(v, c, o) ==
  \A i \in 1 .. Len(o) :
    (\A j \in 0 .. i - 1 : FileCell(v, c, j)[1] \in DataClusters(v)) => o[i] = FileCell(v, c, i - 1)

InFile(v, c, o, x, i) == \E q \in Nat : Len(o) = q * PerCluster(v) + i * SECTOR /\ Along(v, c, q, x)
BehindCluster(v, c, o, x, l) ==
  \E q \in Nat : (Len(o) = l \/ Len(o) = (q + 1) * PerCluster(v)) /\ Along(v, c, q, x)

\* A whole chain is read as far as it was asked for.
WholeRead(v, nd, o, l) ==
  Acyclic(v, nd.start) /\ FileCell(v, nd.start, nd.size - 1)[1] \in DataClusters(v) => Len(o) = l

\* Types; what was kept at the mount; which phase goes with which node.
FatTypes ==
  /\ volume \in Volumes /\ g_ready \in BOOLEAN /\ faulted \in BOOLEAN
  /\ pc \in {"boot", "idle", "dir", "dirnext", "file", "filenext"}
  /\ cluster \in 0 .. MASK - 1 /\ s \in 0 .. volume.spc - 1 /\ len \in Nat
  /\ path \in Seq(DOMAIN Upper) /\ out \in Seq(CellIds)
NodeTypes ==
  /\ node.valid \in BOOLEAN /\ node.start \in 0 .. MASK - 1 /\ node.size \in Nat
  /\ Len(out) <= len /\ len <= node.size
Mounted(b, v) == b = [fat_start |-> v.reserved, data_start |-> DataStart(v),
                      root |-> v.root, spc |-> v.spc]
Phases ==
  /\ g_ready => Mounted(bpb, volume)
  /\ node.valid \/ pc \in {"dir", "dirnext"} => g_ready
  /\ pc \in {"file", "filenext"} => node.valid
  /\ pc \in {"boot", "dir", "dirnext"} => ~node.valid
  /\ ~node.valid => len = 0
  /\ pc = "boot" => ~g_ready /\ path = <<>>
FatBase == FatTypes /\ NodeTypes /\ Phases

ReadPart ==
  /\ node.valid => Copied(volume, node.start, out)
  /\ pc = "file" => Len(out) < len /\ InFile(volume, node.start, out, cluster, s)
  /\ pc = "filenext" => BehindCluster(volume, node.start, out, cluster, len)
  /\ node.valid /\ pc = "idle" /\ out # <<>> /\ ~faulted => WholeRead(volume, node, out, len)

OpenPart ==
  /\ pc \in {"dir", "dirnext"} =>
       \A n \in 0 .. volume.clusters : ChainLength(volume, volume.root, n) =>
         \E q \in Nat : Searching(volume, path, pc, cluster, s, n, q)
  /\ g_ready /\ path # <<>> /\ pc \notin {"boot", "dir", "dirnext"} =>
       \A n \in 0 .. volume.clusters : ChainLength(volume, volume.root, n) =>
         Answer(volume, path, node, faulted, n)

FatIInv == FatBase /\ ReadPart /\ OpenPart

\* The first of some numbers.
LEMMA FirstIs ==
  ASSUME NEW K, K \subseteq Nat, K # {}
  PROVE  FirstOf(K) \in K /\ \A j \in K : FirstOf(K) <= j
<1>1. \E k \in K : \A j \in K : k <= j
  BY LeastElement
<1> QED BY <1>1, Zenon DEF FirstOf

LEMMA StopsIn == \A sector : Stops(sector) \subseteq 1 .. SECTOR /\ Stops(sector) \subseteq Nat
BY FatAssumption DEF Stops

\* The start of a file is a number a FAT entry can hold.
LEMMA StartOK ==
  ASSUME NEW e, EntryOK(e)
  PROVE  StartCluster(e) \in 0 .. MASK - 1 /\ e.size \in Nat
<1>1. e.hi \in Nat /\ e.lo \in Nat /\ e.size \in Nat /\ StartCluster(e) < MASK
  BY DEF EntryOK
<1>2. HALF \in Nat /\ MASK \in Nat
  BY FatAssumption
<1>3. StartCluster(e) \in Nat
  BY <1>1, <1>2 DEF StartCluster
<1> QED BY <1>1, <1>2, <1>3

\* fat_next answers with a number below the mask, and for a cluster that has an entry
\* with that entry.
LEMMA NextIs ==
  ASSUME VolumesFormatted, FatBase, g_ready
  PROVE  /\ Readable(FatSector(cluster)) => NextCluster(cluster) \in 0 .. MASK - 1
         /\ cluster \in DOMAIN volume.fat =>
              Readable(FatSector(cluster)) /\ NextCluster(cluster) = After(volume, cluster)
<1> DEFINE lba == FatSector(cluster)
<1>1. Formatted(volume)
  BY DEF VolumesFormatted, FatBase, FatTypes, NodeTypes, Phases
<1>2. lba = volume.reserved + (cluster \div SECTOR)
  BY DEF FatSector, FatBase, Phases, Mounted
<1>3. SECTOR \in Nat /\ SECTOR > 0 /\ MASK \in Nat /\ MASK > 0 /\ cluster \in Nat
  BY FatAssumption DEF FatBase, FatTypes, NodeTypes, Phases
<1>4. (cluster % SECTOR) + 1 \in 1 .. SECTOR
  <2>1. cluster % SECTOR \in 0 .. SECTOR - 1
    BY <1>3, Quotient
  <2> QED BY <1>3, <2>1
<1>5. NextCluster(cluster) = Disk(volume)[lba][(cluster % SECTOR) + 1].next % MASK
  BY DEF NextCluster, Sector
<1>6. ASSUME Readable(lba) PROVE NextCluster(cluster) \in 0 .. MASK - 1
  <2>1. lba \in DOMAIN Disk(volume)
    BY <1>6 DEF Readable
  <2> HIDE DEF lba
  <2>2. CellOK(Disk(volume)[lba][(cluster % SECTOR) + 1])
    BY <1>1, <1>4, <2>1, SectorCells
  <2> DEFINE x == Disk(volume)[lba][(cluster % SECTOR) + 1].next
  <2>3. x \in Nat
    BY <2>2 DEF CellOK
  <2>4. NextCluster(cluster) = x % MASK
    BY <1>5
  <2> HIDE DEF x
  <2> QED BY <1>3, <2>3, <2>4, Quotient
<1>7. ASSUME cluster \in DOMAIN volume.fat
      PROVE  Readable(lba) /\ NextCluster(cluster) = After(volume, cluster)
  <2>1. /\ lba \in DOMAIN Disk(volume)
        /\ Disk(volume)[lba][(cluster % SECTOR) + 1].next = volume.fat[cluster]
    BY <1>1, <1>2, <1>7, FatEntry
  <2> QED BY <1>5, <1>7, <2>1 DEF Readable, After
<1> QED BY <1>6, <1>7

\* A sector of a cluster of the data area.
LEMMA SectorOf ==
  ASSUME VolumesFormatted, FatBase, g_ready, cluster \in DataClusters(volume)
  PROVE  /\ Readable(cluster_to_lba(cluster) + s)
         /\ Sector(cluster_to_lba(cluster) + s) = Cluster(volume, cluster, s + 1)
<1>1. Formatted(volume) /\ s \in 0 .. volume.spc - 1
  BY DEF VolumesFormatted, FatBase, FatTypes, NodeTypes, Phases
<1>2. cluster_to_lba(cluster) + s = DataStart(volume) + (cluster - 2) * volume.spc + s
  BY DEF cluster_to_lba, FatBase, Phases, Mounted
<1>3. /\ DataStart(volume) + (cluster - 2) * volume.spc + s \in DOMAIN Disk(volume)
      /\ Disk(volume)[DataStart(volume) + (cluster - 2) * volume.spc + s]
           = Cluster(volume, cluster, s + 1)
  BY <1>1, ClusterSector
<1> QED BY <1>2, <1>3 DEF Readable, Sector

\* The cells of whatever sector is read.
LEMMA CellsRead ==
  ASSUME VolumesFormatted, FatBase, NEW lba, Readable(lba)
  PROVE  \A k \in 1 .. SECTOR : CellOK(Sector(lba)[k])
BY SectorCells DEF VolumesFormatted, FatBase, FatTypes, NodeTypes, Phases, Readable, Sector

\* Nothing copied, and no node.
LEMMA NothingRead ==
  /\ <<>> \in Seq(CellIds) /\ <<>> \in Seq(DOMAIN Upper) /\ Len(<<>>) = 0
  /\ NoNode.valid = FALSE /\ NoNode.start \in 0 .. MASK - 1 /\ NoNode.size = 0 /\ 0 \in 0 .. MASK - 1
<1>1. MASK \in Nat /\ MASK > 0
  BY FatAssumption
<1>2. NoNode.valid = FALSE /\ NoNode.start = 0 /\ NoNode.size = 0
  BY DEF NoNode
<1>3. <<>> \in Seq(CellIds) /\ <<>> \in Seq(DOMAIN Upper) /\ Len(<<>>) = 0
  OBVIOUS
<1> QED BY <1>1, <1>2, <1>3

LEMMA FatInitOK == ASSUME VolumesFormatted, FatInit PROVE FatIInv
<1>1. Formatted(volume) /\ volume.spc \in Nat /\ volume.spc > 0 /\ MASK \in Nat /\ MASK > 0
  <2>1. Formatted(volume)
    BY DEF FatInit, VolumesFormatted
  <2> QED BY <2>1, Geometry
<1>2. FatBase
  <2>1. volume \in Volumes /\ g_ready \in BOOLEAN /\ faulted \in BOOLEAN /\ g_ready = FALSE
    BY DEF FatInit
  <2>2. /\ pc = "boot" /\ cluster \in 0 .. MASK - 1 /\ s \in 0 .. volume.spc - 1 /\ len \in Nat
    BY <1>1 DEF FatInit
  <2>3. path \in Seq(DOMAIN Upper) /\ out \in Seq(CellIds)
    BY NothingRead DEF FatInit
  <2>5. Len(out) <= len /\ len <= node.size /\ path = <<>> /\ len = 0
    BY NothingRead DEF FatInit
  <2>4. node.valid = FALSE /\ node.start \in 0 .. MASK - 1 /\ node.size \in Nat
    BY NothingRead DEF FatInit
  <2> QED BY <2>1, <2>2, <2>3, <2>4, <2>5 DEF FatBase, FatTypes, NodeTypes, Phases
<1>3. ReadPart
  BY DEF FatInit, ReadPart, NoNode
<1>4. OpenPart
  BY DEF FatInit, OpenPart
<1> QED BY <1>2, <1>3, <1>4 DEF FatIInv

LEMMA MountOK == ASSUME FatIInv, vfs_init PROVE FatIInv'
<1>1. /\ pc = "boot" /\ pc' = "idle" /\ volume' = volume /\ path' = path /\ len' = len /\ node' = node
      /\ cluster' = cluster /\ s' = s /\ out' = out /\ faulted' = faulted
  BY DEF vfs_init
<1>2. ~node.valid /\ ~g_ready /\ path = <<>> /\ len = 0
  BY <1>1 DEF FatIInv, FatBase, FatTypes, NodeTypes, Phases
<1>3. FatBase'
  <2>1. CASE UNCHANGED <<bpb, g_ready>>
    BY <1>1, <1>2, <2>1 DEF FatIInv, FatBase, FatTypes, NodeTypes, Phases
  <2>2. CASE g_ready' = TRUE /\ bpb' = [fat_start |-> volume.reserved,
                   data_start |-> volume.reserved + volume.num_fats * volume.fat_size,
                   root |-> volume.root, spc |-> volume.spc]
    BY <1>1, <1>2, <2>2 DEF FatIInv, FatBase, FatTypes, NodeTypes, Phases, Mounted, DataStart
  <2> QED BY <2>1, <2>2 DEF vfs_init
<1>4. ReadPart'
  BY <1>1, <1>2 DEF ReadPart
<1>5. OpenPart'
  BY <1>1, <1>2 DEF OpenPart
<1> QED BY <1>3, <1>4, <1>5 DEF FatIInv

\* Where a search or a read goes on.
LEMMA Entered ==
  ASSUME NEW call \in {"dir", "file"}, NEW c, NEW k, Enter(call, c, k)
  PROVE  /\ cluster' = c /\ s' = 0
         /\ pc' = IF is_eof(c) \/ (call = "file" /\ k >= len') THEN "idle" ELSE call
BY DEF Enter

\* Nothing lies before the first entry.
LEMMA UnfoundAtStart == ASSUME NEW v, NEW p PROVE Unfound(v, p, 0)
BY DEF Unfound

LEMMA OpenBeginOK == ASSUME VolumesFormatted, FatIInv, OpenBegin PROVE FatIInv'
<1>0. FatBase /\ ReadPart /\ OpenPart
  BY DEF FatIInv
<1>1. /\ pc = "idle" /\ volume' = volume /\ bpb' = bpb /\ g_ready' = g_ready /\ path' \in Paths
      /\ faulted' = FALSE /\ node' = NoNode /\ out' = <<>> /\ len' = 0
  BY DEF OpenBegin
<1>2. path' \in Seq(DOMAIN Upper)
  BY <1>1, PathAssumption
<1>3. Formatted(volume)
  BY <1>0 DEF FatBase, FatTypes, NodeTypes, Phases, VolumesFormatted
<1>4. volume.spc \in Nat /\ volume.spc > 0 /\ MASK \in Nat /\ MASK > 0 /\ volume.root \in 0 .. MASK - 1
  BY <1>3, Geometry
<1>5. CASE ~g_ready
  <2>1. pc' = pc /\ cluster' = cluster /\ s' = s
    BY <1>5 DEF OpenBegin
  <2>2. FatBase'
    <3>1. FatTypes'
      BY <1>0, <1>1, <1>2, <1>4, <1>5, <2>1, NothingRead DEF FatBase, FatTypes
    <3>2. NodeTypes'
      <4>1. Len(out') = 0
        BY <1>1, NothingRead
      <4>2. 0 <= len' /\ len' <= node'.size
        BY <1>0, <1>1, <1>2, <1>4, <1>5, <2>1, NothingRead
      <4>3. node'.valid \in BOOLEAN /\ node'.start \in 0 .. MASK - 1 /\ node'.size \in Nat
        <5>1. node'.valid = FALSE
          BY <1>1, NothingRead
        <5>2. node'.start \in 0 .. MASK - 1
          BY <1>1, NothingRead
        <5>3. node'.size = 0
          BY <1>1, NothingRead
        <5>4. node'.size \in Nat
          BY <5>3
        <5> QED BY <5>1, <5>2, <5>4, Zenon
      <4> QED BY <4>1, <4>2, <4>3 DEF NodeTypes
    <3>3. Phases'
      BY <1>0, <1>1, <1>2, <1>4, <1>5, <2>1, NothingRead DEF FatBase, Phases
    <3> QED BY <3>1, <3>2, <3>3 DEF FatBase
  <2>3. ReadPart'
    BY <1>1, <2>1 DEF ReadPart, NoNode
  <2>4. OpenPart'
    BY <1>1, <1>5, <2>1 DEF OpenPart
  <2> QED BY <2>2, <2>3, <2>4 DEF FatIInv
<1>6. CASE g_ready
  <2>1. Enter("dir", bpb.root, 0) /\ bpb.root = volume.root
    BY <1>0, <1>6 DEF OpenBegin, FatBase, Phases, Mounted
  <2>2. cluster' = volume.root /\ s' = 0 /\ pc' = IF is_eof(volume.root) THEN "idle" ELSE "dir"
    BY <2>1, Entered
  <2>3. FatBase'
    <3>1. FatTypes'
      <4>1. pc' \in {"idle", "dir", "file"}
        BY <2>2
      <4>2. cluster' \in 0 .. MASK - 1 /\ s' \in 0 .. volume'.spc - 1 /\ len' \in Nat
        BY <1>0, <1>1, <1>2, <1>4, <1>6, <2>2, NothingRead DEF FatBase, FatTypes, NodeTypes
      <4>3. path' \in Seq(DOMAIN Upper) /\ out' \in Seq(CellIds)
        BY <1>0, <1>1, <1>2, <1>4, <1>6, <2>2, NothingRead DEF FatBase, FatTypes
      <4> QED BY <1>0, <1>1, <4>1, <4>2, <4>3 DEF FatBase, FatTypes
    <3>2. NodeTypes'
      <4>1. Len(out') = 0
        BY <1>1, NothingRead
      <4>2. 0 <= len' /\ len' <= node'.size
        BY <1>0, <1>1, <1>2, <1>4, <1>6, <2>2, NothingRead
      <4>3. node'.valid \in BOOLEAN /\ node'.start \in 0 .. MASK - 1 /\ node'.size \in Nat
        <5>1. node'.valid = FALSE
          BY <1>1, NothingRead
        <5>2. node'.start \in 0 .. MASK - 1
          BY <1>1, NothingRead
        <5>3. node'.size = 0
          BY <1>1, NothingRead
        <5>4. node'.size \in Nat
          BY <5>3
        <5> QED BY <5>1, <5>2, <5>4, Zenon
      <4> QED BY <4>1, <4>2, <4>3 DEF NodeTypes
    <3>3. Phases'
      BY <1>0, <1>1, <1>2, <1>4, <1>6, <2>2, NothingRead DEF FatBase, Phases
    <3> QED BY <3>1, <3>2, <3>3 DEF FatBase
  <2>4. ReadPart'
    BY <1>1, <2>2 DEF ReadPart, NoNode
  <2>5. ASSUME NEW n \in 0 .. volume.clusters, ChainLength(volume, volume.root, n), is_eof(volume.root)
        PROVE  Answer(volume, path', NoNode, FALSE, n)
    <3>1. n \in Nat /\ volume.clusters \in Nat
      BY <1>3, Geometry
    <3>2. n = 0
      <4> SUFFICES ASSUME n > 0 PROVE FALSE BY <3>1
      <4>1. Link(volume, volume.root, 0) \in DataClusters(volume)
        BY <1>3, <2>5, <3>1, BeforeEnd
      <4>2. Link(volume, volume.root, 0) = volume.root
        BY LinkIs
      <4> QED BY <1>3, <2>5, <4>1, <4>2, DataInFat
    <3>3. n * PerCluster(volume) = 0
      BY <1>3, <3>2, Geometry
    <3>4. \A i \in 0 .. n * PerCluster(volume) - 1 : FALSE
      BY <3>3
    <3> QED BY <3>4 DEF Answer, NoNode
  <2>6. ASSUME NEW n \in 0 .. volume.clusters, ChainLength(volume, volume.root, n), ~is_eof(volume.root)
        PROVE  Searching(volume, path', "dir", volume.root, 0, n, 0)
    <3>1. n \in Nat /\ volume.clusters \in Nat
      BY <1>3, Geometry
    <3>2. Link(volume, volume.root, 0) = volume.root
      BY LinkIs
    <3>3. 0 < n
      <4> SUFFICES ASSUME n = 0 PROVE FALSE BY <3>1
      <4> QED BY <2>6, <3>2 DEF ChainLength
    <3>4. 0 * PerCluster(volume) + 0 * SECTOR = 0
      BY <1>3, Geometry
    <3> QED BY <3>2, <3>3, <3>4, UnfoundAtStart DEF Searching
  <2>7. OpenPart'
    <3>1. CASE is_eof(volume.root)
      BY <1>1, <2>2, <2>5, <3>1 DEF OpenPart
    <3>2. CASE ~is_eof(volume.root)
      <4>1. 0 \in Nat
        OBVIOUS
      <4> QED BY <1>1, <2>2, <2>6, <3>2, <4>1 DEF OpenPart
    <3> QED BY <3>1, <3>2
  <2> QED BY <2>3, <2>4, <2>7 DEF FatIInv
<1> QED BY <1>5, <1>6 DEF FatIInv, FatBase, FatTypes, NodeTypes, Phases

LEMMA ReadBeginOK == ASSUME VolumesFormatted, FatIInv, ReadBegin PROVE FatIInv'
<1>0. FatBase /\ ReadPart /\ OpenPart
  BY DEF FatIInv
<1>1. /\ pc = "idle" /\ node.valid /\ volume' = volume /\ bpb' = bpb /\ g_ready' = g_ready
      /\ path' = path /\ node' = node /\ faulted' = FALSE /\ out' = <<>>
  BY DEF ReadBegin
<1>2. PICK n \in Lens : len' = Lesser(n, node.size)
  BY DEF ReadBegin
<1>3. n \in Nat /\ node.size \in Nat
  BY <1>0, FatAssumption DEF FatBase, FatTypes, NodeTypes, Phases
<1>4. len' \in Nat /\ len' <= node.size
  BY <1>2, <1>3 DEF Lesser
<1>5. Formatted(volume)
  BY <1>0 DEF FatBase, FatTypes, NodeTypes, Phases, VolumesFormatted
<1>6. volume.spc \in Nat /\ volume.spc > 0 /\ SECTOR \in Nat /\ PerCluster(volume) \in Nat
  BY <1>5, Geometry
<1>7. cluster' = node.start /\ s' = 0 /\ pc' = IF is_eof(node.start) \/ 0 >= len' THEN "idle" ELSE "file"
  <2>1. Enter("file", node.start, 0)
    BY DEF ReadBegin
  <2> QED BY <2>1, Entered
<1>8. FatBase'
  <2>1. FatTypes'
    <3>1. pc' \in {"idle", "dir", "file"}
      BY <1>7
    <3>2. cluster' \in 0 .. MASK - 1 /\ s' \in 0 .. volume'.spc - 1 /\ len' \in Nat
      BY <1>0, <1>1, <1>4, <1>6, <1>7, NothingRead DEF FatBase, FatTypes, NodeTypes
    <3>3. path' \in Seq(DOMAIN Upper) /\ out' \in Seq(CellIds)
      BY <1>0, <1>1, <1>4, <1>6, <1>7, NothingRead DEF FatBase, FatTypes
    <3> QED BY <1>0, <1>1, <3>1, <3>2, <3>3 DEF FatBase, FatTypes
  <2>2. NodeTypes'
    <3>1. Len(out') = 0
      BY <1>1, NothingRead
    <3>2. 0 <= len' /\ len' <= node'.size
      BY <1>0, <1>1, <1>4, <1>6, <1>7, NothingRead
    <3>3. node'.valid \in BOOLEAN /\ node'.start \in 0 .. MASK - 1 /\ node'.size \in Nat
      BY <1>0, <1>1, <1>4, <1>6, <1>7, NothingRead DEF FatBase, NodeTypes
    <3> QED BY <3>1, <3>2, <3>3 DEF NodeTypes
  <2>3. Phases'
    BY <1>0, <1>1, <1>4, <1>6, <1>7, NothingRead DEF FatBase, Phases
  <2> QED BY <2>1, <2>2, <2>3 DEF FatBase
<1>9. ReadPart'
  <2>1. Copied(volume, node.start, <<>>)
    BY DEF Copied
  <2>2. pc' = "file" => 0 < len'
    BY <1>4, <1>7
  <2>3. InFile(volume, node.start, <<>>, node.start, 0)
    <3>1. Len(<<>>) = 0 * PerCluster(volume) + 0 * SECTOR
      BY <1>6
    <3>2. Along(volume, node.start, 0, node.start)
      BY LinkIs DEF Along
    <3>3. 0 \in Nat
      OBVIOUS
    <3> QED BY <3>1, <3>2, <3>3 DEF InFile
  <2>4. pc' # "filenext" /\ Len(<<>>) = 0
    BY <1>7
  <2> QED BY <1>1, <1>7, <2>1, <2>2, <2>3, <2>4 DEF ReadPart
<1>10. OpenPart'
  <2>1. pc' \in {"idle", "file"}
    BY <1>7
  <2>2. ASSUME NEW k, Answer(volume, path, node, faulted, k)
        PROVE  Answer(volume, path, node, FALSE, k)
    BY <1>1, <2>2 DEF Answer
  <2> QED BY <1>0, <1>1, <2>1, <2>2 DEF OpenPart
<1> QED BY <1>8, <1>9, <1>10 DEF FatIInv

LEMMA ReadFailsOK == ASSUME FatIInv, ReadFails PROVE FatIInv'
<1>0. FatBase /\ ReadPart /\ OpenPart
  BY DEF FatIInv
<1>1. /\ pc \notin {"boot", "idle"} /\ pc' = "idle" /\ faulted' = TRUE
      /\ volume' = volume /\ bpb' = bpb /\ g_ready' = g_ready /\ path' = path /\ len' = len
      /\ node' = node /\ cluster' = cluster /\ s' = s /\ out' = out
  BY DEF ReadFails
<1>2. FatBase'
  BY <1>0, <1>1 DEF FatBase, FatTypes, NodeTypes, Phases
<1>3. ReadPart'
  BY <1>0, <1>1 DEF ReadPart
<1>4. OpenPart'
  <2>1. CASE pc \in {"dir", "dirnext"}
    <3>1. ~node.valid
      BY <1>0, <2>1 DEF FatBase, FatTypes, NodeTypes, Phases
    <3>2. \A k : Answer(volume, path, node, TRUE, k)
      BY <3>1 DEF Answer
    <3> QED BY <1>1, <3>2 DEF OpenPart
  <2>2. CASE pc \in {"file", "filenext"}
    <3>1. node.valid
      BY <1>0, <2>2 DEF FatBase, FatTypes, NodeTypes, Phases
    <3>2. \A k : Answer(volume, path, node, faulted, k) => Answer(volume, path, node, TRUE, k)
      BY <3>1 DEF Answer
    <3> QED BY <1>0, <1>1, <2>2, <3>2 DEF OpenPart
  <2> QED BY <1>0, <1>1, <2>1, <2>2 DEF FatBase, FatTypes, NodeTypes, Phases
<1> QED BY <1>2, <1>3, <1>4 DEF FatIInv

\* An entry of a directory as its sector shows it.
LEMMA EntryInSector ==
  ASSUME NEW v, Formatted(v), NEW q \in Nat, NEW i \in 0 .. v.spc - 1, NEW k \in 1 .. SECTOR
  PROVE  /\ Cluster(v, Link(v, v.root, q), i + 1)[k].entry
              = EntryAt(v, q * PerCluster(v) + i * SECTOR + (k - 1))
         /\ Cluster(v, Link(v, v.root, q), i + 1)[k].id = <<Link(v, v.root, q), i + 1, k>>
<1> DEFINE c == Link(v, v.root, q)
           x == q * PerCluster(v) + i * SECTOR + (k - 1)
<1>1. SECTOR \in Nat /\ v.spc \in Nat
  BY Geometry
<1>2. k - 1 \in 0 .. SECTOR - 1
  BY <1>1
<1>3. x \div PerCluster(v) = q /\ x % PerCluster(v) = i * SECTOR + (k - 1)
  BY <1>2, PositionParts
<1> HIDE DEF x
<1>4. EntryAt(v, x) = DirEntry(v, c, i * SECTOR + (k - 1) + 1)
  BY <1>3 DEF EntryAt
<1> HIDE DEF c
<1>5. (i + 1 - 1) * SECTOR + k = i * SECTOR + (k - 1) + 1
  <2>1. i + 1 - 1 = i
    BY <1>1
  <2> DEFINE y == i * SECTOR
  <2>2. y \in Nat
    BY <1>1
  <2>3. y + k = y + (k - 1) + 1
    <3> HIDE DEF y
    <3> QED BY <1>1, <2>2
  <2> QED BY <2>1, <2>3
<1>6. PICK j : j = i + 1
  OBVIOUS
<1>7. Cluster(v, c, j)[k] = Cell(0, DirEntry(v, c, (j - 1) * SECTOR + k), c, j, k)
  BY DEF Cluster
<1>8. /\ Cluster(v, c, j)[k].entry = DirEntry(v, c, (j - 1) * SECTOR + k)
      /\ Cluster(v, c, j)[k].id = <<c, j, k>>
  BY <1>7 DEF Cell
<1>9. Cluster(v, c, i + 1)[k].entry = EntryAt(v, x) /\ Cluster(v, c, i + 1)[k].id = <<c, i + 1, k>>
  BY <1>4, <1>5, <1>6, <1>8
<1> QED BY <1>9 DEF x, c

\* A search that meets nothing for a while.
LEMMA QuietOn ==
  ASSUME NEW v, NEW p, NEW x \in Nat, NEW y \in Nat, Unfound(v, p, x),
         \A k \in 1 .. y : ~EndAt(v, x + (k - 1)) /\ ~HitAt(v, p, x + (k - 1))
  PROVE  Unfound(v, p, x + y)
<1> SUFFICES ASSUME NEW i \in 0 .. x + y - 1 PROVE ~EndAt(v, i) /\ ~HitAt(v, p, i)
  BY DEF Unfound
<1>1. CASE i < x
  <2>1. i \in 0 .. x - 1
    BY <1>1
  <2> QED BY <2>1 DEF Unfound
<1>2. CASE ~(i < x)
  <2> DEFINE k == i - x + 1
  <2>1. k \in 1 .. y /\ x + (k - 1) = i
    BY <1>2
  <2> HIDE DEF k
  <2>2. ~EndAt(v, x + (k - 1)) /\ ~HitAt(v, p, x + (k - 1))
    BY <2>1
  <2> QED BY <2>1, <2>2
<1> QED BY <1>1, <1>2

\* A search that met nothing at all.
LEMMA QuietAll ==
  ASSUME NEW v, NEW p, NEW nd, NEW flt, NEW n, Unfound(v, p, n * PerCluster(v)), ~nd.valid
  PROVE  Answer(v, p, nd, flt, n)
BY DEF Answer, Unfound

\* The sector a search stands at.
LEMMA SearchSector ==
  ASSUME VolumesFormatted, FatBase, g_ready, NEW n \in Nat, ChainLength(volume, volume.root, n),
         NEW q \in Nat, Searching(volume, path, "dir", cluster, s, n, q)
  PROVE  LET x == q * PerCluster(volume) + s * SECTOR
         IN /\ x \in Nat /\ x + SECTOR <= n * PerCluster(volume) /\ n * PerCluster(volume) \in Nat
            /\ Unfound(volume, path, x)
            /\ \A k \in 1 .. SECTOR :
                 Sector(cluster_to_lba(cluster) + s)[k].entry = EntryAt(volume, x + (k - 1))
            /\ x + SECTOR = IF s + 1 < volume.spc THEN q * PerCluster(volume) + (s + 1) * SECTOR
                            ELSE (q + 1) * PerCluster(volume)
<1> DEFINE P == PerCluster(volume)
           x == q * P + s * SECTOR
<1>1. Formatted(volume) /\ s \in 0 .. volume.spc - 1
  BY DEF FatBase, FatTypes, VolumesFormatted
<1>2. /\ P \in Nat /\ SECTOR \in Nat /\ SECTOR > 0 /\ volume.spc \in Nat /\ volume.spc > 0
      /\ P = volume.spc * SECTOR
  BY <1>1, Geometry DEF PerCluster
<1>3. s \in Nat /\ s < volume.spc
  BY <1>1, <1>2
<1>4. q < n /\ cluster = Link(volume, volume.root, q) /\ Unfound(volume, path, x)
  BY DEF Searching
<1>5. cluster \in DataClusters(volume)
  BY <1>1, <1>4, BeforeEnd
<1>6. Sector(cluster_to_lba(cluster) + s) = Cluster(volume, Link(volume, volume.root, q), s + 1)
  BY <1>4, <1>5, SectorOf
<1>7. \A k \in 1 .. SECTOR :
        Sector(cluster_to_lba(cluster) + s)[k].entry = EntryAt(volume, x + (k - 1))
  BY <1>1, <1>6, EntryInSector
<1>8. x \in Nat /\ n * P \in Nat /\ q * P + P <= n * P /\ q * P \in Nat /\ s * SECTOR \in Nat
      /\ s * SECTOR + SECTOR <= P
  BY <1>2, <1>3, <1>4, MulStep
<1>9. x + SECTOR <= n * P
  <2> DEFINE y == q * P
             z == s * SECTOR
             w == n * P
  <2>1. y \in Nat /\ z \in Nat /\ w \in Nat /\ y + P <= w /\ z + SECTOR <= P
    BY <1>8
  <2> HIDE DEF y, z, w, P
  <2>2. y + z + SECTOR <= w
    BY <1>2, <2>1
  <2> QED BY <2>2 DEF y, z, w
<1>10. x + SECTOR = IF s + 1 < volume.spc THEN q * P + (s + 1) * SECTOR ELSE (q + 1) * P
  <2>1. (s + 1) * SECTOR = s * SECTOR + SECTOR /\ (q + 1) * P = q * P + P
    BY <1>2, <1>3
  <2> DEFINE y == q * P
             z == s * SECTOR
  <2>2. y \in Nat /\ z \in Nat
    BY <1>8
  <2>3. CASE s + 1 < volume.spc
    <3>1. y + z + SECTOR = y + (z + SECTOR)
      <4> HIDE DEF y, z
      <4> QED BY <1>2, <2>2
    <3> QED BY <2>1, <2>3, <3>1
  <2>4. CASE ~(s + 1 < volume.spc)
    <3>1. s + 1 = volume.spc
      BY <1>2, <1>3, <2>4
    <3>2. z + SECTOR = P
      BY <1>2, <2>1, <3>1
    <3>3. y + z + SECTOR = y + P
      <4> HIDE DEF y, z, P
      <4> QED BY <1>2, <2>2, <3>2
    <3> QED BY <2>1, <2>4, <3>3
  <2> QED BY <2>3, <2>4
<1> QED BY <1>4, <1>7, <1>8, <1>9, <1>10

\* The entries that stop a search, by their number.
LEMMA StopsAt ==
  ASSUME NEW sector, NEW x, \A k \in 1 .. SECTOR : sector[k].entry = EntryAt(volume, x + (k - 1))
  PROVE  \A k \in 1 .. SECTOR : k \in Stops(sector) <=> \/ EndAt(volume, x + (k - 1))
                                                        \/ HitAt(volume, path, x + (k - 1))
BY DEF Stops, Matches, EndAt, HitAt

\* While a search runs nothing is copied.
LEMMA NoOutput == ASSUME FatBase, ~node.valid PROVE out = <<>> /\ len = 0
<1>1. len = 0 /\ Len(out) <= len /\ out \in Seq(CellIds)
  BY DEF FatBase, FatTypes, NodeTypes, Phases
<1>2. Len(out) = 0
  BY <1>1
<1> QED BY <1>1, <1>2, EmptySeq

LEMMA OpenSectorOK == ASSUME VolumesFormatted, FatIInv, OpenSector PROVE FatIInv'
<1> DEFINE lba == cluster_to_lba(cluster) + s
           sector == Sector(lba)
           K == Stops(sector)
           k == FirstOf(K)
           e == sector[k].entry
           Chain(n) == n \in 0 .. volume.clusters /\ ChainLength(volume, volume.root, n)
<1>0. FatBase /\ ReadPart /\ OpenPart
  BY DEF FatIInv
<1>1. /\ pc = "dir" /\ Readable(lba)
      /\ volume' = volume /\ bpb' = bpb /\ g_ready' = g_ready /\ path' = path /\ len' = len
      /\ cluster' = cluster /\ out' = out /\ faulted' = faulted
  BY DEF OpenSector
<1>2. g_ready /\ ~node.valid /\ node.valid = FALSE
  BY <1>0, <1>1 DEF FatBase, Phases, NodeTypes
<1>3. out = <<>> /\ len = 0
  BY <1>0, <1>2, NoOutput
<1>4. Formatted(volume) /\ s \in 0 .. volume.spc - 1
  BY <1>0 DEF FatBase, FatTypes, VolumesFormatted
<1>5. volume.spc \in Nat /\ volume.spc > 0 /\ SECTOR \in Nat /\ SECTOR > 0 /\ volume.clusters \in Nat
  BY <1>4, Geometry
<1>6. K \subseteq 1 .. SECTOR /\ K \subseteq Nat
  BY StopsIn
<1>7. K # {} => k \in K /\ \A j \in K : k <= j
  BY <1>6, FirstIs
<1>8. \/ K = {} /\ AfterSector /\ node' = node
      \/ K # {} /\ e.kind = "end" /\ pc' = "idle" /\ s' = s /\ node' = node
      \/ K # {} /\ e.kind # "end" /\ pc' = "idle" /\ s' = s
         /\ node' = [valid |-> TRUE, start |-> StartCluster(e), size |-> e.size]
  BY DEF OpenSector
\* What the sector holds, when the directory's chain is whole.
<1>9. ASSUME NEW n, Chain(n)
      PROVE  \E q \in Nat : /\ Searching(volume, path, "dir", cluster, s, n, q) /\ n \in Nat
                            /\ q * PerCluster(volume) + s * SECTOR \in Nat
  <2>1. PICK q \in Nat : Searching(volume, path, "dir", cluster, s, n, q)
    BY <1>0, <1>1, <1>9 DEF OpenPart
  <2>2. n \in Nat
    BY <1>5, <1>9
  <2>3. q * PerCluster(volume) + s * SECTOR \in Nat
    BY <1>0, <1>2, <1>9, <2>1, <2>2, SearchSector
  <2> QED BY <2>1, <2>2, <2>3
<1> HIDE DEF lba, sector, K, k, e, Chain
<1>10. CASE K = {} /\ AfterSector /\ node' = node
  <2>1. \/ s + 1 < volume.spc /\ s' = s + 1 /\ pc' = "dir"
        \/ ~(s + 1 < volume.spc) /\ s' = 0 /\ pc' = "dirnext"
    <3>1. bpb.spc = volume.spc
      BY <1>0, <1>2 DEF FatBase, Phases, Mounted
    <3> QED BY <1>1, <1>10, <3>1 DEF AfterSector
  <2>2. FatBase'
    <3>0. pc' \in {"dir", "dirnext"} /\ s' \in 0 .. volume.spc - 1
      BY <1>4, <1>5, <2>1
    <3>1. FatTypes'
      BY <1>0, <1>1, <3>0 DEF FatBase, FatTypes
    <3>2. NodeTypes'
      BY <1>0, <1>1, <1>10 DEF FatBase, NodeTypes
    <3>3. Phases'
      BY <1>0, <1>1, <1>2, <1>10, <3>0 DEF FatBase, Phases
    <3> QED BY <3>1, <3>2, <3>3 DEF FatBase
  <2>3. ReadPart'
    BY <1>2, <1>10, <2>1 DEF ReadPart
  <2>4. ASSUME NEW n, Chain(n)
        PROVE  \E q \in Nat : Searching(volume, path, pc', cluster, s', n, q)
    <3>1. PICK q \in Nat : /\ Searching(volume, path, "dir", cluster, s, n, q) /\ n \in Nat
                           /\ q * PerCluster(volume) + s * SECTOR \in Nat
      BY <1>9, <2>4
    <3> DEFINE x == q * PerCluster(volume) + s * SECTOR
    <3>2. /\ x \in Nat /\ Unfound(volume, path, x)
          /\ \A j \in 1 .. SECTOR : sector[j].entry = EntryAt(volume, x + (j - 1))
          /\ x + SECTOR = IF s + 1 < volume.spc THEN q * PerCluster(volume) + (s + 1) * SECTOR
                          ELSE (q + 1) * PerCluster(volume)
      BY <1>0, <1>2, <2>4, <3>1, SearchSector DEF sector, lba, Chain
    <3> HIDE DEF x
    <3>3. \A j \in 1 .. SECTOR : ~EndAt(volume, x + (j - 1)) /\ ~HitAt(volume, path, x + (j - 1))
      BY <1>10, <3>2, StopsAt DEF K
    <3>4. Unfound(volume, path, x + SECTOR)
      BY <1>5, <3>2, <3>3, QuietOn
    <3>5. q < n /\ cluster = Link(volume, volume.root, q)
      BY <3>1 DEF Searching
    <3>6. CASE s + 1 < volume.spc
      <4>1. s' = s + 1 /\ pc' = "dir"
        BY <2>1, <3>6
      <4>2. Unfound(volume, path, q * PerCluster(volume) + (s + 1) * SECTOR)
        BY <3>2, <3>4, <3>6
      <4>3. Searching(volume, path, "dir", cluster, s + 1, n, q)
        BY <3>5, <4>2 DEF Searching
      <4> QED BY <4>1, <4>3
    <3>7. CASE ~(s + 1 < volume.spc)
      <4>1. s' = 0 /\ pc' = "dirnext"
        BY <2>1, <3>7
      <4>2. Unfound(volume, path, (q + 1) * PerCluster(volume))
        BY <3>2, <3>4, <3>7
      <4>3. Searching(volume, path, "dirnext", cluster, 0, n, q)
        BY <3>5, <4>2 DEF Searching
      <4> QED BY <4>1, <4>3
    <3> QED BY <3>6, <3>7
  <2>5. OpenPart'
    <3>1. pc' \in {"dir", "dirnext"}
      BY <2>1
    <3> QED BY <1>1, <2>4, <3>1 DEF OpenPart, Chain
  <2> QED BY <2>2, <2>3, <2>5 DEF FatIInv
\* The entry that stops the search, when the chain is whole.
<1>11. ASSUME K # {}, NEW n, Chain(n)
       PROVE  \E i \in 0 .. n * PerCluster(volume) - 1 :
                 /\ Unfound(volume, path, i) /\ e = EntryAt(volume, i)
                 /\ EndAt(volume, i) \/ HitAt(volume, path, i)
  <2>1. PICK q \in Nat : /\ Searching(volume, path, "dir", cluster, s, n, q) /\ n \in Nat
                         /\ q * PerCluster(volume) + s * SECTOR \in Nat
    BY <1>9, <1>11
  <2> DEFINE x == q * PerCluster(volume) + s * SECTOR
             y == n * PerCluster(volume)
             i == x + (k - 1)
  <2>2. /\ x \in Nat /\ Unfound(volume, path, x) /\ x + SECTOR <= y /\ y \in Nat
        /\ \A j \in 1 .. SECTOR : sector[j].entry = EntryAt(volume, x + (j - 1))
    BY <1>0, <1>2, <1>11, <2>1, SearchSector DEF sector, lba, Chain
  <2> HIDE DEF x, y
  <2>3. k \in 1 .. SECTOR /\ k \in K
    BY <1>6, <1>7, <1>11
  <2>4. i \in 0 .. y - 1
    BY <1>5, <2>2, <2>3
  <2>5. e = EntryAt(volume, i)
    BY <2>2, <2>3 DEF e
  <2>6. EndAt(volume, i) \/ HitAt(volume, path, i)
    BY <2>2, <2>3, StopsAt DEF K
  <2>7. \A j \in 1 .. k - 1 : ~EndAt(volume, x + (j - 1)) /\ ~HitAt(volume, path, x + (j - 1))
    <3> TAKE j \in 1 .. k - 1
    <3>1. j \in 1 .. SECTOR /\ ~(k <= j)
      BY <1>5, <2>3
    <3>2. j \notin K
      BY <1>7, <1>11, <3>1
    <3> QED BY <2>2, <3>1, <3>2, StopsAt DEF K
  <2>8. Unfound(volume, path, i)
    <3>1. k - 1 \in Nat
      BY <1>5, <2>3
    <3> QED BY <2>2, <2>7, <3>1, QuietOn
  <2> QED BY <2>4, <2>5, <2>6, <2>8 DEF y
<1>12. CASE K # {} /\ e.kind = "end" /\ pc' = "idle" /\ s' = s /\ node' = node
  <2>2. FatBase'
    <3>1. FatTypes'
      BY <1>0, <1>1, <1>12 DEF FatBase, FatTypes
    <3>2. NodeTypes'
      BY <1>0, <1>1, <1>12 DEF FatBase, NodeTypes
    <3>3. Phases'
      BY <1>0, <1>1, <1>2, <1>12 DEF FatBase, Phases
    <3> QED BY <3>1, <3>2, <3>3 DEF FatBase
  <2>3. ReadPart'
    BY <1>2, <1>12 DEF ReadPart
  <2>4. ASSUME NEW n, Chain(n)
        PROVE  Answer(volume, path, node, faulted, n)
    <3>1. PICK i \in 0 .. n * PerCluster(volume) - 1 :
             Unfound(volume, path, i) /\ e = EntryAt(volume, i)
      BY <1>11, <1>12, <2>4
    <3>2. EndAt(volume, i)
      BY <1>12, <3>1 DEF EndAt
    <3>3. n * PerCluster(volume) \in Nat
      <4>1. n \in Nat /\ PerCluster(volume) \in Nat
        BY <1>4, <1>5, <2>4, Geometry DEF Chain
      <4> QED BY <4>1
    <3>4. ASSUME NEW m \in 0 .. n * PerCluster(volume) - 1, HitAt(volume, path, m), ~EndAt(volume, m)
          PROVE  \E j \in 0 .. m - 1 : EndAt(volume, j)
      <4> DEFINE y == n * PerCluster(volume)
      <4>1. y \in Nat /\ m \in 0 .. y - 1 /\ i \in 0 .. y - 1
        BY <3>1, <3>3, <3>4
      <4> HIDE DEF y
      <4>2. m # i
        BY <3>2, <3>4
      <4>3. ~(m < i)
        <5> SUFFICES ASSUME m < i PROVE FALSE OBVIOUS
        <5>1. m \in 0 .. i - 1
          BY <4>1
        <5> QED BY <3>1, <3>4, <5>1 DEF Unfound
      <4>4. i \in 0 .. m - 1
        BY <4>1, <4>2, <4>3
      <4> QED BY <3>2, <4>4
    <3> QED BY <1>2, <3>4 DEF Answer
  <2>5. OpenPart'
    BY <1>1, <1>12, <2>4 DEF OpenPart, Chain
  <2> QED BY <2>2, <2>3, <2>5 DEF FatIInv
<1>13. CASE /\ K # {} /\ e.kind # "end" /\ pc' = "idle" /\ s' = s
            /\ node' = [valid |-> TRUE, start |-> StartCluster(e), size |-> e.size]
  <2>1. EntryOK(e)
    <3>1. k \in 1 .. SECTOR
      BY <1>6, <1>7, <1>13
    <3>2. CellOK(sector[k])
      BY <1>0, <1>1, <3>1, CellsRead DEF sector
    <3> QED BY <3>2 DEF CellOK, e
  <2>2. /\ node'.valid = TRUE /\ node'.start = StartCluster(e) /\ node'.size = e.size
        /\ node'.start \in 0 .. MASK - 1 /\ node'.size \in Nat
    BY <1>13, <2>1, StartOK
  <2>3. FatBase'
    <3>1. FatTypes'
      BY <1>0, <1>1, <1>13 DEF FatBase, FatTypes
    <3>2. NodeTypes'
      <4>1. Len(out') = 0 /\ len' = 0
        BY <1>1, <1>3
      <4>2. node'.valid \in BOOLEAN
        BY <2>2, Zenon
      <4> QED BY <2>2, <4>1, <4>2 DEF NodeTypes
    <3>3. Phases'
      BY <1>0, <1>1, <1>2, <1>13, <2>2 DEF FatBase, Phases
    <3> QED BY <3>1, <3>2, <3>3 DEF FatBase
  <2>4. ReadPart'
    <3>1. Copied(volume, node'.start, <<>>)
      BY DEF Copied
    <3> QED BY <1>1, <1>3, <1>13, <3>1 DEF ReadPart
  <2>5. ASSUME NEW n, Chain(n)
        PROVE  Answer(volume, path, node', faulted, n)
    <3>1. PICK i \in 0 .. n * PerCluster(volume) - 1 :
             /\ Unfound(volume, path, i) /\ e = EntryAt(volume, i)
             /\ EndAt(volume, i) \/ HitAt(volume, path, i)
      BY <1>11, <1>13, <2>5
    <3>2. ~EndAt(volume, i)
      BY <1>13, <3>1 DEF EndAt
    <3> QED BY <2>2, <3>1, <3>2 DEF Answer
  <2>6. OpenPart'
    BY <1>1, <1>13, <2>5 DEF OpenPart, Chain
  <2> QED BY <2>3, <2>4, <2>6 DEF FatIInv
<1> QED BY <1>8, <1>10, <1>12, <1>13

\* A chain after one more link.
LEMMA AlongNext ==
  ASSUME VolumesFormatted, FatBase, g_ready, NEW c, NEW q \in Nat, Along(volume, c, q, cluster),
         \A j \in 0 .. q : Link(volume, c, j) \in DataClusters(volume)
  PROVE  cluster = Link(volume, c, q) /\ NextCluster(cluster) = Link(volume, c, q + 1)
<1>1. Formatted(volume)
  BY DEF FatBase, FatTypes, VolumesFormatted
<1>2. (\A j \in 0 .. q - 1 : j \in 0 .. q) /\ q \in 0 .. q
  OBVIOUS
<1>3. cluster = Link(volume, c, q) /\ cluster \in DataClusters(volume)
  BY <1>2 DEF Along
<1>4. cluster \in DOMAIN volume.fat
  BY <1>1, <1>3, DataInFat
<1>5. NextCluster(cluster) = After(volume, cluster)
  BY <1>4, NextIs
<1> QED BY <1>3, <1>5, LinkIs

\* A whole chain does not end before what is asked of its file.
LEMMA NotBefore ==
  ASSUME NEW v, Formatted(v), NEW nd, nd.size \in Nat, NEW q \in Nat,
         (q + 1) * PerCluster(v) < nd.size, Acyclic(v, nd.start),
         FileCell(v, nd.start, nd.size - 1)[1] \in DataClusters(v)
  PROVE  \A j \in 0 .. q + 1 : Link(v, nd.start, j) \in DataClusters(v)
<1> DEFINE P == PerCluster(v)
           z == nd.size - 1
           m == z \div P
<1>1. P \in Nat /\ P > 0 /\ v.clusters \in Nat
  BY Geometry
<1>2. (q + 1) * P \in Nat /\ z \in Nat /\ (q + 1) * P <= z
  <2>1. (q + 1) * P \in Nat
    BY <1>1
  <2> DEFINE y == (q + 1) * P
  <2>2. y \in Nat /\ y < nd.size
    BY <2>1
  <2> HIDE DEF y
  <2>3. z \in Nat /\ y <= z
    BY <2>2
  <2> QED BY <2>1, <2>3 DEF y
<1>3. Link(v, nd.start, m) \in DataClusters(v)
  BY DEF FileCell
<1>4. m \in Nat /\ z % P \in 0 .. P - 1 /\ z = m * P + (z % P) /\ m * P \in Nat
  <2> HIDE DEF z, P
  <2> QED BY <1>1, <1>2, Quotient
<1> HIDE DEF m, z
<1>5. q + 1 <= m
  <2> SUFFICES ASSUME m < q + 1 PROVE FALSE BY <1>4
  <2>1. m * P + P <= (q + 1) * P
    BY <1>1, <1>4, MulStep
  <2> DEFINE y == (q + 1) * P
             w == m * P
             r == z % P
  <2>2. y \in Nat /\ w \in Nat /\ w + P <= y /\ y <= z /\ z = w + r /\ r \in 0 .. P - 1
    BY <1>2, <1>4, <2>1
  <2> HIDE DEF y, w, r, P
  <2> QED BY <1>1, <2>2
<1>6. PICK n \in 0 .. v.clusters : ChainLength(v, nd.start, n)
  BY DEF Acyclic
<1>7. n \in Nat
  BY <1>1
<1>8. m < n
  BY <1>3, <1>4, <1>6, <1>7, BeforeEnd
<1> TAKE j \in 0 .. q + 1
<1>9. j \in Nat /\ j < n
  BY <1>4, <1>5, <1>7, <1>8
<1> QED BY <1>6, <1>7, <1>9, BeforeEnd

LEMMA FollowOK == ASSUME VolumesFormatted, FatIInv, Follow PROVE FatIInv'
<1> DEFINE c == NextCluster(cluster)
<1>0. FatBase /\ ReadPart /\ OpenPart
  BY DEF FatIInv
<1>1. /\ pc \in {"dirnext", "filenext"} /\ Readable(FatSector(cluster))
      /\ volume' = volume /\ bpb' = bpb /\ g_ready' = g_ready /\ path' = path /\ len' = len
      /\ node' = node /\ out' = out /\ faulted' = faulted
      /\ Enter(IF pc = "dirnext" THEN "dir" ELSE "file", c, Len(out))
  BY DEF Follow
<1>2. g_ready /\ Formatted(volume)
  BY <1>0, <1>1 DEF FatBase, FatTypes, Phases, VolumesFormatted
<1>3. c \in 0 .. MASK - 1
  BY <1>0, <1>1, <1>2, NextIs
<1>4. volume.spc \in Nat /\ volume.spc > 0 /\ SECTOR \in Nat /\ PerCluster(volume) \in Nat
      /\ volume.clusters \in Nat
  BY <1>2, Geometry
<1> HIDE DEF c
<1>5. CASE pc = "dirnext"
  <2>1. cluster' = c /\ s' = 0 /\ pc' = IF is_eof(c) THEN "idle" ELSE "dir"
    BY <1>1, <1>5, Entered
  <2>2. ~node.valid /\ node.valid = FALSE
    BY <1>0, <1>5 DEF FatBase, Phases, NodeTypes
  <2>3. FatBase'
    <3>0. pc' \in {"idle", "dir"} /\ s' \in 0 .. volume.spc - 1
      BY <1>4, <2>1
    <3>1. FatTypes'
      BY <1>0, <1>1, <1>3, <2>1, <3>0 DEF FatBase, FatTypes
    <3>2. NodeTypes'
      BY <1>0, <1>1 DEF FatBase, NodeTypes
    <3>3. Phases'
      BY <1>0, <1>1, <1>2, <2>2, <3>0 DEF FatBase, Phases
    <3> QED BY <3>1, <3>2, <3>3 DEF FatBase
  <2>4. ReadPart'
    <3>1. pc' \in {"idle", "dir"}
      BY <2>1
    <3> QED BY <1>1, <2>2, <3>1 DEF ReadPart
  <2>5. ASSUME NEW n \in 0 .. volume.clusters, ChainLength(volume, volume.root, n)
        PROVE  /\ is_eof(c) => Answer(volume, path, node, faulted, n)
               /\ ~is_eof(c) => \E q \in Nat : Searching(volume, path, "dir", c, 0, n, q)
    <3>1. PICK q \in Nat : Searching(volume, path, "dirnext", cluster, s, n, q)
      BY <1>0, <1>5, <2>5 DEF OpenPart
    <3>2. /\ q < n /\ cluster = Link(volume, volume.root, q) /\ n \in Nat
          /\ Unfound(volume, path, (q + 1) * PerCluster(volume))
      BY <1>4, <3>1 DEF Searching
    <3>3. cluster \in DataClusters(volume)
      BY <1>2, <2>5, <3>2, BeforeEnd
    <3>4. cluster \in DOMAIN volume.fat
      BY <1>2, <3>3, DataInFat
    <3>5. c = Link(volume, volume.root, q + 1)
      <4>1. c = After(volume, cluster)
        BY <1>0, <1>2, <3>4, NextIs DEF c
      <4> QED BY <3>2, <4>1, LinkIs
    <3>6. ASSUME is_eof(c) PROVE Answer(volume, path, node, faulted, n)
      <4>1. c \notin DataClusters(volume)
        BY <1>2, <3>6, DataInFat
      <4>2. q + 1 \in Nat
        OBVIOUS
      <4>3. ~(q + 1 < n)
        BY <1>2, <2>5, <3>2, <3>5, <4>1, <4>2, BeforeEnd
      <4>4. q + 1 = n
        BY <3>2, <4>3
      <4> QED BY <2>2, <3>2, <4>4, QuietAll
    <3>7. ASSUME ~is_eof(c) PROVE Searching(volume, path, "dir", c, 0, n, q + 1)
      <4>1. q + 1 < n
        <5> SUFFICES ASSUME ~(q + 1 < n) PROVE FALSE OBVIOUS
        <5>1. q + 1 = n
          BY <3>2
        <5> QED BY <2>5, <3>5, <3>7, <5>1 DEF ChainLength
      <4>2. (q + 1) * PerCluster(volume) + 0 * SECTOR = (q + 1) * PerCluster(volume)
        BY <1>4
      <4> QED BY <3>2, <3>5, <4>1, <4>2 DEF Searching
    <3>8. q + 1 \in Nat
      OBVIOUS
    <3> QED BY <3>6, <3>7, <3>8
  <2>6. OpenPart'
    <3>1. CASE is_eof(c)
      BY <1>1, <2>1, <2>5, <3>1 DEF OpenPart
    <3>2. CASE ~is_eof(c)
      BY <1>1, <2>1, <2>5, <3>2 DEF OpenPart
    <3> QED BY <3>1, <3>2
  <2> QED BY <2>3, <2>4, <2>6 DEF FatIInv
<1>6. CASE pc = "filenext"
  <2>1. cluster' = c /\ s' = 0 /\ pc' = IF is_eof(c) \/ Len(out) >= len THEN "idle" ELSE "file"
    <3>1. (IF pc = "dirnext" THEN "dir" ELSE "file") = "file"
      BY <1>6
    <3>2. Enter("file", c, Len(out))
      BY <1>1, <3>1
    <3> QED BY <1>1, <3>2, Entered
  <2>2. node.valid
    BY <1>0, <1>6 DEF FatBase, Phases
  <2>3. FatBase'
    <3>0. pc' \in {"idle", "file"} /\ s' \in 0 .. volume.spc - 1
      BY <1>4, <2>1
    <3>1. FatTypes'
      BY <1>0, <1>1, <1>3, <2>1, <3>0 DEF FatBase, FatTypes
    <3>2. NodeTypes'
      BY <1>0, <1>1 DEF FatBase, NodeTypes
    <3>3. Phases'
      BY <1>0, <1>1, <1>2, <2>2, <3>0 DEF FatBase, Phases
    <3> QED BY <3>1, <3>2, <3>3 DEF FatBase
  <2>4. PICK q \in Nat : /\ Len(out) = len \/ Len(out) = (q + 1) * PerCluster(volume)
                         /\ Along(volume, node.start, q, cluster)
    BY <1>0, <1>6 DEF ReadPart, BehindCluster
  <2>5. Len(out) \in Nat /\ len \in Nat /\ Len(out) <= len /\ len <= node.size /\ node.size \in Nat
    BY <1>0 DEF FatBase, FatTypes, NodeTypes
  <2>6. ASSUME pc' = "file"
        PROVE  Len(out) < len /\ InFile(volume, node.start, out, c, 0)
    <3>1. Len(out) < len
      BY <2>1, <2>5, <2>6
    <3>2. Len(out) = (q + 1) * PerCluster(volume)
      BY <2>4, <2>5, <3>1
    <3>3. Len(out) = (q + 1) * PerCluster(volume) + 0 * SECTOR
      BY <1>4, <3>2
    <3>4. Along(volume, node.start, q + 1, c)
      <4> SUFFICES ASSUME \A j \in 0 .. q + 1 - 1 : Link(volume, node.start, j) \in DataClusters(volume)
                   PROVE  c = Link(volume, node.start, q + 1)
        BY DEF Along
      <4>1. q + 1 - 1 = q
        OBVIOUS
      <4>2. \A j \in 0 .. q : Link(volume, node.start, j) \in DataClusters(volume)
        BY <4>1
      <4> QED BY <1>0, <1>2, <2>4, <4>2, AlongNext DEF c
    <3>5. q + 1 \in Nat
      OBVIOUS
    <3> QED BY <3>1, <3>3, <3>4, <3>5 DEF InFile
  <2>7. ASSUME pc' = "idle"
        PROVE  WholeRead(volume, node, out, len)
    <3>1. SUFFICES ASSUME Acyclic(volume, node.start), Len(out) < len,
                          FileCell(volume, node.start, node.size - 1)[1] \in DataClusters(volume)
                   PROVE  FALSE
      BY <2>5 DEF WholeRead
    <3>2. is_eof(c)
      BY <2>1, <2>5, <2>7, <3>1
    <3>3. (q + 1) * PerCluster(volume) < node.size
      <4> DEFINE y == (q + 1) * PerCluster(volume)
      <4>1. Len(out) = y
        BY <2>4, <2>5, <3>1
      <4> HIDE DEF y
      <4>2. y < node.size
        BY <2>5, <3>1, <4>1
      <4> QED BY <4>2 DEF y
    <3>4. \A j \in 0 .. q + 1 : Link(volume, node.start, j) \in DataClusters(volume)
      BY <1>2, <2>5, <3>1, <3>3, NotBefore
    <3>5. (\A j \in 0 .. q : j \in 0 .. q + 1) /\ q + 1 \in 0 .. q + 1
      OBVIOUS
    <3>6. c = Link(volume, node.start, q + 1)
      BY <1>0, <1>2, <2>4, <3>4, <3>5, AlongNext DEF c
    <3>7. c \in DataClusters(volume)
      BY <3>4, <3>5, <3>6
    <3> QED BY <1>2, <3>2, <3>7, DataInFat
  <2>8. ReadPart'
    <3>1. pc' \in {"idle", "file"}
      BY <2>1
    <3> QED BY <1>0, <1>1, <2>1, <2>6, <2>7, <3>1 DEF ReadPart
  <2>9. OpenPart'
    <3>1. pc' \in {"idle", "file"}
      BY <2>1
    <3> QED BY <1>0, <1>1, <1>6, <3>1 DEF OpenPart
  <2> QED BY <2>3, <2>8, <2>9 DEF FatIInv
<1> QED BY <1>1, <1>5, <1>6

\* A cell of a file, by its parts.
LEMMA FileCellAt ==
  ASSUME NEW v, Formatted(v), NEW c, NEW q \in Nat, NEW i \in 0 .. v.spc - 1, NEW k \in 0 .. SECTOR - 1
  PROVE  FileCell(v, c, q * PerCluster(v) + i * SECTOR + k) = <<Link(v, c, q), i + 1, k + 1>>
<1> DEFINE x == q * PerCluster(v) + i * SECTOR + k
<1>1. x \div PerCluster(v) = q /\ (x % PerCluster(v)) \div SECTOR = i /\ x % SECTOR = k
  BY PositionParts
<1> HIDE DEF x
<1>2. FileCell(v, c, x) = <<Link(v, c, q), i + 1, k + 1>>
  BY <1>1 DEF FileCell
<1> QED BY <1>2 DEF x

\* When the cells up to one lie in the data area, so do the clusters up to its own.
LEMMA CellsToLinks ==
  ASSUME NEW v, Formatted(v), NEW c, NEW q \in Nat, NEW x \in Nat, q * PerCluster(v) <= x,
         \A j \in 0 .. x : FileCell(v, c, j)[1] \in DataClusters(v)
  PROVE  \A j \in 0 .. q : Link(v, c, j) \in DataClusters(v)
<1> TAKE m \in 0 .. q
<1> DEFINE P == PerCluster(v)
<1>1. P \in Nat /\ P > 0 /\ m \in Nat /\ m <= q
  BY Geometry
<1>2. m * P \in Nat /\ m * P <= q * P /\ q * P \in Nat
  <2>1. CASE m = q BY <1>1, <2>1
  <2>2. CASE m < q
    <3>1. m * P \in Nat /\ q * P \in Nat /\ m * P + P <= q * P
      BY <1>1, <2>2, MulStep
    <3> QED BY <1>1, <3>1
  <2> QED BY <1>1, <2>1, <2>2
<1> DEFINE y == m * P
<1>3. y \in 0 .. x
  <2> DEFINE w == q * P
  <2>1. y \in Nat /\ w \in Nat /\ y <= w /\ w <= x
    BY <1>2
  <2> HIDE DEF y, w
  <2> QED BY <2>1
<1>4. y \div P = m
  <2>1. 0 \in 0 .. P - 1
    BY <1>1
  <2>2. (m * P + 0) \div P = m
    <3> HIDE DEF P
    <3> QED BY <1>1, <2>1, QuotientIs
  <2>3. m * P + 0 = y
    BY <1>2
  <2> QED BY <2>2, <2>3
<1> HIDE DEF y
<1>5. FileCell(v, c, y)[1] = Link(v, c, m)
  BY <1>4 DEF FileCell
<1> QED BY <1>3, <1>5

LEMMA ReadSectorOK == ASSUME VolumesFormatted, FatIInv, ReadSector PROVE FatIInv'
<1> DEFINE lba == cluster_to_lba(cluster) + s
           sector == Sector(lba)
           t == Chunk(Len(out))
           add == [k \in 1 .. t |-> sector[k].id]
           P == PerCluster(volume)
<1>0. FatBase /\ ReadPart /\ OpenPart
  BY DEF FatIInv
<1>1. /\ pc = "file" /\ Readable(lba) /\ out' = out \o add
      /\ volume' = volume /\ bpb' = bpb /\ g_ready' = g_ready /\ path' = path /\ len' = len
      /\ node' = node /\ cluster' = cluster /\ faulted' = faulted
  BY DEF ReadSector
<1>2. IF Len(out') < len THEN AfterSector ELSE s' = 0 /\ pc' = "filenext"
  BY DEF ReadSector
<1>3. node.valid /\ g_ready /\ Formatted(volume) /\ s \in 0 .. volume.spc - 1
  BY <1>0, <1>1 DEF FatBase, FatTypes, Phases, VolumesFormatted
<1>4. /\ volume.spc \in Nat /\ volume.spc > 0 /\ SECTOR \in Nat /\ SECTOR > 0
      /\ P \in Nat /\ P = volume.spc * SECTOR /\ s \in Nat /\ s < volume.spc
  BY <1>3, Geometry DEF PerCluster
<1>5. out \in Seq(CellIds) /\ Len(out) \in Nat /\ len \in Nat /\ Len(out) < len
  BY <1>0, <1>1 DEF FatBase, FatTypes, ReadPart
<1>6. PICK q \in Nat : Len(out) = q * P + s * SECTOR /\ Along(volume, node.start, q, cluster)
  BY <1>0, <1>1 DEF ReadPart, InFile
<1>7. /\ t \in Nat /\ 1 <= t /\ t <= SECTOR /\ Len(out) + t <= len
      /\ Len(out) + t < len => t = SECTOR
  BY <1>4, <1>5 DEF Chunk, Lesser
<1> HIDE DEF lba, sector, t, P
<1>8. add \in Seq(CellIds) /\ Len(add) = t /\ \A k \in 1 .. t : add[k] = sector[k].id
  <2>1. \A k \in 1 .. t : sector[k].id \in CellIds
    <3> TAKE k \in 1 .. t
    <3>1. k \in 1 .. SECTOR
      BY <1>4, <1>7
    <3>2. CellOK(sector[k])
      BY <1>0, <1>1, <3>1, CellsRead DEF sector
    <3> QED BY <3>2 DEF CellOK
  <2>2. add \in [1 .. t -> CellIds] /\ \A k \in 1 .. t : add[k] = sector[k].id
    BY <2>1
  <2>3. DOMAIN add = 1 .. t
    OBVIOUS
  <2> HIDE DEF add
  <2> QED BY <1>7, <2>2, <2>3
<1> HIDE DEF add
<1> DEFINE l == Len(out)
<1>9. /\ out' \in Seq(CellIds) /\ Len(out') = l + t
      /\ \A i \in 1 .. l + t : out'[i] = IF i <= l THEN out[i] ELSE add[i - l]
  <2>1. /\ out \o add \in Seq(CellIds) /\ Len(out \o add) = Len(out) + Len(add)
        /\ \A i \in 1 .. Len(out) + Len(add) :
             (out \o add)[i] = IF i <= Len(out) THEN out[i] ELSE add[i - Len(out)]
    BY <1>5, <1>8, ConcatProperties
  <2>2. Len(add) = t
    BY <1>8
  <2> QED BY <1>1, <2>1, <2>2
<1>10. l \in Nat /\ l < len /\ l = q * P + s * SECTOR
  BY <1>5, <1>6
<1>16. l \in Nat /\ (l + t < len => t = SECTOR)
  BY <1>5, <1>7
<1>17. q * P \in Nat /\ s * SECTOR \in Nat /\ (q + 1) * P = q * P + P
       /\ (s + 1) * SECTOR = s * SECTOR + SECTOR
  BY <1>4, MulNext
<1> HIDE DEF l
<1>11. pc' \in {"file", "filenext"} /\ s' \in 0 .. volume.spc - 1
       /\ \/ pc' = "file" /\ s + 1 < volume.spc /\ s' = s + 1 /\ l + t < len
          \/ pc' = "filenext" /\ ~(s + 1 < volume.spc) /\ l + t < len
          \/ pc' = "filenext" /\ l + t = len
  <2>1. bpb.spc = volume.spc
    BY <1>0, <1>3 DEF FatBase, Phases, Mounted
  <2>2. CASE l + t < len
    <3>1. AfterSector
      BY <1>2, <1>9, <2>2
    <3>2. \/ s + 1 < volume.spc /\ s' = s + 1 /\ pc' = "file"
          \/ ~(s + 1 < volume.spc) /\ s' = 0 /\ pc' = "filenext"
      BY <1>1, <2>1, <3>1 DEF AfterSector
    <3> QED BY <1>4, <2>2, <3>2
  <2>3. CASE ~(l + t < len)
    <3>1. s' = 0 /\ pc' = "filenext"
      BY <1>2, <1>9, <2>3
    <3>2. l + t = len
      BY <1>5, <1>7, <1>10, <2>3 DEF l
    <3> QED BY <1>4, <3>1, <3>2
  <2> QED BY <2>2, <2>3
<1>12. FatBase'
  <2>1. FatTypes'
    BY <1>0, <1>1, <1>9, <1>11 DEF FatBase, FatTypes
  <2>2. NodeTypes'
    <3>1. Len(out') <= len'
      BY <1>1, <1>7, <1>9 DEF l
    <3> QED BY <1>0, <1>1, <3>1 DEF FatBase, NodeTypes
  <2>3. Phases'
    BY <1>0, <1>1, <1>3, <1>11 DEF FatBase, Phases
  <2> QED BY <2>1, <2>2, <2>3 DEF FatBase
\* The new cells are the file's.
<1>13. Copied(volume, node.start, out')
  <2> SUFFICES ASSUME NEW i \in 1 .. Len(out'),
                      \A j \in 0 .. i - 1 : FileCell(volume, node.start, j)[1] \in DataClusters(volume)
               PROVE  out'[i] = FileCell(volume, node.start, i - 1)
    BY DEF Copied
  <2>0. i \in 1 .. l + t
    BY <1>9
  <2>1. CASE i <= l
    <3>1. i \in 1 .. Len(out)
      BY <1>7, <1>10, <2>0, <2>1 DEF l
    <3>2. out[i] = FileCell(volume, node.start, i - 1)
      BY <1>0, <1>3, <3>1 DEF ReadPart, Copied
    <3> QED BY <1>9, <2>0, <2>1, <3>2
  <2>2. CASE ~(i <= l)
    <3> DEFINE k == i - l
    <3>1. k \in 1 .. t /\ k \in 1 .. SECTOR /\ k - 1 \in 0 .. SECTOR - 1 /\ i - 1 = l + (k - 1)
          /\ k - 1 + 1 = k /\ i - 1 \in Nat
      <4>1. SECTOR \in Nat /\ t \in Nat /\ t <= SECTOR /\ l \in Nat
        BY <1>4, <1>7, <1>16
      <4> QED BY ONLY <2>0, <2>2, <4>1
    <3>2. out'[i] = sector[k].id
      BY <1>8, <1>9, <2>0, <2>2, <3>1
    <3> HIDE DEF k
    <3>3. q * PerCluster(volume) <= i - 1
      <4> DEFINE y == q * P
                 z == s * SECTOR
      <4>1. y \in Nat /\ z \in Nat /\ l = y + z
        BY ONLY <1>10, <1>17
      <4> HIDE DEF y, z
      <4>2. y <= i - 1
        BY <1>10, <3>1, <4>1
      <4> QED BY <4>2 DEF y, P
    <3>4. \A j \in 0 .. q : Link(volume, node.start, j) \in DataClusters(volume)
      BY <1>3, <3>1, <3>3, CellsToLinks
    <3>5. cluster = Link(volume, node.start, q) /\ cluster \in DataClusters(volume)
      <4>1. (\A j \in 0 .. q - 1 : j \in 0 .. q) /\ q \in 0 .. q
        OBVIOUS
      <4> QED BY <1>6, <3>4, <4>1 DEF Along
    <3>6. sector = Cluster(volume, cluster, s + 1)
      BY <1>0, <1>3, <3>5, SectorOf DEF sector, lba
    <3>7. sector[k].id = <<cluster, s + 1, k>>
      <4>1. PICK m : m = s + 1
        OBVIOUS
      <4>2. Cluster(volume, cluster, m)[k]
              = Cell(0, DirEntry(volume, cluster, (m - 1) * SECTOR + k), cluster, m, k)
        BY <3>1 DEF Cluster
      <4>3. Cluster(volume, cluster, m)[k].id = <<cluster, m, k>>
        BY <4>2 DEF Cell
      <4> QED BY <3>6, <4>1, <4>3
    <3>8. FileCell(volume, node.start, q * PerCluster(volume) + s * SECTOR + (k - 1))
            = <<Link(volume, node.start, q), s + 1, k - 1 + 1>>
      BY <1>3, <3>1, FileCellAt
    <3>9. FileCell(volume, node.start, l + (k - 1)) = <<Link(volume, node.start, q), s + 1, k - 1 + 1>>
      BY <1>10, <3>8 DEF P
    <3> QED BY <3>1, <3>2, <3>5, <3>7, <3>9
  <2> QED BY <2>1, <2>2
<1>14. ReadPart'
  <2>1. CASE pc' = "file" /\ s + 1 < volume.spc /\ s' = s + 1 /\ l + t < len
    <3>1. l + t = q * P + (s + 1) * SECTOR
      <4>1. (s + 1) * SECTOR = s * SECTOR + SECTOR
        BY <1>17
      <4> DEFINE y == q * P
                 z == s * SECTOR
      <4>2. y \in Nat /\ z \in Nat /\ l = y + z /\ t = SECTOR
        BY <1>10, <1>16, <1>17, <2>1
      <4>3. l + t = y + (z + SECTOR)
        <5> HIDE DEF y, z
        <5> QED BY <1>4, <4>2
      <4> QED BY <4>1, <4>3
    <3>2. InFile(volume, node.start, out', cluster, s + 1)
      BY <1>6, <1>9, <3>1 DEF InFile, P
    <3> QED BY <1>1, <1>9, <1>13, <2>1, <3>2 DEF ReadPart
  <2>2. CASE pc' = "filenext" /\ ~(s + 1 < volume.spc) /\ l + t < len
    <3>1. l + t = (q + 1) * P
      <4>0. s + 1 = volume.spc
        BY <1>4, <2>2
      <4>1. (s + 1) * SECTOR = s * SECTOR + SECTOR /\ (q + 1) * P = q * P + P
        BY <1>17
      <4> DEFINE y == q * P
                 z == s * SECTOR
      <4>2. y \in Nat /\ z \in Nat /\ l = y + z /\ t = SECTOR /\ z + SECTOR = P
        BY <1>4, <1>10, <1>16, <1>17, <2>2, <4>0, <4>1
      <4>3. l + t = y + P
        <5> HIDE DEF y, z
        <5> QED BY <1>4, <4>2
      <4> QED BY <4>1, <4>3
    <3>2. BehindCluster(volume, node.start, out', cluster, len)
      BY <1>6, <1>9, <3>1 DEF BehindCluster, P
    <3> QED BY <1>1, <1>13, <2>2, <3>2 DEF ReadPart
  <2>3. CASE pc' = "filenext" /\ l + t = len
    <3>2. BehindCluster(volume, node.start, out', cluster, len)
      BY <1>6, <1>9, <2>3 DEF BehindCluster
    <3> QED BY <1>1, <1>13, <2>3, <3>2 DEF ReadPart
  <2> QED BY <1>11, <2>1, <2>2, <2>3
<1>15. OpenPart'
  BY <1>0, <1>1, <1>11 DEF OpenPart
<1> QED BY <1>12, <1>14, <1>15 DEF FatIInv

LEMMA FatStutterOK == ASSUME FatIInv, UNCHANGED fatVars PROVE FatIInv'
<1>0. FatBase /\ ReadPart /\ OpenPart
  BY DEF FatIInv
<1>1. /\ volume' = volume /\ bpb' = bpb /\ g_ready' = g_ready /\ pc' = pc /\ path' = path /\ len' = len
      /\ node' = node /\ cluster' = cluster /\ s' = s /\ out' = out /\ faulted' = faulted
  BY DEF fatVars
<1>2. FatBase'
  BY <1>0, <1>1 DEF FatBase, FatTypes, NodeTypes, Phases
<1>3. ReadPart'
  BY <1>0, <1>1 DEF ReadPart
<1>4. OpenPart'
  BY <1>0, <1>1 DEF OpenPart
<1> QED BY <1>2, <1>3, <1>4 DEF FatIInv

LEMMA FatStepOK == ASSUME VolumesFormatted, FatIInv, [FatNext]_fatVars PROVE FatIInv'
<1>1. CASE vfs_init BY <1>1, MountOK
<1>2. CASE OpenBegin BY <1>2, OpenBeginOK
<1>3. CASE ReadBegin BY <1>3, ReadBeginOK
<1>4. CASE OpenSector BY <1>4, OpenSectorOK
<1>5. CASE ReadSector BY <1>5, ReadSectorOK
<1>6. CASE Follow BY <1>6, FollowOK
<1>7. CASE ReadFails BY <1>7, ReadFailsOK
<1>8. CASE UNCHANGED fatVars BY <1>8, FatStutterOK
<1> QED BY <1>1, <1>2, <1>3, <1>4, <1>5, <1>6, <1>7, <1>8 DEF FatNext, FatStep

\* The entries of the root directory are entries.
LEMMA EntryAtOK == ASSUME NEW v, Formatted(v), NEW i \in Nat PROVE EntryOK(EntryAt(v, i))
<1> DEFINE c == Link(v, v.root, i \div PerCluster(v))
           k == (i % PerCluster(v)) + 1
<1>1. PerCluster(v) \in Nat /\ PerCluster(v) > 0
  BY Geometry
<1>2. k \in 1 .. PerCluster(v)
  <2>1. i % PerCluster(v) \in 0 .. PerCluster(v) - 1
    BY <1>1, Quotient
  <2> QED BY <1>1, <2>1
<1>3. EntryAt(v, i) = DirEntry(v, c, k)
  BY DEF EntryAt
<1> HIDE DEF c, k
<1> QED BY <1>2, <1>3, NoEntryOK DEF DirEntry, Formatted

\* The entries of a directory of n clusters, and those that a path names.
LEMMA RootIs ==
  ASSUME NEW v, Formatted(v), NEW n \in 0 .. v.clusters, ChainLength(v, v.root, n)
  PROVE  RootEntries(v) = [i \in 0 .. n * PerCluster(v) - 1 |-> EntryAt(v, i)]
<1> DEFINE Is(m) == m \in 0 .. v.clusters /\ ChainLength(v, v.root, m)
           n0 == CHOOSE m \in 0 .. v.clusters : ChainLength(v, v.root, m)
<1>0. v.clusters \in Nat
  BY Geometry
<1>1. n0 \in 0 .. v.clusters /\ ChainLength(v, v.root, n0)
  OBVIOUS
<1> HIDE DEF n0
<1>2. n0 = n
  BY <1>0, <1>1, OneLength
<1>3. RootEntries(v) = [i \in 0 .. n0 * PerCluster(v) - 1 |-> EntryAt(v, i)]
  BY DEF RootEntries, EntryAt, n0
<1> QED BY <1>2, <1>3

LEMMA NamedAre ==
  ASSUME NEW v, Formatted(v), NEW n \in 0 .. v.clusters, ChainLength(v, v.root, n),
         NEW p \in Seq(DOMAIN Upper), Fits83(p), NEW i
  PROVE  i \in Named(v, p) <=> /\ i \in 0 .. n * PerCluster(v) - 1 /\ ~EndAt(v, i) /\ HitAt(v, p, i)
                               /\ \A j \in 0 .. i - 1 : ~EndAt(v, j)
<1> DEFINE all == RootEntries(v)
           D == 0 .. n * PerCluster(v) - 1
<1>0. all = [j \in D |-> EntryAt(v, j)]
  BY RootIs
<1>1. n * PerCluster(v) \in Nat
  <2>1. n \in Nat /\ PerCluster(v) \in Nat
    BY Geometry
  <2> QED BY <2>1
<1>2. D \subseteq Nat
  <2> DEFINE y == n * PerCluster(v)
  <2>1. y \in Nat /\ D = 0 .. y - 1
    BY <1>1
  <2> HIDE DEF y, D
  <2> QED BY <2>1
<1>3. i \in Named(v, p) <=>
        /\ i \in D /\ EntryAt(v, i).kind \in {"file", "subdir"}
        /\ \A j \in D : EndAt(v, j) => i < j
        /\ Spelled(EntryAt(v, i).name) = Capitals(WithoutSlash(p))
  <2>1. DOMAIN all = D /\ \A j \in D : all[j] = EntryAt(v, j)
    BY <1>0
  <2>2. i \in Named(v, p) <=>
          /\ i \in DOMAIN all /\ all[i].kind \in {"file", "subdir"}
          /\ \A j \in {m \in DOMAIN all : all[m].kind = "end"} : i < j
          /\ Spelled(all[i].name) = Capitals(WithoutSlash(p))
    BY DEF Named, Live
  <2> HIDE DEF all, D
  <2> QED BY <2>1, <2>2 DEF EndAt
<1>4. SUFFICES ASSUME i \in D
               PROVE  (/\ EntryAt(v, i).kind \in {"file", "subdir"}
                       /\ \A j \in D : EndAt(v, j) => i < j
                       /\ Spelled(EntryAt(v, i).name) = Capitals(WithoutSlash(p)))
                      <=> (/\ ~EndAt(v, i) /\ HitAt(v, p, i)
                           /\ \A j \in 0 .. i - 1 : ~EndAt(v, j))
  BY <1>3
<1>5. i \in Nat
  BY <1>2, <1>4
<1> DEFINE e == EntryAt(v, i)
<1>6. EntryOK(e)
  BY <1>5, EntryAtOK
<1>7. e.kind \in {"file", "subdir"} => (Spelled(e.name) = Capitals(WithoutSlash(p)) <=> e.name = path_to_83(p))
  BY <1>6, SameName DEF EntryOK
<1>8. e.kind \in {"file", "subdir"} <=> ~EndAt(v, i) /\ ~Skipped(e)
  BY <1>6 DEF EntryOK, EndAt, Skipped
<1>9. (\A j \in D : EndAt(v, j) => i < j) <=> ~EndAt(v, i) /\ \A j \in 0 .. i - 1 : ~EndAt(v, j)
  <2> DEFINE y == n * PerCluster(v)
  <2>1. y \in Nat /\ D = 0 .. y - 1
    BY <1>1
  <2> HIDE DEF y, D
  <2>2. \A j \in 0 .. i - 1 : j \in D /\ ~(i < j)
    BY <1>4, <1>5, <2>1
  <2>3. ~(i < i)
    BY <1>5
  <2>4. \A j \in D : i < j \/ i = j \/ j \in 0 .. i - 1
    BY <1>4, <1>5, <2>1
  <2> QED BY <1>4, <2>2, <2>3, <2>4
<1>10. HitAt(v, p, i) <=> ~Skipped(e) /\ e.name = path_to_83(p)
  BY DEF HitAt
<1> HIDE DEF e, D
<1> QED BY <1>7, <1>8, <1>9, <1>10 DEF e

LEMMA FatIInvImplies == ASSUME VolumesFormatted, FatIInv PROVE FatInv
<1>0. FatBase /\ ReadPart /\ OpenPart
  BY DEF FatIInv
<1>1. Formatted(volume)
  BY <1>0 DEF FatBase, FatTypes, VolumesFormatted
<1>2. volume.spc \in Nat /\ volume.clusters \in Nat
  BY <1>1, Geometry
<1>3. FatTypeOK
  <2>1. s \in 0 .. volume.spc
    BY <1>0, <1>2 DEF FatBase, FatTypes
  <2> QED BY <1>0, <2>1 DEF FatBase, FatTypes, NodeTypes, Phases, FatTypeOK
<1>4. ReadExact
  <2> SUFFICES ASSUME node.valid
               PROVE  /\ Copied(volume, node.start, out)
                      /\ pc = "idle" /\ out # <<>> /\ ~faulted => WholeRead(volume, node, out, len)
    BY DEF ReadExact, Copied, WholeRead
  <2> QED BY <1>0 DEF ReadPart
<1>5. OpenFinds
  <2> SUFFICES ASSUME g_ready, pc = "idle", Fits83(path), path # <<>>, Acyclic(volume, volume.root)
               PROVE  /\ node.valid =>
                           LET e == RootEntries(volume)[FirstOf(Named(volume, path))]
                           IN /\ Named(volume, path) # {}
                              /\ node.start = StartCluster(e) /\ node.size = e.size
                      /\ Named(volume, path) # {} /\ ~faulted => node.valid
    BY DEF OpenFinds
  <2>1. PICK n \in 0 .. volume.clusters : ChainLength(volume, volume.root, n)
    BY DEF Acyclic
  <2>2. Answer(volume, path, node, faulted, n)
    BY <1>0, <2>1 DEF OpenPart
  <2>3. path \in Seq(DOMAIN Upper)
    BY <1>0 DEF FatBase, FatTypes
  <2> DEFINE y == n * PerCluster(volume)
  <2>4. y \in Nat
    <3>1. n \in Nat /\ PerCluster(volume) \in Nat
      BY <1>1, <1>2, Geometry
    <3> QED BY <3>1
  <2>5. \A i : i \in Named(volume, path) <=>
                 /\ i \in 0 .. y - 1 /\ ~EndAt(volume, i) /\ HitAt(volume, path, i)
                 /\ \A j \in 0 .. i - 1 : ~EndAt(volume, j)
    BY <1>1, <2>1, <2>3, NamedAre
  <2>6. RootEntries(volume) = [i \in 0 .. y - 1 |-> EntryAt(volume, i)]
    BY <1>1, <2>1, RootIs
  <2>7. ASSUME node.valid
        PROVE  /\ Named(volume, path) # {}
               /\ node.start = StartCluster(RootEntries(volume)[FirstOf(Named(volume, path))])
               /\ node.size = RootEntries(volume)[FirstOf(Named(volume, path))].size
    <3>1. PICK i \in 0 .. y - 1 :
             /\ Unfound(volume, path, i) /\ ~EndAt(volume, i) /\ HitAt(volume, path, i)
             /\ node.start = StartCluster(EntryAt(volume, i)) /\ node.size = EntryAt(volume, i).size
      BY <2>2, <2>7 DEF Answer
    <3> HIDE DEF y
    <3> DEFINE K == Named(volume, path)
    <3>2. i \in K
      BY <2>5, <3>1 DEF Unfound
    <3>3. K \subseteq 0 .. y - 1 /\ K \subseteq Nat
      BY <2>4, <2>5
    <3>4. \A j \in K : i <= j
      <4> TAKE j \in K
      <4>1. j \in Nat /\ i \in Nat
        BY <3>2, <3>3
      <4> SUFFICES ASSUME j < i PROVE FALSE BY <4>1
      <4>2. j \in 0 .. i - 1
        BY <4>1
      <4> QED BY <2>5, <3>1, <4>2 DEF Unfound
    <3>5. FirstOf(K) \in K /\ \A j \in K : FirstOf(K) <= j
      BY <3>2, <3>3, FirstIs
    <3>6. FirstOf(K) = i
      BY <3>2, <3>3, <3>4, <3>5
    <3>7. RootEntries(volume)[i] = EntryAt(volume, i)
      BY <2>6, <3>1
    <3> QED BY <3>1, <3>2, <3>6, <3>7
  <2>8. ASSUME Named(volume, path) # {}, ~faulted PROVE node.valid
    <3>1. PICK i : i \in Named(volume, path)
      BY <2>8
    <3>2. /\ i \in 0 .. y - 1 /\ ~EndAt(volume, i) /\ HitAt(volume, path, i)
          /\ \A j \in 0 .. i - 1 : ~EndAt(volume, j)
      BY <2>5, <3>1
    <3> QED BY <2>2, <2>8, <3>2 DEF Answer
  <2> QED BY <2>7, <2>8
<1> QED BY <1>3, <1>4, <1>5 DEF FatInv

\* The file system serves what the volume holds (fat32_init, fat32_open, fat32_read,
\* vfs_open, vfs_read): on every formatted volume, whatever chains it has and whichever
\* reads fail, a read copies the cells of its file in order, all of them when the chain is
\* whole, and a search finds the first live entry the path names and nothing else.
THEOREM FatSafe == VolumesFormatted => (FatSpec => []FatInv)
<1> SUFFICES ASSUME VolumesFormatted PROVE FatSpec => []FatInv
  OBVIOUS
<1>1. FatInit => FatIInv
  BY FatInitOK
<1>2. FatIInv /\ [FatNext]_fatVars => FatIInv'
  BY FatStepOK
<1>3. FatIInv => FatInv
  BY FatIInvImplies
<1> QED BY <1>1, <1>2, <1>3, PTL DEF FatSpec
=============================================================================
