-------------------------------- MODULE Boot --------------------------------
(***************************************************************************)
(* The boot path (_start in kernel/main.c) as the sequence of its calls,   *)
(* with the processor tables they build: descriptor table and task segment *)
(* (kernel/gdt.c, kernel/tss.c), interrupt gates (kernel/idt.c,            *)
(* kernel/isr.c), interrupt controller (kernel/irq.c, kernel/pit.c) and    *)
(* the system call registers (kernel/syscall.c).                           *)
(*                                                                         *)
(* Exceptions may happen at any time, interrupts whenever they are let     *)
(* through: for most of the boot path interrupts are on while the parts    *)
(* the handlers call are still being built.  A selector names the          *)
(* descriptor at a multiple of 8; in ring 3 it has the two low bits set.   *)
(***************************************************************************)
EXTENDS Integers, Sequences

VARIABLES
  at,          \* how many calls of the boot path have been made
  mode,        \* "runs", "halted" (a hlt loop), "panic" or "reset"
  IF_,         \* RFLAGS.IF
  gdt,         \* kind of each descriptor of the table in force
  seg,         \* cs and ss
  tr,          \* task register: a selector, 0 for none
  idt,         \* cs of each gate of the table in force; no gate for the rest
  pic,         \* vector of IRQ0 and the IRQs let through
  handlers,    \* irq_handlers: the IRQs that have one
  star,        \* STAR: selectors for syscall and for sysret
  rbx,         \* utask->regs.rbx: what it was last set from
  choice,      \* key of the boot menu
  refused      \* history: a call of the boot path failed

bootVars == <<at, mode, IF_, gdt, seg, tr, idt, pic, handlers, star, rbx, choice, refused>>

Ring == IF seg.cs % 8 = 3 THEN 3 ELSE 0
Kind(selector) == gdt[selector \div 8]

----------------------------------------------------------------------------
(* The order of the calls that change what is modelled here or may fail;    *)
(* the self-tests between them and calls that only prepare the next one     *)
(* (tpm2_init, xhci_init, task_init_table, sched_init) are part of it.      *)

\* Mutant: the interrupt gates are written before the descriptor table.
IdtFirst ==
  <<"serial_init", "base_revision", "fb_init", "idt_init", "gdt_init", "tss_init",
    "irq_init", "pit_init", "keyboard_init", "sti", "memmap", "pmm_init", "vmm_init",
    "heap_init", "merkle_init", "tcp_init", "pqc_selftest", "tor_init",
    "tpm2_verify_attestation", "syscall_init", "task_create_kernel", "vfs_init",
    "crypto_self_test", "auth_preboot", "load", "sched_add", "menu", "sched_start">>

BootOrder ==
  <<"serial_init", "base_revision", "fb_init", "gdt_init", "tss_init", "idt_init",
    "irq_init", "pit_init", "keyboard_init", "sti", "memmap", "pmm_init", "vmm_init",
    "heap_init", "merkle_init", "tcp_init", "pqc_selftest", "tor_init",
    "tpm2_verify_attestation", "syscall_init", "task_create_kernel", "vfs_init",
    "crypto_self_test", "auth_preboot", "load", "sched_add", "menu", "sched_start">>

Done == {BootOrder[i] : i \in 1 .. at}
Calls(f) == mode = "runs" /\ at < Len(BootOrder) /\ BootOrder[at + 1] = f /\ at' = at + 1

\* The calls whose failure ends the boot, and those that end it with
\* interrupts off (halt); the others stay in a hlt loop that interrupts wake.
MayFail == {"base_revision", "fb_init", "memmap", "tpm2_verify_attestation",
            "task_create_kernel", "crypto_self_test", "auth_preboot", "load"}
HaltsDeaf == {"base_revision", "fb_init", "memmap"}

\* What the boot loader leaves: its own descriptors, interrupts off, a
\* controller in any state; its interrupt table serves nothing.
BootInit ==
  /\ at = 0 /\ mode = "runs" /\ IF_ = FALSE
  /\ gdt = [i \in 0 .. 7 |-> CASE i = 5 -> "kcode64" [] i = 6 -> "kdata" [] OTHER -> "none"]
  /\ seg = [cs |-> 40, ss |-> 48]
  /\ tr = 0 /\ idt = <<>>
  /\ pic \in [base : {8, 32}, open : {{}, {0, 1}}]
  /\ handlers = {} /\ star = [sys |-> 0, ret |-> 0]
  /\ rbx = "none" /\ choice = "none" /\ refused = FALSE

----------------------------------------------------------------------------
(* The tables.                                                              *)

\* Mutant: user code and user data change places.
UserSwapped ==
  [i \in 0 .. 7 |-> CASE i = 1 -> "kcode64" [] i = 2 -> "kdata" [] i = 3 -> "ucode32"
                      [] i = 5 -> "udata" [] i = 4 -> "ucode64" [] OTHER -> "none"]

\* encode_entry for the slots of gdt_init; 6 and 7 wait for the task segment.
Descriptors ==
  [i \in 0 .. 7 |-> CASE i = 1 -> "kcode64" [] i = 2 -> "kdata" [] i = 3 -> "ucode32"
                      [] i = 4 -> "udata" [] i = 5 -> "ucode64" [] OTHER -> "none"]

gdt_init ==
  /\ Calls("gdt_init")
  /\ gdt' = Descriptors /\ seg' = [cs |-> 8, ss |-> 16]
  /\ UNCHANGED <<mode, IF_, tr, idt, pic, handlers, star, rbx, choice, refused>>

tss_init ==
  /\ Calls("tss_init")
  /\ gdt' = [gdt EXCEPT ![6] = "tss", ![7] = "tss_high"] /\ tr' = 48
  /\ UNCHANGED <<mode, IF_, seg, idt, pic, handlers, star, rbx, choice, refused>>

\* Gates 0 to 47, each with the code segment in force now.
idt_init ==
  /\ Calls("idt_init")
  /\ idt' = [v \in 0 .. 47 |-> seg.cs]
  /\ UNCHANGED <<mode, IF_, gdt, seg, tr, pic, handlers, star, rbx, choice, refused>>

irq_init ==
  /\ Calls("irq_init")
  /\ pic' = [base |-> 32, open |-> {0, 1}]
  /\ UNCHANGED <<mode, IF_, gdt, seg, tr, idt, handlers, star, rbx, choice, refused>>

\* pit_init and keyboard_init install the handlers of IRQ0 and IRQ1.
irq_install_handler(irq) ==
  /\ Calls(IF irq = 0 THEN "pit_init" ELSE "keyboard_init")
  /\ handlers' = handlers \cup {irq}
  /\ UNCHANGED <<mode, IF_, gdt, seg, tr, idt, pic, star, rbx, choice, refused>>

sti ==
  /\ Calls("sti") /\ IF_' = TRUE
  /\ UNCHANGED <<mode, gdt, seg, tr, idt, pic, handlers, star, rbx, choice, refused>>

syscall_init ==
  /\ Calls("syscall_init") /\ star' = [sys |-> 8, ret |-> 24]
  /\ UNCHANGED <<mode, IF_, gdt, seg, tr, idt, pic, handlers, rbx, choice, refused>>

----------------------------------------------------------------------------
(* The other calls.                                                         *)

Quiet == {"serial_init", "base_revision", "fb_init", "memmap", "pmm_init", "vmm_init",
          "heap_init", "merkle_init", "tcp_init", "pqc_selftest", "tor_init",
          "tpm2_verify_attestation", "task_create_kernel", "vfs_init",
          "crypto_self_test", "auth_preboot", "sched_add"}

\* A call that leaves the tables alone and succeeds.
Succeed(f) ==
  /\ Calls(f)
  /\ UNCHANGED <<mode, IF_, gdt, seg, tr, idt, pic, handlers, star, rbx, choice, refused>>

\* Mutant: the boot goes on after a failure that only writes a message.
GoesOn(f) == mode' = IF f \in HaltsDeaf THEN "halted" ELSE "runs"

Stop(f) == mode' = "halted"

Fail(f) ==
  /\ f \in MayFail /\ Calls(f) /\ Stop(f)
  /\ IF_' = (IF_ /\ f \notin HaltsDeaf)
  /\ refused' = TRUE
  /\ UNCHANGED <<gdt, seg, tr, idt, pic, handlers, star, rbx, choice>>

\* The task is loaded from the stick or from the embedded image; both ways
\* patch rbx.
load ==
  /\ Calls("load") /\ rbx' = "entry"
  /\ UNCHANGED <<mode, IF_, gdt, seg, tr, idt, pic, handlers, star, choice, refused>>

\* The boot menu.  A key starts a test suite, which halts when it is done.
\* The suites of `t' and `s' go on with the boot when a test fails, `s' with
\* test values in the registers of the task once it has written them.
menu ==
  /\ Calls("menu")
  /\ \E key \in {"none", "t", "s", "n", "h", "v"} :
       /\ choice' = key
       /\ \/ key # "none" /\ mode' = "halted" /\ IF_' = FALSE /\ UNCHANGED rbx
          \/ key \in {"none", "t", "s"} /\ UNCHANGED <<mode, IF_, rbx>>
          \/ key = "s" /\ rbx' = "test" /\ UNCHANGED <<mode, IF_>>
  /\ UNCHANGED <<gdt, seg, tr, idt, pic, handlers, star, refused>>

\* sched_start switches to the task, whose trampoline does an iretq.
StartTask ==
  /\ Calls("sched_start")
  /\ seg' = [cs |-> 40 + 3, ss |-> 32 + 3] /\ IF_' = TRUE
  /\ UNCHANGED <<mode, gdt, tr, idt, pic, handlers, star, rbx, choice, refused>>

----------------------------------------------------------------------------
(* The processor.                                                           *)

\* syscall takes its segments from STAR and masks interrupts; sysretq adds 16
\* and 8 to the other half.
SyscallInsn ==
  /\ mode = "runs" /\ Ring = 3
  /\ seg' = [cs |-> star.sys, ss |-> star.sys + 8] /\ IF_' = FALSE
  /\ UNCHANGED <<at, mode, gdt, tr, idt, pic, handlers, star, rbx, choice, refused>>

SysretInsn ==
  /\ mode = "runs" /\ Ring = 0 /\ at = Len(BootOrder)
  /\ seg' = [cs |-> star.ret + 16 + 3, ss |-> star.ret + 8 + 3] /\ IF_' = TRUE
  /\ UNCHANGED <<at, mode, gdt, tr, idt, pic, handlers, star, rbx, choice, refused>>

\* A vector is served if its gate leads to ring-0 code and, from ring 3, a
\* stack is found through the task register; otherwise the fault on the
\* fault resets the machine.
Served(v) ==
  /\ v \in DOMAIN idt /\ Kind(idt[v]) = "kcode64"
  /\ Ring = 3 => Kind(tr) = "tss"

\* isr_handler prints, and halts with interrupts off.
Exception ==
  /\ mode \in {"runs", "halted"}
  /\ IF \A v \in 0 .. 31 : Served(v)
     THEN mode' = "panic" /\ IF_' = FALSE /\ seg' = [cs |-> idt[0], ss |-> 0]
     ELSE mode' = "reset" /\ UNCHANGED <<IF_, seg>>
  /\ UNCHANGED <<at, gdt, tr, idt, pic, handlers, star, rbx, choice, refused>>

\* irq_handler: a vector outside its range is the exception of that number;
\* the callbacks change nothing here: before sched_start sched_current is
\* null, the cards and the circuit have their own flags.
Interrupt(irq) ==
  LET v == pic.base + irq IN
  /\ mode \in {"runs", "halted"} /\ IF_ /\ irq \in pic.open
  /\ mode' = IF ~Served(v) THEN "reset" ELSE IF v < 32 THEN "panic" ELSE mode
  /\ UNCHANGED <<at, IF_, gdt, seg, tr, idt, pic, handlers, star, rbx, choice, refused>>

BootNext ==
  \/ gdt_init \/ tss_init \/ idt_init \/ irq_init \/ sti \/ syscall_init
  \/ load \/ menu \/ StartTask
  \/ \E irq \in {0, 1} : irq_install_handler(irq) \/ Interrupt(irq)
  \/ \E f \in Quiet : Succeed(f)
  \/ \E f \in MayFail : Fail(f)
  \/ SyscallInsn \/ SysretInsn \/ Exception
BootSpec == BootInit /\ [][BootNext]_bootVars

----------------------------------------------------------------------------
(* Properties.                                                              *)

\* The variables of the boot path have their types.
BootTypeOK ==
  /\ at \in 0 .. Len(BootOrder) /\ mode \in {"runs", "halted", "panic", "reset"}
  /\ IF_ \in BOOLEAN /\ handlers \subseteq {0, 1}
  /\ gdt \in [0 .. 7 -> {"none", "kcode64", "kdata", "ucode32", "udata", "ucode64",
                         "tss", "tss_high"}]
  /\ rbx \in {"none", "entry", "test"}

\* The segment registers name descriptors of the kind they need at every
\* moment: through the change of tables, into ring 3, and through syscall and
\* sysret, which compute theirs (gdt.c:73-76, syscall.c:53-58).
SegmentsFit ==
  IF Ring = 3 THEN Kind(seg.cs) = "ucode64" /\ Kind(seg.ss) = "udata"
  ELSE Kind(seg.cs) = "kcode64" /\ (seg.ss # 0 => Kind(seg.ss) = "kdata")

\* Once the interrupt table is loaded every exception reaches isr_handler,
\* and once interrupts are on every one that is let through has a gate
\* outside the exceptions, a handler, and a screen to draw the cursor on
\* (main.c:415-419, pit.c:17): the machine is reset only by an exception
\* before idt_init.
Delivers ==
  /\ idt # <<>> => (\A v \in 0 .. 31 : Served(v)) /\ mode # "reset"
  /\ IF_ => /\ \A irq \in pic.open : pic.base + irq >= 32 /\ Served(pic.base + irq)
            /\ pic.open = handlers /\ "fb_init" \in Done

\* A machine that reached ring 3 passed the attestation, the self-test of the
\* ciphers and the authentication; none of the hlt loops that interrupts keep
\* waking lets go of it (main.c:735-784).  The program starts at the entry
\* point that was loaded unless the snapshot tests failed on the way.
Gated ==
  Ring = 3 \/ at = Len(BootOrder) =>
    /\ ~refused /\ mode # "halted"
    /\ choice \in {"none", "t", "s"} /\ (choice # "s" => rbx = "entry")

\* The boot path keeps the processor in a state that can go on: segments,
\* gates and handlers fit, and ring 3 is reached through every test
\* (_start, gdt.c, idt.c, syscall_init).
BootInv == BootTypeOK /\ SegmentsFit /\ Delivers /\ Gated
=============================================================================
