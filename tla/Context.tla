------------------------------ MODULE Context -------------------------------
(***************************************************************************)
(* Entering and leaving the kernel: the system call gate                   *)
(* (kernel/syscall.asm), the interrupt stub (kernel/irq.asm), the switch   *)
(* between kernel stacks and the way into ring 3 (kernel/task.asm), the    *)
(* task state segment (kernel/tss.c).                                      *)
(*                                                                         *)
(* Sched takes for granted that a task goes on where it stopped; this      *)
(* module is about why.  User registers are one value that the program     *)
(* changes, the user stack pointer is known by its owner, a kernel stack   *)
(* is the sequence of frames on it.  Which task is switched to is left     *)
(* open: any task but the current one, which covers next_ready.  The       *)
(* kernel is built without optimisation: the callers of task_switch end in *)
(* `leave', which takes rsp from rbp, so that the return address           *)
(* task_switch leaves on the stack does no harm.                           *)
(***************************************************************************)
EXTENDS Integers, Sequences

CONSTANTS
  Users,   \* ids of the ring-3 tasks
  Values   \* values of a program's registers; a new program has the value Blank

ASSUME ContextAssumption == Users \subseteq Nat \ {0} /\ Values # {}

Blank == CHOOSE v \in Values : TRUE
KTask == 0           \* the kernel task: no kernel stack of its own, kstack_top = 0
AllTasks == {KTask} \cup Users

VARIABLES
  current,           \* sched_current
  place,             \* where the processor is: user, idle, syscall, irq, or in task_switch
  cpu,               \* register value, owner of the stack pointer, CR3, all in ring 3
  rsp0,              \* tss.rsp0: the task whose kstack_top it is
  global_user_rsp,
  kstack,            \* frames on each kernel stack (the boot stack for KTask)
  regs,              \* task->regs: saved place (rip) and depth of the stack (rsp)
  unacked,           \* IRQ0 is in service
  shadow             \* history: the registers each program last had

ctxVars == <<current, place, cpu, rsp0, global_user_rsp, kstack, regs, unacked, shadow>>

Fresh == [rip |-> "entry", depth |-> 0]

\* sched_start has been called on the boot stack, in the kernel task.
ContextInit ==
  /\ current = KTask /\ place = "start"
  /\ cpu = [val |-> Blank, rsp |-> KTask, cr3 |-> KTask]
  /\ rsp0 = KTask /\ global_user_rsp = KTask
  /\ kstack = [t \in AllTasks |-> <<>>]
  /\ regs = [t \in AllTasks |-> Fresh]
  /\ unacked = FALSE
  /\ shadow = [t \in Users |-> Blank]

----------------------------------------------------------------------------
(* Ring 3.                                                                  *)

Compute ==
  /\ place = "user"
  /\ \E v \in Values : /\ cpu' = [cpu EXCEPT !.val = v]
                       /\ shadow' = [shadow EXCEPT ![current] = v]
  /\ UNCHANGED <<current, place, rsp0, global_user_rsp, kstack, regs, unacked>>

Frame(kind, rsp) == [kind |-> kind, rsp |-> rsp, val |-> cpu.val]

\* syscall_entry: scratch variables, the current task's kernel stack from its
\* top, the user's frame.  Interrupts are off until sysret.
syscall_entry ==
  /\ place = "user" /\ place' = "syscall"
  /\ global_user_rsp' = cpu.rsp
  /\ kstack' = [kstack EXCEPT ![current] = <<Frame("syscall", cpu.rsp)>>]
  /\ UNCHANGED <<current, cpu, rsp0, regs, unacked, shadow>>

\* The timer interrupt: in ring 3 the processor takes the stack from the TSS,
\* in the idle loop it stays on the one it is on.
irq_entry ==
  /\ place \in {"user", "idle"} /\ ~unacked
  /\ place' = "irq" /\ unacked' = TRUE
  /\ kstack' = IF place = "user" THEN [kstack EXCEPT ![rsp0] = <<Frame("irq", cpu.rsp)>>]
               ELSE [kstack EXCEPT ![current] = Append(@, Frame("idle", KTask))]
  /\ UNCHANGED <<current, cpu, rsp0, global_user_rsp, regs, shadow>>

----------------------------------------------------------------------------
(* Switching.                                                               *)

\* Mutant: the TSS keeps the stack of the task before.
KeepsStack(next) == rsp0

\* tss_set_kernel_stack, before and inside task_switch.
KernelStack(next) == next

\* A task whose saved stack pointer is its kstack_top has never run.
RipOf(next) == IF regs[next] = Fresh THEN "trampoline" ELSE regs[next].rip

\* sched_tick, sched_yield or sched_start switch to next: task_switch saves
\* where the old task stands and takes over the new one's tables and stack.
\* What it saves for KTask can be switched to only after it was saved.
task_switch(next) ==
  /\ place \in {"start", "syscall", "irq"}
  /\ next # current
  /\ (place = "start" => next \in Users /\ regs[KTask] = Fresh)
  /\ regs' = [regs EXCEPT ![current] = [rip |-> place, depth |-> Len(kstack[current]) + 1]]
  /\ place' = RipOf(next)
  /\ current' = next /\ rsp0' = KernelStack(next)
  /\ cpu' = [cpu EXCEPT !.cr3 = next]
  /\ UNCHANGED <<global_user_rsp, kstack, unacked, shadow>>

\* task_entry_trampoline: ring 3 at the entry point, on the user stack.
task_entry_trampoline ==
  /\ place = "trampoline" /\ place' = "user"
  /\ cpu' = [cpu EXCEPT !.val = Blank, !.rsp = current]
  /\ UNCHANGED <<current, rsp0, global_user_rsp, kstack, regs, unacked, shadow>>

----------------------------------------------------------------------------
(* Leaving the kernel.                                                      *)

Top == kstack[current][Len(kstack[current])]
Popped == [kstack EXCEPT ![current] = SubSeq(@, 1, Len(@) - 1)]

\* Mutant: the stack pointer is taken from the scratch variable as it is.
StaleScratch == global_user_rsp

\* The user's stack pointer goes through the scratch variable once more.
UserRsp == Top.rsp

\* The end of syscall_entry: the frame is popped, sysret.
sysret ==
  /\ place = "syscall" /\ place' = "user"
  /\ global_user_rsp' = UserRsp
  /\ cpu' = [cpu EXCEPT !.rsp = global_user_rsp', !.val = Top.val]
  /\ kstack' = Popped
  /\ UNCHANGED <<current, rsp0, regs, unacked, shadow>>

\* irq_handler acknowledges; the stub pops the frame, iretq.
iretq ==
  /\ place = "irq"
  /\ unacked' = FALSE
  /\ kstack' = Popped
  /\ IF Top.kind = "idle" THEN place' = "idle" /\ UNCHANGED cpu
     ELSE place' = "user" /\ cpu' = [cpu EXCEPT !.rsp = Top.rsp, !.val = Top.val]
  /\ UNCHANGED <<current, rsp0, global_user_rsp, regs, shadow>>

\* The kernel task comes back to sched_start and goes on to its idle loop.
IdleLoop ==
  /\ place = "start" /\ regs[KTask] # Fresh
  /\ place' = "idle"
  /\ UNCHANGED <<current, cpu, rsp0, global_user_rsp, kstack, regs, unacked, shadow>>

ContextNext ==
  \/ Compute \/ syscall_entry \/ irq_entry \/ task_entry_trampoline
  \/ sysret \/ iretq \/ IdleLoop
  \/ \E t \in AllTasks : task_switch(t)
ContextSpec == ContextInit /\ [][ContextNext]_ctxVars

----------------------------------------------------------------------------
(* Properties.                                                              *)

Frames == [kind : {"syscall", "irq", "idle"}, rsp : AllTasks, val : Values]

\* The variables of the crossings have their types.
ContextTypeOK ==
  /\ current \in AllTasks /\ rsp0 \in AllTasks /\ global_user_rsp \in AllTasks
  /\ place \in {"start", "user", "idle", "syscall", "irq", "trampoline"}
  /\ cpu \in [val : Values, rsp : AllTasks, cr3 : AllTasks]
  /\ kstack \in [AllTasks -> Seq(Frames)]
  /\ regs \in [AllTasks -> [rip : {"entry", "start", "syscall", "irq"}, depth : 0 .. 2]]
  /\ unacked \in BOOLEAN /\ shadow \in [Users -> Values]

\* A program never sees that it was interrupted, preempted or parked: in ring
\* 3 the processor holds the registers the current task itself last had, its
\* stack pointer and its address space, its kernel stack is empty, and the
\* TSS points at that stack (task.asm, tss.c:50).
RunsAsItself ==
  place = "user" => /\ current \in Users
                    /\ cpu = [val |-> shadow[current], rsp |-> current, cr3 |-> current]
                    /\ rsp0 = current /\ kstack[current] = <<>>

\* Whoever runs, every task that has started and is not on the processor
\* keeps its own frame, alone, at the top of its own kernel stack: nobody's
\* entry lands on another task's stack, although the scratch variables and
\* the TSS are shared (syscall.asm:30-44, irq.asm:36-56).
FramesKept ==
  \A t \in Users \ {current} :
    IF regs[t] = Fresh THEN kstack[t] = <<>>
    ELSE kstack[t] = <<[kind |-> regs[t].rip, rsp |-> t, val |-> shadow[t]]>>

\* The boot stack holds at most the idle loop's own interrupt frame.
BootStackBounded ==
  /\ Len(kstack[KTask]) <= 1
  /\ \A i \in DOMAIN kstack[KTask] : kstack[KTask][i].kind = "idle"

\* The trampoline is entered once per task, by a task that never ran.
EntersOnce == place = "trampoline" => current \in Users /\ kstack[current] = <<>> /\ regs[current] = Fresh

\* Whatever is interrupted, switched and resumed, each task goes on as itself
\* and on its own stack (syscall_entry, irq_common_stub, task_switch).
ContextInv == ContextTypeOK /\ RunsAsItself /\ FramesKept /\ BootStackBounded /\ EntersOnce
=============================================================================
