-------------------------------- MODULE XHCI --------------------------------
(***************************************************************************)
(* The polled xHCI driver (kernel/xhci.c) and the controller it shares     *)
(* memory with.  Driver and controller meet in five rings: the command     *)
(* ring and the three transfer rings, filled by the driver, and the event  *)
(* ring, filled by the controller.  Who owns an entry is told by its cycle *)
(* bit alone, compared with a cycle state each side keeps for itself.      *)
(*                                                                         *)
(* A TRB is abstracted to its cycle bit and a serial number, counted from  *)
(* 1 on each ring; the driver never reads the serials.  Register set-up,   *)
(* device contexts and the data a transfer moves are left out, except for  *)
(* the one decision taken on such data: xhci_init gives up when the        *)
(* configuration descriptor names no bulk endpoints.                       *)
(***************************************************************************)
EXTENDS Integers, Sequences

CONSTANTS
  XHCI_RING_SIZE,        \* entries of a ring, the last one a link
  XHCI_EVENT_RING_SIZE,  \* entries of the event ring
  Budgets                \* bounds: how many bulk-only commands, with which data
                         \* phases, waits that run out of polls, errors and
                         \* port changes may happen

ASSUME XhciAssumption ==
  /\ XHCI_RING_SIZE \in Nat /\ XHCI_RING_SIZE > 2
  /\ XHCI_EVENT_RING_SIZE \in Nat /\ XHCI_EVENT_RING_SIZE > 1
  /\ Budgets \subseteq [commands : Nat, phases : SUBSET {"none", "in", "out"},
                         give_ups : Nat, errors : Nat, ports : Nat]

Rings == {"cmd", "ep0", "out", "in"}
Link == XHCI_RING_SIZE - 1
Bit == {0, 1}

VARIABLES
  ring,     \* xhci_ring_t of each ring: trbs, enqueue, pcs
  hc,       \* the controller's side of each ring: deq, ccs, running, halted
  evt,      \* the entries of the event ring
  evt_hc,   \* the controller's side of the event ring: enq, pcs
  evt_drv,  \* the driver's side: g_evt_dequeue, g_evt_ccs
  erdp,     \* event ring dequeue pointer register
  pc,       \* what the driver is doing
  plan,     \* transfers and commands still to do, the current one first
  left,     \* TRBs of the current one still to be enqueued
  ok,       \* what the last wait returned
  sent,     \* history: TRBs enqueued on each ring
  done,     \* history: TRBs executed of each ring
  posted,   \* history: events posted
  taken,    \* history: events consumed
  budget    \* what is left of the budget chosen at the start

drvVars == <<pc, plan, left, ok>>
evtVars == <<evt, evt_hc, posted>>
xhciVars == <<ring, hc, evt, evt_hc, evt_drv, erdp, pc, plan, left, ok, sent,
              done, posted, taken, budget>>

----------------------------------------------------------------------------
(* The rings of the driver.                                                 *)

\* xhci_ring_init: all entries zero but for the link, which is valid at once.
xhci_ring_init ==
  [trbs |-> [i \in 0 .. Link |-> [cycle |-> IF i = Link THEN 1 ELSE 0, n |-> 0]],
   enqueue |-> 0, pcs |-> 1]

\* Mutant: the cycle bit of the link is set when the ring is made, never again.
StaleLink(r, n) ==
  LET put == [r.trbs EXCEPT ![r.enqueue] = [cycle |-> r.pcs, n |-> n]]
  IN IF r.enqueue + 1 >= Link
     THEN [trbs |-> put, enqueue |-> 0, pcs |-> 1 - r.pcs]
     ELSE [trbs |-> put, enqueue |-> r.enqueue + 1, pcs |-> r.pcs]

\* ring_enqueue: the entry becomes valid with its last word; at the end of the
\* ring the link is handed over too and the cycle state flips.
ring_enqueue(r, n) ==
  LET put == [r.trbs EXCEPT ![r.enqueue] = [cycle |-> r.pcs, n |-> n]]
  IN IF r.enqueue + 1 >= Link
     THEN [trbs |-> [put EXCEPT ![Link].cycle = r.pcs], enqueue |-> 0,
           pcs |-> 1 - r.pcs]
     ELSE [trbs |-> put, enqueue |-> r.enqueue + 1, pcs |-> r.pcs]

NoEvent == [cycle |-> 0, type |-> "none", good |-> FALSE, n |-> 0]

\* What the controller starts from when it is told where a ring is.
FreshHc == [deq |-> 0, ccs |-> 1, running |-> FALSE, halted |-> FALSE]

Next1(i, size) == IF i + 1 >= size THEN 0 ELSE i + 1

----------------------------------------------------------------------------
(* The driver: xhci_init is a list of commands and control transfers, a     *)
(* bulk-only command a list of bulk transfers.                              *)

Op(r, trbs, name) == [ring |-> r, trbs |-> trbs, name |-> name]

\* xhci_control: setup, data if there is any, status.
Control(name, data) == Op("ep0", IF data THEN 3 ELSE 2, name)

\* The slot is enabled and the device addressed,
AddressOps == <<Op("cmd", 1, "enable_slot"), Op("cmd", 1, "address_device")>>

\* its descriptors are read,
DescriptorOps == <<Control("device_desc", TRUE), Control("config_desc", TRUE)>>

\* it is configured, and so are its bulk endpoints.
ConfigureOps == <<Control("set_configuration", FALSE), Op("cmd", 1, "configure_ep")>>

\* bot_execute: command block, data phase if there is one, status.
BotOps(phase) ==
  <<Op("out", 1, "bulk")>>
    \o (IF phase = "none" THEN <<>> ELSE <<Op(phase, 1, "bulk")>>)
    \o <<Op("in", 1, "bulk")>>

XhciInit ==
  /\ ring = [r \in Rings |-> xhci_ring_init]
  /\ hc = [r \in Rings |-> FreshHc]
  /\ evt = [i \in 0 .. XHCI_EVENT_RING_SIZE - 1 |-> NoEvent]
  /\ evt_hc = [enq |-> 0, pcs |-> 1]
  /\ evt_drv = [deq |-> 0, ccs |-> 1]
  /\ erdp = 0
  /\ pc = "off" /\ plan = <<>> /\ left = 0 /\ ok = FALSE
  /\ sent = [r \in Rings |-> 0] /\ done = sent /\ posted = 0 /\ taken = 0
  /\ budget \in Budgets

Begin(p) == plan' = p /\ pc' = "enqueue" /\ left' = p[1].trbs

\* xhci_init up to the port scan: the controller is found, reset and started
\* with empty rings, and a device is connected and its port reset - or not.
StartController ==
  /\ pc = "off"
  /\ \/ Begin(AddressOps \o DescriptorOps \o ConfigureOps)
     \/ budget.errors > 0 /\ pc' = "failed" /\ UNCHANGED <<plan, left>>
  /\ UNCHANGED <<ring, hc, evt, evt_hc, evt_drv, erdp, ok, sent, done, posted,
                 taken, budget>>

\* One ring_enqueue of the current transfer; after the last one the doorbell.
Enqueue ==
  /\ pc = "enqueue"
  /\ LET r == plan[1].ring
     IN /\ ring' = [ring EXCEPT ![r] = ring_enqueue(ring[r], sent[r] + 1)]
        /\ sent' = [sent EXCEPT ![r] = @ + 1]
        /\ left' = left - 1
        /\ IF left = 1 THEN pc' = "wait" /\ hc' = [hc EXCEPT ![r].running = TRUE]
                       ELSE UNCHANGED <<pc, hc>>
  /\ UNCHANGED <<evt, evt_hc, evt_drv, erdp, plan, ok, done, posted, taken, budget>>

EventReady == evt[evt_drv.deq].cycle = evt_drv.ccs

\* Mutant: the dequeue pointer is not reported back to the controller.
NoAck ==
  /\ EventReady
  /\ evt_drv' = [deq |-> Next1(evt_drv.deq, XHCI_EVENT_RING_SIZE),
                 ccs |-> IF evt_drv.deq + 1 >= XHCI_EVENT_RING_SIZE
                         THEN 1 - evt_drv.ccs ELSE evt_drv.ccs]
  /\ taken' = taken + 1 /\ UNCHANGED erdp

\* consume_event: the entry is the driver's if its cycle bit says so; the new
\* dequeue pointer is written back.
consume_event ==
  /\ EventReady
  /\ evt_drv' = [deq |-> Next1(evt_drv.deq, XHCI_EVENT_RING_SIZE),
                 ccs |-> IF evt_drv.deq + 1 >= XHCI_EVENT_RING_SIZE
                         THEN 1 - evt_drv.ccs ELSE evt_drv.ccs]
  /\ erdp' = evt_drv'.deq
  /\ taken' = taken + 1

\* Mutant: any event of the right outcome ends a wait.
AnyType(r) == {"command", "transfer"}

\* wait_cmd_complete and wait_transfer_complete: the type that ends the wait.
Awaited(r) == IF r = "cmd" THEN {"command"} ELSE {"transfer"}

\* One poll of a wait that finds an event.  An event of another type is
\* dropped; of the awaited type it is taken for the answer, whichever TRB it
\* is about.
Poll ==
  /\ pc = "wait"
  /\ consume_event
  /\ LET e == evt[evt_drv.deq]
     IN IF e.type \in Awaited(plan[1].ring) THEN pc' = "return" /\ ok' = e.good
                                            ELSE UNCHANGED <<pc, ok>>
  /\ UNCHANGED <<ring, hc, evt, evt_hc, plan, left, sent, done, posted, budget>>

\* The polls run out: an error is returned, the TRBs stay where they are.
GiveUp ==
  /\ pc = "wait" /\ ~EventReady
  /\ budget.give_ups > 0
  /\ budget' = [budget EXCEPT !.give_ups = @ - 1]
  /\ pc' = "return" /\ ok' = FALSE
  /\ UNCHANGED <<ring, hc, evt, evt_hc, evt_drv, erdp, plan, left, sent, done,
                 posted, taken>>

\* The data stage of the configuration descriptor is the fifth TRB of EP0.
ConfigRead == done["ep0"] >= Control("device_desc", TRUE).trbs + 2

\* What the caller does with the result: a failed command ends xhci_init, the
\* result of a control transfer is ignored, a failed bulk transfer ends its
\* command.  The configuration buffer is zero until it is filled, and then
\* names no bulk endpoints.
Return ==
  /\ pc = "return"
  /\ LET o == plan[1]
         goOn == IF Len(plan) = 1 THEN pc' = "idle" /\ plan' = <<>> /\ left' = 0
                                  ELSE Begin(Tail(plan))
         stop(where) == pc' = where /\ plan' = <<>> /\ left' = 0
     IN CASE o.ring = "cmd" /\ ~ok                    -> stop("failed")
          [] o.name = "config_desc" /\ ~ConfigRead    -> stop("failed")
          [] o.name = "bulk" /\ ~ok                   -> stop("idle")
          [] OTHER                                    -> goOn
  /\ UNCHANGED <<ring, hc, evt, evt_hc, evt_drv, erdp, ok, sent, done, posted,
                 taken, budget>>

\* bot_execute, once the device is present.
StartCommand ==
  /\ pc = "idle"
  /\ budget.commands > 0
  /\ budget' = [budget EXCEPT !.commands = @ - 1]
  /\ \E phase \in budget.phases : Begin(BotOps(phase))
  /\ UNCHANGED <<ring, hc, evt, evt_hc, evt_drv, erdp, ok, sent, done, posted, taken>>

----------------------------------------------------------------------------
(* The controller (external).                                               *)

EventSpace == Next1(evt_hc.enq, XHCI_EVENT_RING_SIZE) # erdp

\* Post one event: the entry takes the controller's cycle state.
Post(type, good) ==
  /\ EventSpace
  /\ posted' = posted + 1
  /\ evt' = [evt EXCEPT ![evt_hc.enq] =
               [cycle |-> evt_hc.pcs, type |-> type, good |-> good, n |-> posted']]
  /\ evt_hc' = [enq |-> Next1(evt_hc.enq, XHCI_EVENT_RING_SIZE),
                pcs |-> IF evt_hc.enq + 1 >= XHCI_EVENT_RING_SIZE
                        THEN 1 - evt_hc.pcs ELSE evt_hc.pcs]

TrbReady(r) == hc[r].running /\ ~hc[r].halted
               /\ ring[r].trbs[hc[r].deq].cycle = hc[r].ccs

\* Execute the TRB at the dequeue pointer and report it: every TRB the driver
\* writes asks for that.  An error on an endpoint halts it for good, since the
\* driver never resets one.
Execute(r) ==
  /\ TrbReady(r) /\ hc[r].deq # Link
  /\ \E good \in BOOLEAN :
       /\ good \/ budget.errors > 0
       /\ Post(IF r = "cmd" THEN "command" ELSE "transfer", good)
       /\ budget' = [budget EXCEPT !.errors = IF good THEN @ ELSE @ - 1]
       /\ hc' = [hc EXCEPT ![r].deq = @ + 1, ![r].halted = ~good /\ r # "cmd"]
  /\ done' = [done EXCEPT ![r] = ring[r].trbs[hc[r].deq].n]
  /\ UNCHANGED <<ring, evt_drv, erdp, drvVars, sent, taken>>

\* Follow the link, which toggles the cycle state.
FollowLink(r) ==
  /\ TrbReady(r) /\ hc[r].deq = Link
  /\ hc' = [hc EXCEPT ![r].deq = 0, ![r].ccs = 1 - @]
  /\ UNCHANGED <<ring, evtVars, evt_drv, erdp, drvVars, sent, done, taken, budget>>

\* At an entry that is not its own the controller stops until the next doorbell.
Stop(r) ==
  /\ hc[r].running /\ ~TrbReady(r)
  /\ hc' = [hc EXCEPT ![r].running = FALSE]
  /\ UNCHANGED <<ring, evtVars, evt_drv, erdp, drvVars, sent, done, taken, budget>>

PortEvent ==
  /\ pc # "off" /\ budget.ports > 0
  /\ budget' = [budget EXCEPT !.ports = @ - 1]
  /\ Post("port", TRUE)
  /\ UNCHANGED <<ring, hc, evt_drv, erdp, drvVars, sent, done, taken>>

Driver == StartController \/ Enqueue \/ Poll \/ GiveUp \/ Return \/ StartCommand
Controller == PortEvent \/ \E r \in Rings : Execute(r) \/ FollowLink(r) \/ Stop(r)

XhciNext == Driver \/ Controller
XhciSpec == XhciInit /\ [][XhciNext]_xhciVars

----------------------------------------------------------------------------

\* What RingsFit rests on: a wait that runs out of polls leaves its TRBs behind.  The
\* six are what xhci_init's control transfers run ahead, since a wait takes the event
\* of the first TRB for the whole transfer; events waiting to be taken are counted
\* with the TRBs, so port changes count too.  A ring of 64 entries leaves room for 56.
FewFailures == \A b \in Budgets : b.give_ups + b.ports + 6 < Link

\* The indices stay in their rings and cycle states are bits; the driver has a
\* plan exactly while it works on one (ring_enqueue, consume_event, xhci_init).
XhciTypeOK ==
  /\ ring \in [Rings -> [trbs : [0 .. Link -> [cycle : Bit, n : Nat]],
                         enqueue : 0 .. Link - 1, pcs : Bit]]
  /\ hc \in [Rings -> [deq : 0 .. Link, ccs : Bit, running : BOOLEAN, halted : BOOLEAN]]
  /\ evt \in [0 .. XHCI_EVENT_RING_SIZE - 1 ->
               [cycle : Bit, type : {"none", "command", "transfer", "port"},
                good : BOOLEAN, n : Nat]]
  /\ evt_hc \in [enq : 0 .. XHCI_EVENT_RING_SIZE - 1, pcs : Bit]
  /\ evt_drv \in [deq : 0 .. XHCI_EVENT_RING_SIZE - 1, ccs : Bit]
  /\ erdp \in 0 .. XHCI_EVENT_RING_SIZE - 1
  /\ pc \in {"off", "enqueue", "wait", "return", "idle", "failed"}
  /\ left \in 0 .. 3 /\ ok \in BOOLEAN
  /\ pc \in {"enqueue", "wait", "return"} <=> plan # <<>>
  /\ pc = "enqueue" <=> left > 0

\* The rings are queues: the TRB the controller finds valid next is the one
\* the driver enqueued next after the last one executed - none is skipped, run
\* twice, or run from an entry left over from the previous lap - and while any
\* is outstanding the ring is never mistaken for empty (ring_enqueue's cycle
\* bit and link handling, xhci.c).
RingsInOrder ==
  \A r \in Rings :
    LET c == hc[r]
        at == IF c.deq = Link THEN 0 ELSE c.deq
        live == IF c.deq = Link
                THEN ring[r].trbs[Link].cycle = c.ccs
                     /\ ring[r].trbs[0].cycle = 1 - c.ccs
                ELSE ring[r].trbs[at].cycle = c.ccs
    IN IF sent[r] > done[r] THEN live /\ ring[r].trbs[at].n = done[r] + 1
                            ELSE ~live

\* The event ring is a queue: what consume_event finds ready is the oldest
\* event not consumed, and one is ready whenever there is one.
EventsInOrder ==
  IF posted > taken THEN EventReady /\ evt[evt_drv.deq].n = taken + 1
                    ELSE ~EventReady

\* No ring is overrun, though ring_enqueue never looks whether it is full: the
\* driver runs ahead of the controller by less than a ring.
RingsFit == \A r \in Rings : sent[r] - done[r] < Link

\* A command that issue_cmd reports as completed has been executed, whatever
\* transfer and port events were in the event ring before its own.
CommandOwn ==
  pc = "return" /\ ok /\ plan[1].ring = "cmd" => done["cmd"] = sent["cmd"]

\* All rings the driver shares with the controller are queues, on every lap, and
\* no command is taken for done that is not.
XhciInv == XhciTypeOK /\ RingsFit /\ RingsInOrder /\ EventsInOrder /\ CommandOwn

\* Every wait of the driver ends when the controller works: the events that
\* wait_transfer_complete leaves behind or takes early never leave a later
\* wait without one, and never fill the event ring for good.  (An endpoint
\* halted by an error never completes anything again: the driver resets none.)
WaitEnds == pc = "wait" ~> pc # "wait" \/ \E r \in Rings : hc[r].halted

=============================================================================
