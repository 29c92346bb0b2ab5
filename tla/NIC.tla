-------------------------------- MODULE NIC ---------------------------------
(***************************************************************************)
(* The e1000 driver's descriptor rings (kernel/e1000.c) and the network    *)
(* controller that shares them.                                            *)
(*                                                                         *)
(* A packet is the number under which it was accepted, or received.  Two   *)
(* contexts send: the code of a system call or of a boot test, and the     *)
(* padding packet sent from the timer interrupt.  A system call runs with  *)
(* interrupts off; a boot test does not, and the interrupt may then come   *)
(* between any two steps of e1000_send_packet.                             *)
(***************************************************************************)
EXTENDS Integers, Sequences, SequencesExt

CONSTANTS
  E1000_NUM_TX_DESC, E1000_NUM_RX_DESC,
  MaxSent,         \* bound: packets offered for sending
  MaxReceived      \* bound: packets arriving

ASSUME NicAssumption ==
  /\ {E1000_NUM_TX_DESC, E1000_NUM_RX_DESC} \subseteq Nat \ {0, 1}
  /\ {MaxSent, MaxReceived} \subseteq Nat

TxIds == 0 .. E1000_NUM_TX_DESC - 1
RxIds == 0 .. E1000_NUM_RX_DESC - 1

VARIABLES
  g_e1000_active,
  tx,         \* transmit descriptors: status (DD) and the packet in the buffer
  g_tx_cur, tdh, tdt,
  rx, g_rx_cur, rdh, rdt,
  pc, idx,    \* the main context in e1000_send_packet
  offered,    \* packets offered for sending so far
  accepted,   \* packets e1000_send_packet returned true for
  wire,       \* packets transmitted
  arrived,    \* packets received by the controller
  polled,     \* packets e1000_poll_packet returned
  overlapped  \* history: a packet was sent inside another e1000_send_packet

txVars == <<tx, g_tx_cur, tdh, tdt>>
rxVars == <<rx, g_rx_cur, rdh, rdt, arrived, polled>>
nicVars == <<g_e1000_active, tx, g_tx_cur, tdh, tdt, rx, g_rx_cur, rdh, rdt, pc,
             idx, offered, accepted, wire, arrived, polled, overlapped>>

NoPacket == 0

\* The rings as e1000_init leaves them, and as they are before it.
FreshTx == [i \in TxIds |-> [status |-> 1, pkt |-> NoPacket]]
FreshRx == [i \in RxIds |-> [status |-> 0, pkt |-> NoPacket]]

NicInit == /\ g_e1000_active = FALSE
           /\ tx = FreshTx /\ g_tx_cur = 0 /\ tdh = 0 /\ tdt = 0
           /\ rx = FreshRx /\ g_rx_cur = 0 /\ rdh = 0 /\ rdt = 0
           /\ pc = "idle" /\ idx = 0 /\ offered = 0
           /\ accepted = <<>> /\ wire = <<>> /\ arrived = 0 /\ polled = <<>>
           /\ overlapped = FALSE

\* e1000_init, once: all transmit descriptors are done, all receive descriptors
\* but one belong to the controller.
e1000_init ==
  /\ ~g_e1000_active /\ offered = 0
  /\ g_e1000_active' = TRUE
  /\ tx' = FreshTx /\ g_tx_cur' = 0 /\ tdh' = 0 /\ tdt' = 0
  /\ rx' = FreshRx /\ g_rx_cur' = 0 /\ rdh' = 0 /\ rdt' = E1000_NUM_RX_DESC - 1
  /\ arrived = 0
  /\ UNCHANGED <<pc, idx, offered, accepted, wire, arrived, polled, overlapped>>

----------------------------------------------------------------------------
(* e1000_send_packet.                                                       *)

\* The packet is copied and the descriptor given up; tail and count follow.
Fill(i, p) == tx' = [tx EXCEPT ![i] = [status |-> 0, pkt |-> p]]

\* Mutant: the tail register is written before the index moves on.
TailBehind == /\ g_tx_cur' = (g_tx_cur + 1) % E1000_NUM_TX_DESC
              /\ tdt' = g_tx_cur

Advance == /\ g_tx_cur' = (g_tx_cur + 1) % E1000_NUM_TX_DESC
           /\ tdt' = g_tx_cur'

\* Mutant: the descriptor is not waited for.
NoWait(i) == tx[i].status \in {0, 1}

Free(i) == tx[i].status = 1

\* All of it in one step: from the timer interrupt (padding_tick), which the
\* main context's steps do not interrupt, or from a system call.
SendAtOnce ==
  /\ g_e1000_active /\ offered < MaxSent
  /\ overlapped' = (overlapped \/ pc # "idle")
  /\ offered' = offered + 1
  /\ IF Free(g_tx_cur)
     THEN Fill(g_tx_cur, offered') /\ Advance /\ accepted' = Append(accepted, offered')
     ELSE UNCHANGED <<tx, g_tx_cur, tdt, accepted>>
  /\ UNCHANGED <<g_e1000_active, tdh, rxVars, pc, idx, wire>>

\* The same in the main context with interrupts on: the index is read,
SendBegin ==
  /\ g_e1000_active /\ pc = "idle" /\ offered < MaxSent
  /\ idx' = g_tx_cur /\ pc' = "wait"
  /\ UNCHANGED <<g_e1000_active, txVars, rxVars, offered, accepted, wire, overlapped>>

\* the descriptor waited for,
SendWaited ==
  /\ pc = "wait" /\ Free(idx)
  /\ pc' = "fill"
  /\ UNCHANGED <<g_e1000_active, txVars, rxVars, idx, offered, accepted, wire, overlapped>>

\* in vain,
SendFull ==
  /\ pc = "wait" /\ ~Free(idx)
  /\ pc' = "idle"
  /\ UNCHANGED <<g_e1000_active, txVars, rxVars, idx, offered, accepted, wire, overlapped>>

\* or filled,
SendFill ==
  /\ pc = "fill" /\ offered < MaxSent
  /\ offered' = offered + 1
  /\ Fill(idx, offered')
  /\ accepted' = Append(accepted, offered')
  /\ pc' = "tail"
  /\ UNCHANGED <<g_e1000_active, g_tx_cur, tdh, tdt, rxVars, idx, wire, overlapped>>

\* and the tail moved: g_tx_cur and the register in one step, for an interrupt between
\* the two that sends is an overlap like the others.
SendTail ==
  /\ pc = "tail"
  /\ Advance
  /\ pc' = "idle"
  /\ UNCHANGED <<g_e1000_active, tx, tdh, rxVars, idx, offered, accepted, wire, overlapped>>

----------------------------------------------------------------------------
(* e1000_poll_packet and e1000_disable.                                     *)

\* The receive descriptors once descriptor i has been copied out.
Emptied(i) == [rx EXCEPT ![i].status = 0]

e1000_poll_packet ==
  /\ g_e1000_active
  /\ rx[g_rx_cur].status = 1
  /\ polled' = Append(polled, rx[g_rx_cur].pkt)
  /\ rx' = Emptied(g_rx_cur)
  /\ g_rx_cur' = (g_rx_cur + 1) % E1000_NUM_RX_DESC
  /\ rdt' = g_rx_cur
  /\ UNCHANGED <<g_e1000_active, txVars, rdh, pc, idx, offered, accepted, wire, arrived, overlapped>>

e1000_disable ==
  /\ g_e1000_active
  /\ g_e1000_active' = FALSE
  /\ UNCHANGED <<txVars, rxVars, pc, idx, offered, accepted, wire, overlapped>>

----------------------------------------------------------------------------
(* The controller (external): it owns the descriptors from head to tail.    *)

Transmit ==
  /\ g_e1000_active /\ tdh # tdt
  /\ wire' = Append(wire, tx[tdh].pkt)
  /\ tx' = [tx EXCEPT ![tdh].status = 1]
  /\ tdh' = (tdh + 1) % E1000_NUM_TX_DESC
  /\ UNCHANGED <<g_e1000_active, g_tx_cur, tdt, rxVars, pc, idx, offered, accepted, overlapped>>

\* A packet that finds no descriptor is dropped, which changes nothing here.
Receive ==
  /\ g_e1000_active /\ rdh # rdt /\ arrived < MaxReceived
  /\ arrived' = arrived + 1
  /\ rx' = [rx EXCEPT ![rdh] = [status |-> 1, pkt |-> arrived']]
  /\ rdh' = (rdh + 1) % E1000_NUM_RX_DESC
  /\ UNCHANGED <<g_e1000_active, txVars, g_rx_cur, rdt, pc, idx, offered, accepted,
                 wire, polled, overlapped>>

Sending == SendAtOnce \/ SendBegin \/ SendWaited \/ SendFull \/ SendFill \/ SendTail
NicNext == e1000_init \/ Sending \/ e1000_poll_packet \/ e1000_disable
           \/ Transmit \/ Receive
NicSpec == NicInit /\ [][NicNext]_nicVars

----------------------------------------------------------------------------

\* The indices stay in their rings (e1000_send_packet, e1000_poll_packet).
NicTypeOK ==
  /\ tx \in [TxIds -> [status : {0, 1}, pkt : 0 .. MaxSent]]
  /\ rx \in [RxIds -> [status : {0, 1}, pkt : 0 .. MaxReceived]]
  /\ g_tx_cur \in TxIds /\ tdh \in TxIds /\ tdt \in TxIds
  /\ g_rx_cur \in RxIds /\ rdh \in RxIds /\ rdt \in RxIds
  /\ pc \in {"idle", "wait", "fill", "tail"} /\ idx \in TxIds

\* What the controller transmits is what e1000_send_packet accepted, in that
\* order and each packet once: no descriptor is filled while the controller
\* still owns it, and none is transmitted again when the ring wraps - as long
\* as no packet is sent from the timer interrupt inside another send.
SentInOrder == ~overlapped => IsPrefix(wire, accepted)

\* e1000_poll_packet returns the packets in the order of arrival, each once,
\* through a ring that is never given back in full.
ReceivedInOrder == polled = [i \in 1 .. Len(polled) |-> i]

\* Both rings pass packets on once and in order, while the two contexts send.
NicInv == NicTypeOK /\ SentInOrder /\ ReceivedInOrder

\* The ring is full: e1000_send_packet asks for a free descriptor and keeps none
\* back, so the tail has caught up with the head, which is how the controller
\* knows an empty ring.  No packet leaves any more and no other is accepted.
Wedged == tdh = tdt /\ pc # "tail" /\ \A i \in TxIds : ~Free(i)

\* A descriptor e1000_send_packet gives to the controller comes back, its packet
\* sent, unless the interface is disabled, a send was interrupted by another, or
\* the ring has filled up.
RingDrains ==
  \A i \in TxIds : ~Free(i) ~> (Free(i) \/ Wedged \/ ~g_e1000_active \/ overlapped)

\* e1000.c: "Wait until current descriptor is free": the descriptor is free when
\* the packet is copied into its buffer, also when the wait was interrupted.
FillsFree == pc = "fill" => Free(idx)

=============================================================================
