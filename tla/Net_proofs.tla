----------------------------- MODULE Net_proofs -----------------------------
(***************************************************************************)
(* The network interface driver (e1000.c), circuit keys and padding (tor.c, *)
(* padding.c), the TCP engine (tcp.c) and the frame builders (net_proto.c). *)
(***************************************************************************)
EXTENDS NIC, Tor, TCP, NetProto, SequenceTheorems, WellFoundedInduction, TLAPS

----------------------------------------------------------------------------
(* Arithmetic: indices, ticks and sequence numbers that wrap.               *)

\* Quotient and remainder.
LEMMA Euclid ==
  ASSUME NEW x \in Nat, NEW m \in Nat, m > 0
  PROVE  /\ x \div m \in Nat /\ x % m \in 0 .. m - 1 /\ x = m * (x \div m) + (x % m)
<1>1. x \div m \in Nat
  OBVIOUS
<1>2. x % m \in 0 .. m - 1
  OBVIOUS
<1>3. x = m * (x \div m) + (x % m)
  OBVIOUS
<1> QED BY <1>1, <1>2, <1>3

\* Multiples lie at least the factor apart.
LEMMA MulGap ==
  ASSUME NEW m \in Nat, NEW p \in Int, NEW q \in Int, m > 0, p < q
  PROVE  m * p + m <= m * q
<1>1. PICK d \in Nat : q = p + 1 + d
  <2>1. q - p - 1 \in Nat /\ q = p + 1 + (q - p - 1)
   OBVIOUS
  <2> QED BY <2>1
<1>2. m * q = m * p + m + m * d
  BY <1>1
<1>3. m * d \in Nat
  OBVIOUS
<1>4. m * p \in Int
  OBVIOUS
<1> QED BY <1>2, <1>3, <1>4

\* There is one remainder.
LEMMA ModUnique ==
  ASSUME NEW m \in Nat, m > 0, NEW x \in Nat, NEW q \in Int, NEW r \in 0 .. m - 1, x = m * q + r
  PROVE  x % m = r
<1> DEFINE p == x \div m
           s == x % m
<1>1. p \in Nat /\ s \in 0 .. m - 1 /\ x = m * p + s
  BY Euclid
<1> HIDE DEF p, s
<1>0. m * p \in Int /\ m * q \in Int
  BY <1>1
<1>2. ~(p < q)
  <2> SUFFICES ASSUME p < q PROVE FALSE OBVIOUS
  <2>1. m * p + m <= m * q
    BY <1>1, MulGap
  <2> QED BY <1>0, <1>1, <2>1
<1>3. ~(q < p)
  <2> SUFFICES ASSUME q < p PROVE FALSE OBVIOUS
  <2>1. m * q + m <= m * p
    BY <1>1, MulGap
  <2> QED BY <1>0, <1>1, <2>1
<1>4. p = q
  BY <1>1, <1>2, <1>3
<1>5. s = r
  BY <1>0, <1>1, <1>4
<1> QED BY <1>5 DEF s

\* A sum may be reduced before or after a term is added.
LEMMA ModAdd ==
  ASSUME NEW x \in Nat, NEW k \in Nat, NEW m \in Nat, m > 0
  PROVE  ((x % m) + k) % m = (x + k) % m
<1> DEFINE p == x \div m
           s == x % m
           y == s + k
           q == y \div m
           t == y % m
<1>1. p \in Nat /\ s \in 0 .. m - 1 /\ x = m * p + s
  BY Euclid
<1>2. y \in Nat
  BY <1>1
<1>3. q \in Nat /\ t \in 0 .. m - 1 /\ y = m * q + t
  BY <1>2, Euclid
<1>4. y = s + k OBVIOUS
<1>5. t = ((x % m) + k) % m OBVIOUS
<1> HIDE DEF p, s, y, q, t
<1>6. m * (p + q) = m * p + m * q
  BY <1>1, <1>3
<1>7. m * p \in Nat /\ m * q \in Nat
  BY <1>1, <1>3
<1>8. x + k \in Nat /\ x + k = m * (p + q) + t /\ p + q \in Int
  BY <1>1, <1>3, <1>4, <1>6, <1>7
<1>9. (x + k) % m = t
  BY <1>3, <1>8, ModUnique
<1> QED BY <1>5, <1>9

\* Numbers less than a turn apart have different remainders.
LEMMA ModApart ==
  ASSUME NEW x \in Nat, NEW y \in Nat, NEW m \in Nat, m > 0, x < y, y - x < m
  PROVE  x % m # y % m
<1> SUFFICES ASSUME x % m = y % m PROVE FALSE OBVIOUS
<1> DEFINE p == x \div m
           q == y \div m
           s == x % m
<1>1. p \in Nat /\ s \in 0 .. m - 1 /\ x = m * p + s
  BY Euclid
<1>2. q \in Nat /\ y = m * q + s
  BY Euclid
<1> HIDE DEF p, q, s
<1>3. m * p \in Nat /\ m * q \in Nat
  BY <1>1, <1>2
<1>4. ~(p < q)
  <2> SUFFICES ASSUME p < q PROVE FALSE OBVIOUS
  <2>1. m * p + m <= m * q
    BY <1>1, <1>2, MulGap
  <2> QED BY <1>1, <1>2, <1>3, <2>1
<1>5. ~(q < p)
  <2> SUFFICES ASSUME q < p PROVE FALSE OBVIOUS
  <2>1. m * q + m <= m * p
    BY <1>1, <1>2, MulGap
  <2> QED BY <1>1, <1>2, <1>3, <2>1
<1>6. p = q
  BY <1>1, <1>2, <1>4, <1>5
<1> QED BY <1>1, <1>2, <1>3, <1>6

\* Every set of natural numbers that is not empty has a least element: induction, in a
\* form the provers can use.
LEMMA LeastElement ==
  ASSUME NEW T, T \subseteq Nat, T # {}
  PROVE  \E n \in T : \A m \in T : n <= m
<1>1. IsWellFoundedOn(OpToRel(<, Nat), Nat)
  BY NatLessThanWellFounded
<1>2. PICK n \in T : \A m \in T : ~(<<m, n>> \in OpToRel(<, Nat))
  BY <1>1, WFMin
<1>3. \A m \in T : <<m, n>> \in OpToRel(<, Nat) <=> m < n
  BY DEF OpToRel
<1>4. \A m \in T : ~(m < n)
  BY <1>2, <1>3, Zenon
<1>5. \A m \in T : n <= m
  BY <1>4
<1> QED
  BY <1>5

----------------------------------------------------------------------------
(* The network interface driver.                                            *)

\* The lengths of the two rings.
NTX == E1000_NUM_TX_DESC
NRX == E1000_NUM_RX_DESC

\* Packets whose tail was written.
Handed == IF pc = "tail" THEN Len(accepted) - 1 ELSE Len(accepted)

\* Every variable has its type, and nothing was sent before the first packet was offered.
NicTypes ==
  /\ NicTypeOK /\ offered \in 0 .. MaxSent /\ arrived \in 0 .. MaxReceived
  /\ accepted \in Seq(Nat) /\ wire \in Seq(Nat) /\ polled \in Seq(Nat)
  /\ overlapped \in BOOLEAN
  /\ offered = 0 => pc \in {"idle", "wait", "fill"} /\ accepted = <<>> /\ wire = <<>>
                     /\ tdh = tdt /\ ~overlapped

\* The transmit indices count packets: the driver's those whose tail was written, the
\* controller's those on the wire.
TxIndices ==
  /\ Handed \in Nat /\ g_tx_cur = Handed % NTX /\ tdt = Handed % NTX
  /\ tdh = Len(wire) % NTX
  /\ Len(wire) <= Handed /\ Len(accepted) <= Len(wire) + NTX
  /\ pc # "idle" => idx = g_tx_cur
  /\ pc = "fill" => tx[idx].status = 1

\* The packets accepted and not on the wire are in their descriptors, in order.
Pending ==
  \A k \in Nat : Len(wire) <= k /\ k < Len(accepted) =>
     tx[k % NTX] = [status |-> 0, pkt |-> accepted[k + 1]]

\* The wire carries the accepted packets in order.
Sent == \A k \in 1 .. Len(wire) : wire[k] = accepted[k]

\* The transmit ring, as long as no send was interrupted by another.
TxOK == TxIndices /\ Pending /\ Sent

\* The receive indices count packets: the driver's those polled, the controller's those
\* that arrived.
RxIndices ==
  /\ g_rx_cur = Len(polled) % NRX /\ rdh = arrived % NRX
  /\ g_e1000_active => rdt = (Len(polled) + (NRX - 1)) % NRX
  /\ Len(polled) <= arrived /\ arrived < Len(polled) + NRX

\* The descriptors that are done hold exactly the packets not yet polled, in order.
Waiting ==
  /\ \A k \in Nat : Len(polled) <= k /\ k < arrived =>
       rx[k % NRX] = [status |-> 1, pkt |-> k + 1]
  /\ \A i \in RxIds : rx[i].status = 1 =>
       \E k \in Nat : Len(polled) <= k /\ k < arrived /\ i = k % NRX

\* Packets were polled in the order of arrival.
Numbered == \A k \in 1 .. Len(polled) : polled[k] = k

\* The receive ring.
RxOK == RxIndices /\ Waiting /\ Numbered

\* The inductive invariant: both rings hold what their indices say; of the transmit ring
\* only while no padding packet was sent inside an interrupted send (e1000_send_packet).
NicIInv == NicTypes /\ (~overlapped => TxOK) /\ RxOK

\* The named assumption in the form the proofs use.
LEMMA NicConstants ==
  /\ NTX \in Nat /\ NTX > 1 /\ NRX \in Nat /\ NRX > 1
  /\ MaxSent \in Nat /\ MaxReceived \in Nat
  /\ TxIds = 0 .. NTX - 1 /\ RxIds = 0 .. NRX - 1
BY NicAssumption DEF NTX, NRX, TxIds, RxIds

\* The index after the k-th.
LEMMA NextIndex ==
  ASSUME NEW k \in Nat, NEW m \in Nat, m > 1
  PROVE  /\ k % m \in 0 .. m - 1 /\ ((k % m) + 1) % m = (k + 1) % m
<1>1. k % m \in 0 .. m - 1
  BY Euclid
<1>2. ((k % m) + 1) % m = (k + 1) % m
  <2>1. 1 \in Nat /\ m > 0
    OBVIOUS
  <2> QED
    BY <2>1, ModAdd
<1> QED
  BY <1>1, <1>2

\* Where counting starts, and where the first turn ends.
LEMMA ZeroMod == ASSUME NEW m \in Nat, m > 1 PROVE 0 % m = 0 /\ (m - 1) % m = m - 1
<1>1. 0 = m * 0 + 0 /\ 0 \in 0 .. m - 1
  OBVIOUS
<1>2. m - 1 = m * 0 + (m - 1) /\ m - 1 \in 0 .. m - 1 /\ m - 1 \in Nat
  OBVIOUS
<1>3. 0 % m = 0
  BY <1>1, ModUnique
<1>4. (m - 1) % m = m - 1
  BY <1>2, ModUnique
<1> QED
  BY <1>3, <1>4

\* A full turn comes back to the same descriptor.
LEMMA FullTurn == ASSUME NEW k \in Nat, NEW m \in Nat, m > 1 PROVE (k + m) % m = k % m
<1> DEFINE p == k \div m
           s == k % m
<1>1. p \in Nat /\ s \in 0 .. m - 1 /\ k = m * p + s
  BY Euclid
<1> HIDE DEF p, s
<1>2. m * (p + 1) = m * p + m /\ m * p \in Nat
  BY <1>1
<1>3. k + m \in Nat /\ k + m = m * (p + 1) + s /\ p + 1 \in Int
  BY <1>1, <1>2
<1>4. (k + m) % m = s
  BY <1>1, <1>3, ModUnique
<1> QED
  BY <1>4 DEF s

\* The initial state satisfies the invariant.
LEMMA NicInitOK == NicInit => NicIInv
<1> SUFFICES ASSUME NicInit PROVE NicIInv
  OBVIOUS
<1> USE NicConstants DEF NicInit
<1>0. Len(<<>>) = 0 /\ <<>> \in Seq(Nat) /\ 0 % NTX = 0 /\ 0 % NRX = 0
  BY ZeroMod
<1>1. NicTypes
  <2>1. FreshTx \in [TxIds -> [status : {0, 1}, pkt : 0 .. MaxSent]]
        /\ FreshRx \in [RxIds -> [status : {0, 1}, pkt : 0 .. MaxReceived]]
    BY DEF FreshTx, FreshRx, NoPacket
  <2>2. NicTypeOK
    BY <2>1 DEF NicTypeOK
  <2>3. overlapped \in BOOLEAN
    OBVIOUS
  <2>4. offered \in 0 .. MaxSent /\ arrived \in 0 .. MaxReceived
    OBVIOUS
  <2> QED
    BY <1>0, <2>2, <2>3, <2>4 DEF NicTypes
<1>2. TxOK
  BY <1>0 DEF TxOK, TxIndices, Pending, Sent, Handed
<1>3. RxOK
  <2>1. \A i \in RxIds : rx[i].status = 0
    BY DEF FreshRx
  <2> QED
    BY <1>0, <2>1 DEF RxOK, RxIndices, Waiting, Numbered
<1> QED
  BY <1>1, <1>2, <1>3 DEF NicIInv

\* The invariant gives every part of NicInv.
LEMMA NicIInvImplies == NicIInv => NicInv
<1> SUFFICES ASSUME NicIInv PROVE NicInv
  OBVIOUS
<1> USE NicConstants DEF NicIInv
<1>1. NicTypeOK
  BY DEF NicTypes
<1>2. ReceivedInOrder
  <2>1. polled \in Seq(Nat) /\ \A k \in 1 .. Len(polled) : polled[k] = k
    BY DEF NicTypes, RxOK, Numbered
  <2> QED
    BY <2>1 DEF ReceivedInOrder
<1>3. SentInOrder
  <2> SUFFICES ASSUME ~overlapped PROVE IsPrefix(wire, accepted)
    BY DEF SentInOrder
  <2>1. wire \in Seq(Nat) /\ accepted \in Seq(Nat) /\ Len(wire) \in Nat /\ Len(accepted) \in Nat
    BY DEF NicTypes
  <2>2. Len(wire) <= Len(accepted) /\ \A k \in 1 .. Len(wire) : wire[k] = accepted[k]
    BY <2>1 DEF TxOK, TxIndices, Sent, Handed
  <2>3. \A k \in 1 .. Len(wire) : wire[k] \in Nat /\ accepted[k] \in Nat
    BY <2>1, <2>2
  <2>4. /\ SubSeq(wire, 1, Len(wire)) \in Seq(Nat)
        /\ Len(SubSeq(wire, 1, Len(wire))) = Len(wire)
        /\ \A k \in 1 .. Len(wire) : SubSeq(wire, 1, Len(wire))[k] = wire[k]
    BY <2>1, <2>3, SubSeqProperties
  <2>5. /\ SubSeq(accepted, 1, Len(wire)) \in Seq(Nat)
        /\ Len(SubSeq(accepted, 1, Len(wire))) = Len(wire)
        /\ \A k \in 1 .. Len(wire) : SubSeq(accepted, 1, Len(wire))[k] = accepted[k]
    BY <2>1, <2>3, SubSeqProperties
  <2>6. SubSeq(wire, 1, Len(wire)) = SubSeq(accepted, 1, Len(wire))
    BY <2>2, <2>4, <2>5, SeqEqual
  <2> QED
    BY <2>2, <2>6 DEF IsPrefix
<1> QED
  BY <1>1, <1>2, <1>3 DEF NicInv

----------------------------------------------------------------------------
(* Sending.                                                                 *)

\* A step that leaves the transmit side alone.
LEMMA TxStays ==
  ASSUME TxOK, UNCHANGED <<tx, g_tx_cur, tdh, tdt, pc, idx, accepted, wire>>
  PROVE  TxOK'
BY DEF TxOK, TxIndices, Pending, Sent, Handed

\* A step that leaves the receive side alone.
LEMMA RxStays ==
  ASSUME RxOK, UNCHANGED rxVars, g_e1000_active' => g_e1000_active
  PROVE  RxOK'
BY DEF RxOK, RxIndices, Waiting, Numbered, rxVars

\* Counting modulo the length gives a descriptor.
LEMMA Slot == ASSUME NEW k \in Nat PROVE k % NTX \in TxIds /\ k % NRX \in RxIds
<1>1. k % NTX \in 0 .. NTX - 1
  BY NicConstants, NextIndex
<1>2. k % NRX \in 0 .. NRX - 1
  BY NicConstants, NextIndex
<1> QED
  BY <1>1, <1>2, NicConstants

\* The next descriptor is a descriptor.
LEMMA AdvanceType ==
  ASSUME NicTypeOK, Advance PROVE g_tx_cur' \in TxIds /\ tdt' \in TxIds
<1>1. g_tx_cur \in Nat /\ g_tx_cur + 1 \in Nat
  BY NicConstants DEF NicTypeOK
<1>2. (g_tx_cur + 1) % NTX \in TxIds
  BY <1>1, Slot
<1> QED
  BY <1>2 DEF Advance, NTX

\* A filled ring is a ring.
LEMMA FillType ==
  ASSUME NicTypeOK, NEW i \in TxIds, NEW p \in 0 .. MaxSent, Fill(i, p)
  PROVE  tx' \in [TxIds -> [status : {0, 1}, pkt : 0 .. MaxSent]]
<1>1. [status |-> 0, pkt |-> p] \in [status : {0, 1}, pkt : 0 .. MaxSent]
  OBVIOUS
<1> QED
  BY <1>1 DEF NicTypeOK, Fill

\* Filling a free descriptor: none of the packets still to go out is overwritten,
\* and there are no more of them than descriptors.
LEMMA FillKeeps ==
  ASSUME NicTypes, TxOK, Handed = Len(accepted), tx[g_tx_cur].status = 1,
         NEW p \in 0 .. MaxSent, Fill(g_tx_cur, p), accepted' = Append(accepted, p), wire' = wire
  PROVE  /\ Pending' /\ Sent' /\ accepted' \in Seq(Nat)
         /\ Len(accepted') = Len(accepted) + 1 /\ Len(accepted') <= Len(wire) + NTX
<1> USE NicConstants
<1> DEFINE n == Len(accepted)
           w == Len(wire)
<1>1. n \in Nat /\ w \in Nat /\ w <= n /\ n <= w + NTX /\ g_tx_cur = n % NTX
      /\ accepted \in Seq(Nat) /\ wire \in Seq(Nat) /\ p \in Nat
  BY DEF NicTypes, TxOK, TxIndices
<1>2. /\ accepted' \in Seq(Nat) /\ Len(accepted') = n + 1 /\ accepted'[n + 1] = p
      /\ \A k \in 1 .. n : accepted'[k] = accepted[k]
  BY <1>1, AppendProperties
<1>3. g_tx_cur \in TxIds /\ tx \in [TxIds -> [status : {0, 1}, pkt : 0 .. MaxSent]]
  BY DEF NicTypes, NicTypeOK
<1>4. /\ tx'[g_tx_cur] = [status |-> 0, pkt |-> p]
      /\ \A i \in TxIds : i # g_tx_cur => tx'[i] = tx[i]
  BY <1>3 DEF Fill
<1>5. \A k \in Nat : w <= k /\ k < n =>
         /\ k % NTX \in TxIds /\ tx[k % NTX] = [status |-> 0, pkt |-> accepted[k + 1]]
         /\ k % NTX # g_tx_cur
  <2> SUFFICES ASSUME NEW k \in Nat, w <= k, k < n
               PROVE  /\ k % NTX \in TxIds
                      /\ tx[k % NTX] = [status |-> 0, pkt |-> accepted[k + 1]]
                      /\ k % NTX # g_tx_cur
    OBVIOUS
  <2>1. tx[k % NTX] = [status |-> 0, pkt |-> accepted[k + 1]]
    BY DEF TxOK, Pending
  <2>2. tx[k % NTX].status = 0
    BY <2>1
  <2>3. k % NTX # g_tx_cur
    <3>1. 0 # 1
      OBVIOUS
    <3> QED
      BY ONLY <2>2, <3>1, tx[g_tx_cur].status = 1, Zenon
  <2>4. k % NTX \in TxIds
    BY Slot
  <2> QED
    BY <2>1, <2>3, <2>4
<1>6. Len(accepted') <= w + NTX
  <2> SUFFICES ASSUME n = w + NTX PROVE FALSE
    BY <1>1, <1>2
  <2>1. n % NTX = w % NTX
    BY <1>1, FullTurn
  <2>2. w < n
    BY <1>1
  <2>3. w % NTX # g_tx_cur
    <3>1. w \in Nat /\ w <= w /\ w < n
      BY <1>1, <2>2
    <3> QED
      BY <1>5, <3>1, Zenon
  <2> QED
    BY <1>1, <2>1, <2>3
<1>7. Pending'
  <2> SUFFICES ASSUME NEW k \in Nat, w <= k, k < n + 1
               PROVE  tx'[k % NTX] = [status |-> 0, pkt |-> accepted'[k + 1]]
    BY <1>2 DEF Pending
  <2>1. CASE k < n
    <3>1. k + 1 \in 1 .. n
      BY <1>1, <2>1
    <3> QED
      BY <1>2, <1>4, <1>5, <2>1, <3>1
  <2>2. CASE k = n
    BY <1>1, <1>2, <1>4, <2>2
  <2> QED
    BY <1>1, <2>1, <2>2
<1>8. Sent'
  <2>1. \A k \in 1 .. w : k \in 1 .. n /\ wire[k] = accepted[k]
    BY <1>1 DEF TxOK, Sent
  <2> QED
    BY <1>2, <2>1 DEF Sent
<1> QED
  BY <1>2, <1>6, <1>7, <1>8

\* A send with interrupts off, as from the timer.
LEMMA SendAtOnceOK == ASSUME NicIInv, SendAtOnce PROVE NicIInv'
<1> USE NicConstants
<1>0. NicTypes /\ RxOK /\ (~overlapped => TxOK) /\ NicTypeOK
  BY DEF NicIInv, NicTypes
<1>1. /\ overlapped' = (overlapped \/ pc # "idle") /\ offered' = offered + 1
      /\ UNCHANGED <<g_e1000_active, tdh, pc, idx, wire>> /\ UNCHANGED rxVars
  BY DEF SendAtOnce
<1>2. offered' \in 1 .. MaxSent /\ offered' \in 0 .. MaxSent /\ offered' \in Nat
      /\ arrived' = arrived
      /\ polled' = polled
  BY <1>0, <1>1 DEF SendAtOnce, NicTypes, rxVars
<1>3. RxOK'
  BY <1>0, <1>1, RxStays
<1>4. overlapped' \in BOOLEAN
  BY <1>1
<1>5. CASE Free(g_tx_cur)
  <2>1. /\ Fill(g_tx_cur, offered') /\ Advance /\ accepted' = Append(accepted, offered')
        /\ tx[g_tx_cur].status = 1
    BY <1>5 DEF SendAtOnce, Free
  <2>2. accepted' \in Seq(Nat)
    BY <1>0, <1>2, <2>1, AppendProperties DEF NicTypes
  <2>3. NicTypeOK'
    <3>1. tx' \in [TxIds -> [status : {0, 1}, pkt : 0 .. MaxSent]]
      BY <1>0, <1>2, <2>1, FillType DEF NicTypeOK
    <3> QED
      BY <1>0, <1>1, <2>1, <3>1, AdvanceType DEF NicTypeOK, rxVars
  <2>4. NicTypes'
    <3>1. offered' # 0 /\ arrived' \in 0 .. MaxReceived
      BY <1>0, <1>2 DEF NicTypes
    <3> QED
      BY <1>0, <1>1, <1>2, <1>4, <2>2, <2>3, <3>1 DEF NicTypes
  <2>5. ASSUME ~overlapped' PROVE TxOK'
    <3>1. pc = "idle" /\ TxOK /\ Handed = Len(accepted)
      BY <1>0, <1>1, <2>5 DEF Handed
    <3>2. /\ Pending' /\ Sent' /\ Len(accepted') = Len(accepted) + 1
          /\ Len(accepted') <= Len(wire) + NTX
      BY <1>0, <1>1, <1>2, <2>1, <3>1, FillKeeps
    <3>3. Len(accepted) \in Nat /\ Len(wire) \in Nat /\ Len(wire) <= Len(accepted)
          /\ g_tx_cur = Len(accepted) % NTX /\ tdh = Len(wire) % NTX
      BY <1>0, <3>1 DEF NicTypes, TxOK, TxIndices
    <3>4. Handed' = Len(accepted) + 1
      BY <1>1, <3>1, <3>2 DEF Handed
    <3>5. g_tx_cur' = Handed' % NTX /\ tdt' = Handed' % NTX
      BY <2>1, <3>3, <3>4, NextIndex DEF Advance, NTX
    <3>6. Len(wire') <= Handed' /\ Len(accepted') <= Len(wire') + NTX /\ Handed' \in Nat
      BY <1>1, <3>2, <3>3, <3>4
    <3> QED
      BY <1>1, <3>1, <3>2, <3>3, <3>5, <3>6 DEF TxOK, TxIndices
  <2> QED
    BY <1>3, <2>4, <2>5 DEF NicIInv
<1>6. CASE ~Free(g_tx_cur)
  <2>1. UNCHANGED <<tx, g_tx_cur, tdt, accepted>>
    BY <1>6 DEF SendAtOnce
  <2>2. NicTypes'
    <3>1. NicTypeOK'
      BY <1>0, <1>1, <2>1 DEF NicTypeOK, rxVars
    <3>2. offered' # 0 /\ arrived' \in 0 .. MaxReceived
      BY <1>0, <1>2 DEF NicTypes
    <3> QED
      BY <1>0, <1>1, <1>2, <1>4, <2>1, <3>1, <3>2 DEF NicTypes
  <2>3. ~overlapped' => TxOK'
    BY <1>0, <1>1, <2>1, TxStays
  <2> QED
    BY <1>3, <2>2, <2>3 DEF NicIInv
<1> QED
  BY <1>5, <1>6

\* The steps of an interruptible send that only look.
LEMMA SendPrepares ==
  ASSUME NicIInv, SendBegin \/ SendWaited \/ SendFull PROVE NicIInv'
<1> USE NicConstants
<1>0. NicTypes /\ RxOK /\ (~overlapped => TxOK) /\ NicTypeOK
  BY DEF NicIInv, NicTypes
<1>1. /\ UNCHANGED <<g_e1000_active, tx, g_tx_cur, tdh, tdt, offered, accepted, wire, overlapped>>
      /\ UNCHANGED rxVars /\ idx' \in {idx, g_tx_cur} /\ pc' \in {"idle", "wait", "fill"}
         /\ pc # "tail"
      /\ (pc' # "idle" => idx' = g_tx_cur \/ (pc # "idle" /\ idx' = idx))
      /\ (pc' = "fill" => idx' = idx /\ tx[idx].status = 1)
  BY DEF SendBegin, SendWaited, SendFull, txVars, Free
<1>2. RxOK'
  BY <1>0, <1>1, RxStays
<1>3. NicTypes'
  <2>1. NicTypeOK'
    BY <1>0, <1>1 DEF NicTypeOK, rxVars
  <2> QED
    BY <1>0, <1>1, <2>1 DEF NicTypes, rxVars
<1>4. ASSUME ~overlapped' PROVE TxOK'
  <2>1. TxOK
    BY <1>0, <1>1, <1>4
  <2>2. Handed' = Handed
    BY <1>1 DEF Handed
  <2>3. TxIndices'
    BY <1>1, <2>1, <2>2 DEF TxOK, TxIndices
  <2> QED
    BY <1>1, <2>1, <2>3 DEF TxOK, Pending, Sent
<1> QED
  BY <1>2, <1>3, <1>4 DEF NicIInv

\* The descriptor is filled.
LEMMA SendFillOK == ASSUME NicIInv, SendFill PROVE NicIInv'
<1> USE NicConstants
<1>0. NicTypes /\ RxOK /\ (~overlapped => TxOK) /\ NicTypeOK
  BY DEF NicIInv, NicTypes
<1>1. /\ pc = "fill" /\ offered' = offered + 1 /\ Fill(idx, offered') /\ pc' = "tail"
      /\ accepted' = Append(accepted, offered')
      /\ UNCHANGED <<g_e1000_active, g_tx_cur, tdh, tdt, idx, wire, overlapped>> /\ UNCHANGED rxVars
  BY DEF SendFill
<1>2. offered' \in 0 .. MaxSent /\ offered' \in Nat /\ offered' # 0 /\ arrived' = arrived
      /\ polled' = polled
  BY <1>0, <1>1 DEF SendFill, NicTypes, rxVars
<1>3. RxOK'
  BY <1>0, <1>1, RxStays
<1>4. accepted' \in Seq(Nat)
  BY <1>0, <1>1, <1>2, AppendProperties DEF NicTypes
<1>5. NicTypes'
  <2>1. tx' \in [TxIds -> [status : {0, 1}, pkt : 0 .. MaxSent]]
    BY <1>0, <1>1, <1>2, FillType DEF NicTypeOK
  <2>2. NicTypeOK'
    BY <1>0, <1>1, <2>1 DEF NicTypeOK, rxVars
  <2> QED
    BY <1>0, <1>1, <1>2, <1>4, <2>2 DEF NicTypes
<1>6. ASSUME ~overlapped' PROVE TxOK'
  <2>1. TxOK /\ Handed = Len(accepted) /\ idx = g_tx_cur /\ tx[g_tx_cur].status = 1
    BY <1>0, <1>1, <1>6 DEF Handed, TxOK, TxIndices
  <2>2. /\ Pending' /\ Sent' /\ Len(accepted') = Len(accepted) + 1
        /\ Len(accepted') <= Len(wire) + NTX
    BY <1>0, <1>1, <1>2, <2>1, FillKeeps
  <2>3. Len(accepted) \in Nat
    BY <1>0 DEF NicTypes
  <2>4. Handed' = Handed
    BY <1>1, <2>1, <2>2, <2>3 DEF Handed
  <2>5. TxIndices'
    BY <1>1, <2>1, <2>2, <2>4 DEF TxOK, TxIndices
  <2> QED
    BY <2>2, <2>5 DEF TxOK
<1> QED
  BY <1>3, <1>5, <1>6 DEF NicIInv

\* The tail is written and the index moved on.
LEMMA SendTailOK == ASSUME NicIInv, SendTail PROVE NicIInv'
<1> USE NicConstants
<1>0. NicTypes /\ RxOK /\ (~overlapped => TxOK) /\ NicTypeOK
  BY DEF NicIInv, NicTypes
<1>1. /\ pc = "tail" /\ Advance /\ pc' = "idle" /\ UNCHANGED rxVars
      /\ UNCHANGED <<g_e1000_active, tx, tdh, idx, offered, accepted, wire, overlapped>>
  BY DEF SendTail
<1>2. RxOK'
  BY <1>0, <1>1, RxStays
<1>3. NicTypes'
  <2>1. NicTypeOK'
    BY <1>0, <1>1, AdvanceType DEF NicTypeOK, rxVars
  <2> QED
    BY <1>0, <1>1, <2>1 DEF NicTypes, rxVars
<1>4. ASSUME ~overlapped' PROVE TxOK'
  <2>1. TxOK /\ Handed = Len(accepted) - 1 /\ Handed \in Nat
    BY <1>0, <1>1, <1>4 DEF Handed, TxOK, TxIndices
  <2>2. Handed' = Handed + 1 /\ Len(wire) \in Nat
    BY <1>0, <1>1, <2>1 DEF Handed, NicTypes
  <2>3. g_tx_cur' = Handed' % NTX /\ tdt' = Handed' % NTX
    <3>1. g_tx_cur = Handed % NTX
      BY <2>1 DEF TxOK, TxIndices
    <3> QED
      BY <1>1, <2>1, <2>2, <3>1, NextIndex DEF Advance, NTX
  <2>4. TxIndices'
    BY <1>1, <2>1, <2>2, <2>3 DEF TxOK, TxIndices
  <2> QED
    BY <1>1, <2>1, <2>4 DEF TxOK, Pending, Sent
<1> QED
  BY <1>2, <1>3, <1>4 DEF NicIInv

\* The controller puts a packet on the wire.
LEMMA TransmitOK == ASSUME NicIInv, Transmit PROVE NicIInv'
<1> USE NicConstants
<1>0. NicTypes /\ RxOK /\ (~overlapped => TxOK) /\ NicTypeOK
  BY DEF NicIInv, NicTypes
<1>1. /\ tdh # tdt /\ wire' = Append(wire, tx[tdh].pkt) /\ tx' = [tx EXCEPT ![tdh].status = 1]
      /\ tdh' = (tdh + 1) % NTX /\ UNCHANGED rxVars
      /\ UNCHANGED <<g_e1000_active, g_tx_cur, tdt, pc, idx, offered, accepted, overlapped>>
  BY DEF Transmit, NTX
<1>2. RxOK'
  BY <1>0, <1>1, RxStays
<1>3. tx \in [TxIds -> [status : {0, 1}, pkt : 0 .. MaxSent]] /\ tdh \in TxIds
      /\ tx[tdh].pkt \in Nat
      /\ tdh \in Nat
  BY <1>0 DEF NicTypeOK
<1>4. /\ tx' \in [TxIds -> [status : {0, 1}, pkt : 0 .. MaxSent]]
      /\ tx'[tdh].status = 1 /\ \A i \in TxIds : i # tdh => tx'[i] = tx[i]
  <2>1. [tx[tdh] EXCEPT !.status = 1] \in [status : {0, 1}, pkt : 0 .. MaxSent]
        /\ [tx[tdh] EXCEPT !.status = 1].status = 1
    BY <1>3
  <2>2. tx' = [tx EXCEPT ![tdh] = [tx[tdh] EXCEPT !.status = 1]]
    BY <1>1
  <2> QED
    BY <1>3, <2>1, <2>2
<1>5. tdh' \in TxIds
  <2>1. tdh + 1 \in Nat
    BY <1>3
  <2> QED
    BY <1>1, <2>1, Slot
<1>6. /\ wire' \in Seq(Nat) /\ Len(wire') = Len(wire) + 1 /\ wire'[Len(wire) + 1] = tx[tdh].pkt
      /\ \A k \in 1 .. Len(wire) : wire'[k] = wire[k]
  BY <1>0, <1>1, <1>3, AppendProperties DEF NicTypes
<1>7. NicTypes'
  <2>1. NicTypeOK'
    BY <1>0, <1>1, <1>4, <1>5 DEF NicTypeOK, rxVars
  <2> QED
    BY <1>0, <1>1, <1>6, <2>1 DEF NicTypes, rxVars
<1>8. ASSUME ~overlapped' PROVE TxOK'
  <2>1. TxOK
    BY <1>0, <1>1, <1>8
  <2> DEFINE w == Len(wire)
             n == Len(accepted)
  <2>2. /\ w \in Nat /\ n \in Nat /\ Handed \in Nat /\ w <= Handed /\ Handed <= n /\ n <= w + NTX
        /\ tdh = w % NTX /\ tdt = Handed % NTX
    BY <1>0, <2>1 DEF NicTypes, TxOK, TxIndices, Handed
  <2>3. w < Handed
    BY <1>1, <2>2
  <2>4. tx[tdh].pkt = accepted[w + 1]
    <3>1. tx[w % NTX] = [status |-> 0, pkt |-> accepted[w + 1]]
      BY <2>1, <2>2, <2>3 DEF TxOK, Pending
    <3> QED
      BY <2>2, <3>1
  <2>5. TxIndices'
    <3>1. tdh' = (w + 1) % NTX
      BY <1>1, <2>2, NextIndex
    <3>2. Handed' = Handed
      BY <1>1 DEF Handed
    <3>3. pc = "fill" => tx'[idx].status = 1
      <4>1. idx \in TxIds /\ (pc = "fill" => tx[idx].status = 1)
        BY <1>0, <2>1 DEF TxOK, TxIndices, NicTypeOK
      <4> QED
        BY <1>4, <4>1
    <3>4. Len(wire') = w + 1 /\ w + 1 <= Handed /\ n <= w + 1 + NTX
      BY <1>6, <2>2, <2>3
    <3>5. /\ g_tx_cur' = g_tx_cur /\ tdt' = tdt /\ accepted' = accepted /\ pc' = pc /\ idx' = idx
          /\ g_tx_cur = Handed % NTX /\ (pc # "idle" => idx = g_tx_cur)
      BY <1>1, <2>1 DEF TxOK, TxIndices
    <3> HIDE DEF w, n
    <3> QED
      BY <2>2, <3>1, <3>2, <3>3, <3>4, <3>5 DEF TxIndices, n
  <2>6. Pending'
    <3> SUFFICES ASSUME NEW k \in Nat, w + 1 <= k, k < n
                 PROVE  tx'[k % NTX] = [status |-> 0, pkt |-> accepted[k + 1]]
      BY <1>1, <1>6 DEF Pending
    <3>1. tx[k % NTX] = [status |-> 0, pkt |-> accepted[k + 1]]
      BY <2>1, <2>2 DEF TxOK, Pending
    <3>2. w % NTX # k % NTX
      <4>1. w \in Nat /\ k \in Nat /\ w < k /\ k - w < NTX /\ NTX \in Nat /\ NTX > 0
        BY <2>2
      <4> QED
        BY ONLY <4>1, ModApart
    <3> QED
      BY <1>4, <2>2, <3>1, <3>2, Slot
  <2>7. Sent'
    <3> SUFFICES ASSUME NEW k \in 1 .. w + 1 PROVE wire'[k] = accepted[k]
      BY <1>1, <1>6 DEF Sent
    <3>1. CASE k \in 1 .. w
      BY <1>6, <2>1, <3>1 DEF TxOK, Sent
    <3>2. CASE k = w + 1
      BY <1>6, <2>4, <3>2
    <3> QED
      BY <2>2, <3>1, <3>2
  <2> QED
    BY <2>5, <2>6, <2>7 DEF TxOK
<1> QED
  BY <1>2, <1>7, <1>8 DEF NicIInv

----------------------------------------------------------------------------
(* Starting, stopping and receiving.                                        *)

\* e1000_init sets both rings up.
LEMMA e1000InitOK == ASSUME NicIInv, e1000_init PROVE NicIInv'
<1> USE NicConstants
<1>0. NicTypes /\ RxOK /\ TxOK /\ NicTypeOK /\ accepted = <<>> /\ wire = <<>> /\ arrived = 0
      /\ pc # "tail"
  BY DEF NicIInv, NicTypes, e1000_init
<1>1. /\ tx' = FreshTx /\ g_tx_cur' = 0 /\ tdh' = 0 /\ tdt' = 0
      /\ rx' = FreshRx /\ g_rx_cur' = 0 /\ rdh' = 0 /\ rdt' = NRX - 1
      /\ UNCHANGED <<pc, idx, offered, accepted, wire, arrived, polled, overlapped>>
  BY DEF e1000_init, NRX
<1>2. Len(<<>>) = 0 /\ 0 % NTX = 0 /\ 0 % NRX = 0 /\ (NRX - 1) % NRX = NRX - 1
  BY ZeroMod
<1>3. Len(polled) = 0 /\ idx \in TxIds
  <2>1. Len(polled) \in Nat /\ Len(polled) <= 0
    BY <1>0 DEF NicTypes, RxOK, RxIndices
  <2> QED
    BY <1>0, <2>1 DEF NicTypeOK
<1>4. NicTypes'
  <2>1. FreshTx \in [TxIds -> [status : {0, 1}, pkt : 0 .. MaxSent]]
        /\ FreshRx \in [RxIds -> [status : {0, 1}, pkt : 0 .. MaxReceived]]
    BY DEF FreshTx, FreshRx, NoPacket
  <2>2. 0 \in TxIds /\ 0 \in RxIds /\ NRX - 1 \in RxIds
    OBVIOUS
  <2>3. NicTypeOK'
    BY <1>0, <1>1, <2>1, <2>2 DEF NicTypeOK
  <2> QED
    BY <1>0, <1>1, <2>3 DEF NicTypes
<1>5. TxOK'
  <2>1. \A i \in TxIds : FreshTx[i].status = 1
    BY DEF FreshTx
  <2>2. g_tx_cur = 0
    BY <1>0, <1>2 DEF TxOK, TxIndices, Handed
  <2>3. Handed' = 0
    BY <1>0, <1>1, <1>2 DEF Handed
  <2>4. TxIndices'
    BY <1>0, <1>1, <1>2, <1>3, <2>1, <2>2, <2>3 DEF TxOK, TxIndices
  <2> QED
    BY <1>0, <1>1, <1>2, <2>4 DEF TxOK, Pending, Sent
<1>6. RxOK'
  <2>1. \A i \in RxIds : FreshRx[i].status = 0
    BY DEF FreshRx
  <2>2. RxIndices'
    <3>1. (0 + (NRX - 1)) % NRX = NRX - 1
      BY <1>2
    <3> QED
      BY <1>0, <1>1, <1>2, <1>3, <3>1 DEF RxIndices
  <2> QED
    BY <1>0, <1>1, <1>3, <2>1, <2>2 DEF RxOK, Waiting, Numbered
<1> QED
  BY <1>4, <1>5, <1>6 DEF NicIInv

\* e1000_disable.
LEMMA DisableOK == ASSUME NicIInv, e1000_disable PROVE NicIInv'
<1>0. NicTypes /\ RxOK /\ (~overlapped => TxOK) /\ NicTypeOK
  BY DEF NicIInv, NicTypes
<1>1. ~g_e1000_active' /\ UNCHANGED rxVars
      /\ UNCHANGED <<tx, g_tx_cur, tdh, tdt, pc, idx, offered, accepted, wire, overlapped>>
  BY DEF e1000_disable, txVars
<1>2. RxOK' /\ (~overlapped' => TxOK')
  BY <1>0, <1>1, RxStays, TxStays
<1>3. NicTypes'
  <2>1. NicTypeOK'
    BY <1>0, <1>1 DEF NicTypeOK, rxVars
  <2> QED
    BY <1>0, <1>1, <2>1 DEF NicTypes, rxVars
<1> QED
  BY <1>2, <1>3 DEF NicIInv

\* e1000_poll_packet takes a packet and gives the descriptor back.
LEMMA PollOK == ASSUME NicIInv, e1000_poll_packet PROVE NicIInv'
<1> USE NicConstants
<1> DEFINE q == Len(polled)
<1>0. NicTypes /\ RxOK /\ (~overlapped => TxOK) /\ NicTypeOK
  BY DEF NicIInv, NicTypes
<1>1. /\ g_e1000_active /\ rx[g_rx_cur].status = 1 /\ polled' = Append(polled, rx[g_rx_cur].pkt)
      /\ rx' = Emptied(g_rx_cur) /\ g_rx_cur' = (g_rx_cur + 1) % NRX /\ rdt' = g_rx_cur
      /\ UNCHANGED <<g_e1000_active, tx, g_tx_cur, tdh, tdt, rdh, pc, idx, offered, accepted,
                     wire, arrived, overlapped>>
  BY DEF e1000_poll_packet, NRX, txVars
<1>2. /\ q \in Nat /\ arrived \in Nat /\ q <= arrived /\ arrived < q + NRX /\ g_rx_cur = q % NRX
      /\ g_rx_cur \in RxIds /\ rx \in [RxIds -> [status : {0, 1}, pkt : 0 .. MaxReceived]]
  <2>1. q \in Nat /\ arrived \in Nat
    BY <1>0 DEF NicTypes
  <2> QED
    BY <1>0, <2>1 DEF NicTypeOK, RxOK, RxIndices
<1>3. q < arrived
  <2>1. PICK k \in Nat : q <= k /\ k < arrived
    BY <1>0, <1>1, <1>2 DEF RxOK, Waiting
  <2> QED
    BY <1>2, <2>1
<1>4. rx[g_rx_cur].pkt = q + 1
  <2>1. rx[q % NRX] = [status |-> 1, pkt |-> q + 1]
    BY <1>0, <1>2, <1>3 DEF RxOK, Waiting
  <2> QED
    BY <1>2, <2>1
<1>5. /\ polled' \in Seq(Nat) /\ Len(polled') = q + 1 /\ polled'[q + 1] = q + 1
      /\ \A k \in 1 .. q : polled'[k] = polled[k]
  <2>1. polled \in Seq(Nat) /\ q + 1 \in Nat /\ polled' = Append(polled, q + 1)
    BY <1>0, <1>1, <1>2, <1>4 DEF NicTypes
  <2> QED
    BY <2>1, AppendProperties
<1>6. /\ rx' \in [RxIds -> [status : {0, 1}, pkt : 0 .. MaxReceived]]
      /\ rx'[g_rx_cur].status = 0 /\ \A i \in RxIds : i # g_rx_cur => rx'[i] = rx[i]
  <2>1. [rx[g_rx_cur] EXCEPT !.status = 0] \in [status : {0, 1}, pkt : 0 .. MaxReceived]
        /\ [rx[g_rx_cur] EXCEPT !.status = 0].status = 0
    BY <1>2
  <2>2. rx' = [rx EXCEPT ![g_rx_cur] = [rx[g_rx_cur] EXCEPT !.status = 0]]
    BY <1>1 DEF Emptied
  <2> QED
    BY <1>2, <2>1, <2>2
<1>7. g_rx_cur' = (q + 1) % NRX /\ g_rx_cur' \in RxIds
  <2>1. g_rx_cur' = (q + 1) % NRX
    BY <1>1, <1>2, NextIndex
  <2>2. q + 1 \in Nat
    BY <1>2
  <2> QED
    BY <2>1, <2>2, Slot
<1>8. NicTypes' /\ (~overlapped' => TxOK')
  <2>1. NicTypeOK'
    BY <1>0, <1>1, <1>2, <1>6, <1>7 DEF NicTypeOK
  <2>2. NicTypes'
    BY <1>0, <1>1, <1>5, <2>1 DEF NicTypes
  <2> QED
    BY <1>0, <1>1, <2>2, TxStays
<1> HIDE DEF q
<1>9. RxIndices'
  <2>1. (q + 1) + (NRX - 1) = q + NRX
    BY <1>2
  <2>2. rdt' = ((q + 1) + (NRX - 1)) % NRX
    BY <1>1, <1>2, <2>1, FullTurn
  <2>3. q + 1 <= arrived /\ arrived < q + 1 + NRX
    BY <1>2, <1>3
  <2> QED
    BY <1>0, <1>1, <1>5, <1>7, <2>2, <2>3 DEF RxOK, RxIndices
<1>10. Waiting'
  <2>1. ASSUME NEW k \in Nat, q + 1 <= k, k < arrived
        PROVE  rx'[k % NRX] = [status |-> 1, pkt |-> k + 1]
    <3>1. q < k /\ k - q < NRX /\ q <= k /\ q \in Nat /\ NRX \in Nat /\ NRX > 0
      BY <1>2, <2>1
    <3>2. q % NRX # k % NRX
      BY ONLY k \in Nat, <3>1, ModApart
    <3>3. rx[k % NRX] = [status |-> 1, pkt |-> k + 1]
      BY <1>0, <2>1, <3>1 DEF RxOK, Waiting, q
    <3> QED
      BY <1>2, <1>6, <3>2, <3>3, Slot
  <2>2. ASSUME NEW i \in RxIds, rx'[i].status = 1
        PROVE  \E k \in Nat : q + 1 <= k /\ k < arrived /\ i = k % NRX
    <3>1. i # g_rx_cur /\ rx[i].status = 1
      BY <1>6, <2>2
    <3>2. PICK k \in Nat : q <= k /\ k < arrived /\ i = k % NRX
      BY <1>0, <3>1 DEF RxOK, Waiting, q
    <3>3. k # q
      BY <1>2, <3>1, <3>2
    <3>4. q + 1 <= k
      BY <1>2, <3>2, <3>3
    <3> QED
      BY <3>2, <3>4
  <2> QED
    BY <1>1, <1>5, <2>1, <2>2 DEF Waiting
<1>11. Numbered'
  <2> SUFFICES ASSUME NEW k \in 1 .. q + 1 PROVE polled'[k] = k
    BY <1>5 DEF Numbered
  <2>1. CASE k \in 1 .. q
    BY <1>0, <1>5, <2>1 DEF RxOK, Numbered, q
  <2>2. CASE k = q + 1
    BY <1>5, <2>2
  <2> QED
    BY <1>2, <2>1, <2>2
<1> QED
  BY <1>8, <1>9, <1>10, <1>11 DEF NicIInv, RxOK

\* The controller stores a packet.
LEMMA ReceiveOK == ASSUME NicIInv, Receive PROVE NicIInv'
<1> USE NicConstants
<1> DEFINE q == Len(polled)
           pk == [status |-> 1, pkt |-> arrived + 1]
<1>0. NicTypes /\ RxOK /\ (~overlapped => TxOK) /\ NicTypeOK
  BY DEF NicIInv, NicTypes
<1>1. /\ g_e1000_active /\ rdh # rdt /\ arrived < MaxReceived /\ arrived' = arrived + 1
      /\ rx' = [rx EXCEPT ![rdh] = pk] /\ rdh' = (rdh + 1) % NRX
      /\ UNCHANGED <<g_e1000_active, tx, g_tx_cur, tdh, tdt, g_rx_cur, rdt, pc, idx, offered,
                     accepted, wire, polled, overlapped>>
  BY DEF Receive, NRX, txVars
<1>2. /\ q \in Nat /\ arrived \in Nat /\ q <= arrived /\ arrived < q + NRX /\ rdh = arrived % NRX
      /\ rdh \in RxIds /\ rx \in [RxIds -> [status : {0, 1}, pkt : 0 .. MaxReceived]]
      /\ rdt = (q + (NRX - 1)) % NRX
  <2>1. q \in Nat /\ arrived \in Nat
    BY <1>0 DEF NicTypes
  <2> QED
    BY <1>0, <1>1, <2>1 DEF NicTypeOK, RxOK, RxIndices
<1>3. arrived + 1 < q + NRX
  <2>1. arrived # q + (NRX - 1)
    BY <1>1, <1>2
  <2>2. \A x, y \in Int : x < y + NRX /\ x # y + (NRX - 1) => x + 1 < y + NRX
    OBVIOUS
  <2> QED
    <3>1. arrived \in Int /\ q \in Int /\ arrived < q + NRX
      BY <1>2
    <3> HIDE DEF q
    <3> QED
      BY <2>1, <2>2, <3>1, Zenon
<1>4. /\ rx' \in [RxIds -> [status : {0, 1}, pkt : 0 .. MaxReceived]]
      /\ rx'[rdh] = pk /\ \A i \in RxIds : i # rdh => rx'[i] = rx[i]
  <2>1. pk \in [status : {0, 1}, pkt : 0 .. MaxReceived]
    BY <1>1, <1>2
  <2> QED
    BY <1>1, <1>2, <2>1
<1>5. rdh' = (arrived + 1) % NRX /\ rdh' \in RxIds
  <2>1. rdh' = (arrived + 1) % NRX
    BY <1>1, <1>2, NextIndex
  <2>2. arrived + 1 \in Nat
    BY <1>2
  <2> QED
    BY <2>1, <2>2, Slot
<1>6. NicTypes' /\ (~overlapped' => TxOK')
  <2>1. NicTypeOK'
    BY <1>0, <1>1, <1>4, <1>5 DEF NicTypeOK
  <2>2. arrived' \in 0 .. MaxReceived
    BY <1>1, <1>2
  <2>3. NicTypes'
    BY <1>0, <1>1, <2>1, <2>2 DEF NicTypes
  <2> QED
    BY <1>0, <1>1, <2>3, TxStays
<1>7. RxIndices'
  <2>1. q <= arrived + 1
    BY <1>2
  <2> QED
    BY <1>0, <1>1, <1>2, <1>3, <1>5, <2>1 DEF RxOK, RxIndices
<1>8. Waiting'
  <2>1. ASSUME NEW k \in Nat, q <= k, k < arrived + 1
        PROVE  rx'[k % NRX] = [status |-> 1, pkt |-> k + 1]
    <3>1. CASE k = arrived
      BY <1>2, <1>4, <3>1
    <3>2. CASE k < arrived
      <4>1. rx[k % NRX] = [status |-> 1, pkt |-> k + 1]
        BY <1>0, <2>1, <3>2 DEF RxOK, Waiting
      <4>2. arrived - k < NRX /\ arrived \in Nat /\ NRX \in Nat /\ NRX > 0
        BY <1>2, <2>1
      <4>3. k % NRX # arrived % NRX
        BY ONLY k \in Nat, <3>2, <4>2, ModApart
      <4> QED
        BY <1>2, <1>4, <4>1, <4>3, Slot
    <3> QED
      BY <1>2, <2>1, <3>1, <3>2
  <2>2. ASSUME NEW i \in RxIds, rx'[i].status = 1
        PROVE  \E k \in Nat : q <= k /\ k < arrived + 1 /\ i = k % NRX
    <3>1. CASE i = rdh
      <4>1. q <= arrived /\ arrived < arrived + 1
        BY <1>2
      <4> QED
        BY <1>2, <3>1, <4>1
    <3>2. CASE i # rdh
      <4>1. PICK k \in Nat : q <= k /\ k < arrived /\ i = k % NRX
        BY <1>0, <1>4, <2>2, <3>2 DEF RxOK, Waiting
      <4>2. k < arrived + 1
        BY <1>2, <4>1
      <4> QED
        BY <4>1, <4>2
    <3> QED
      BY <3>1, <3>2
  <2> QED
    BY <1>1, <2>1, <2>2 DEF Waiting
<1>9. Numbered'
  BY <1>0, <1>1 DEF RxOK, Numbered
<1> QED
  BY <1>6, <1>7, <1>8, <1>9 DEF NicIInv, RxOK

\* Every step keeps the invariant.
LEMMA NicStep == NicIInv /\ [NicNext]_nicVars => NicIInv'
<1>1. ASSUME NicIInv, UNCHANGED nicVars PROVE NicIInv'
  BY <1>1 DEF nicVars, NicIInv, NicTypes, NicTypeOK, TxOK, TxIndices, Handed, Pending, Sent,
              RxOK, RxIndices, Waiting, Numbered
<1>2. ASSUME NicIInv, Sending PROVE NicIInv'
  BY <1>2, SendAtOnceOK, SendPrepares, SendFillOK, SendTailOK DEF Sending
<1> QED
  BY <1>1, <1>2, e1000InitOK, PollOK, DisableOK, TransmitOK, ReceiveOK DEF NicNext

\* Packets go out once and in order as long as no send interrupts another, and come in
\* once and in order, for rings of any length and any lag of the controller
\* (e1000_send_packet, e1000_poll_packet).
THEOREM NicSafe == NicSpec => []NicInv
BY NicInitOK, NicStep, NicIInvImplies, PTL DEF NicSpec

----------------------------------------------------------------------------
(* Circuit keys and padding.                                                *)

\* What is remembered lies in the past.
Past == made \in 0 .. ticks /\ padded \in 0 .. ticks /\ timer_rot \in 0 .. ticks
        /\ began \in 0 .. ticks /\ ticks <= MaxTicks

\* The tick of the last rotation, read modulo the width of its field, is no later than the
\* tick after the keys were made (tor_tick).
KeyClock ==
  established =>
    /\ last_rotation_ticks # 0 => last_rotation_ticks <= made + 1
    /\ last_rotation_ticks = 0 => \/ ticks = made
                                  \/ ticks = made + 1 /\ ticks % (2 ^ WIDTH) = 0

\* What the refused packets allow.
Allowed == PadTicks * refused

\* The last padding the code remembers is no later than the last that went out and an
\* interval for each one refused since.
PadClock == nic_active => g_last_padding_ticks <= padded + Allowed

\* No nonce was used with a later key, or with the present key and a later cell counter.
NonceHistory ==
  /\ nonces \in Seq(Nat \X CircuitIds \X Nat)
  /\ \A i \in DOMAIN nonces :
       /\ nonces[i][1] <= keys
       /\ nonces[i][1] = keys => nonces[i][3] <= g_tor_cells_sent

\* The inductive invariant: TorInv with the clocks and the history its parts rest on.
TorIInv == TorInv /\ Past /\ KeyClock /\ PadClock /\ NonceHistory

\* With it, what the timer rotated last is what the code remembers.
TimerClock == TorIInv /\ timer_rot \in {0, last_rotation_ticks}

\* The named assumption in the form the proofs use.
LEMMA TorConstants ==
  /\ RotateTicks \in Nat /\ RotateTicks > 0 /\ PadTicks \in Nat /\ PadTicks > 0
  /\ BoostTicks \in Nat /\ BoostTicks <= PadTicks /\ MaxTicks \in Nat
  /\ 2 ^ WIDTH \in Nat /\ 2 ^ WIDTH > 1
BY TorAssumption

\* Every refused packet allows an interval more.
LEMMA AllowedOK ==
  ASSUME NEW n \in Nat
  PROVE  /\ PadTicks * n \in Nat /\ PadTicks * 0 = 0
         /\ PadTicks * (n + 1) = PadTicks * n + PadTicks
<1>1. PadTicks \in Nat
  BY TorConstants
<1> QED
  BY ONLY <1>1, n \in Nat

\* The tick field keeps a tick modulo its width.
LEMMA Residue ==
  ASSUME NEW x \in Nat, NEW w \in Nat, w > 1
  PROVE  /\ x % w \in 0 .. w - 1 /\ x % w <= x
         /\ x % w = 0 => (x + 1) % w = 1
         /\ x < w => x % w = x
OBVIOUS

\* The initial state satisfies both invariants.
LEMMA TorInitOK == TorInit => TorIInv /\ TimerClock
<1> SUFFICES ASSUME TorInit PROVE TorIInv
  BY DEF TorInit, TimerClock
<1> USE TorConstants DEF TorInit
<1>1. nonces \in Seq(Nat \X CircuitIds \X Nat) /\ DOMAIN nonces = {}
  OBVIOUS
<1>2. TorTypeOK /\ KeysYoung /\ PaddingSteady /\ BoostCovers /\ NonceFresh
  <2>1. {nic_active, g_padding_boost_active, established} \subseteq BOOLEAN
    OBVIOUS
  <2>2. TorTypeOK
    BY <2>1 DEF TorTypeOK
  <2> QED
    BY <1>1, <2>2 DEF KeysYoung, PaddingSteady, BoostCovers, NonceFresh
<1> QED
  BY <1>1, <1>2 DEF TorIInv, TorInv, Past, KeyClock, PadClock, NonceHistory

\* A step that leaves the cells alone and does not take keys back.
LEMMA NoncesKept ==
  ASSUME NonceHistory, NonceFresh, keys \in Nat, g_tor_cells_sent \in Nat, UNCHANGED nonces,
         \/ keys' = keys /\ g_tor_cells_sent' = g_tor_cells_sent
         \/ keys' = keys + 1
  PROVE  NonceHistory' /\ NonceFresh'
<1>1. NonceFresh'
  BY DEF NonceFresh
<1>2. ASSUME NEW i \in DOMAIN nonces
      PROVE  nonces[i][1] <= keys' /\ (nonces[i][1] = keys' => nonces[i][3] <= g_tor_cells_sent')
  <2>1. nonces[i][1] \in Nat /\ nonces[i][1] <= keys
    BY DEF NonceHistory
  <2> QED
    BY <2>1 DEF NonceHistory
<1> QED
  BY <1>1, <1>2 DEF NonceHistory

\* tor_send_cell uses the next nonce of the key.
LEMMA CellOK == ASSUME TorIInv, tor_send_cell PROVE TorIInv'
<1> USE DEF TorIInv, TorInv
<1>1. keys \in Nat /\ g_tor_cells_sent \in Nat /\ circuit_id \in CircuitIds
  BY DEF TorTypeOK
<1>2. /\ nonces' = Append(nonces, Nonce) /\ keys' = keys
      /\ g_tor_cells_sent' = g_tor_cells_sent + 1
  BY DEF tor_send_cell, CellsAfter
<1> DEFINE S == Nat \X CircuitIds \X Nat
           n == Len(nonces)
<1>3. Nonce \in S /\ Nonce[1] = keys /\ Nonce[3] = g_tor_cells_sent + 1
  BY <1>1 DEF Nonce
<1>4. nonces \in Seq(S) /\ n \in Nat /\ DOMAIN nonces = 1 .. n
  BY DEF NonceHistory
<1> HIDE DEF S
<1>5. /\ nonces' \in Seq(S) /\ Len(nonces') = n + 1 /\ DOMAIN nonces' = 1 .. n + 1
      /\ \A i \in 1 .. n : nonces'[i] = nonces[i]
      /\ nonces'[n + 1] = Nonce
  BY <1>2, <1>3, <1>4, AppendProperties, LenProperties
<1>6. \A i \in 1 .. n : nonces[i] # Nonce /\ nonces[i][1] <= keys
                        /\ (nonces[i][1] = keys => nonces[i][3] <= g_tor_cells_sent)
                        /\ nonces[i][1] \in Nat /\ nonces[i][3] \in Nat
  <2> SUFFICES ASSUME NEW i \in 1 .. n
               PROVE  nonces[i] # Nonce /\ nonces[i][1] <= keys
                        /\ (nonces[i][1] = keys => nonces[i][3] <= g_tor_cells_sent)
                        /\ nonces[i][1] \in Nat /\ nonces[i][3] \in Nat
    OBVIOUS
  <2>1. nonces[i] \in S
    BY <1>4
  <2>2. nonces[i][1] \in Nat /\ nonces[i][3] \in Nat
    BY <2>1 DEF S
  <2>3. nonces[i][1] <= keys /\ (nonces[i][1] = keys => nonces[i][3] <= g_tor_cells_sent)
    BY <1>4 DEF NonceHistory
  <2> QED
    BY <1>1, <1>3, <2>2, <2>3
<1> DEFINE N(i) == nonces'[i][1] <= keys
                   /\ (nonces'[i][1] = keys => nonces'[i][3] <= g_tor_cells_sent + 1)
<1>7. \A i \in 1 .. n + 1 : N(i)
  <2>1. \A i \in 1 .. n : N(i)
    BY <1>1, <1>5, <1>6
  <2>2. N(n + 1)
    BY <1>1, <1>3, <1>5
  <2> QED
    BY <1>4, <2>1, <2>2
<1>8. NonceHistory'
  BY <1>2, <1>5, <1>7 DEF NonceHistory, S
<1>9. NonceFresh'
  <2> SUFFICES ASSUME NEW i \in 1 .. n + 1, NEW j \in 1 .. n + 1, nonces'[i] = nonces'[j]
               PROVE  i = j
    BY <1>5 DEF NonceFresh
  <2>1. CASE i \in 1 .. n /\ j \in 1 .. n
    BY <1>4, <1>5, <2>1 DEF NonceFresh
  <2>2. CASE i \in 1 .. n /\ j = n + 1
    BY <1>5, <1>6, <2>2
  <2>3. CASE j \in 1 .. n /\ i = n + 1
    BY <1>5, <1>6, <2>3
  <2> QED
    BY <1>4, <2>1, <2>2, <2>3
<1> QED
  BY <1>1, <1>2, <1>8, <1>9
     DEF tor_send_cell, TorTypeOK, KeysYoung, PaddingSteady, Past, KeyClock, PadClock,
         Allowed, BoostCovers, padVars

\* tor_init makes the first keys.
LEMMA TorInitCallOK == ASSUME TorIInv, tor_init PROVE TorIInv'
<1> USE TorConstants DEF TorIInv, TorInv
<1>1. NonceHistory' /\ NonceFresh'
  BY NoncesKept DEF tor_init, NewKeys, TorTypeOK
<1>2. TorTypeOK'
  BY DEF TorTypeOK, tor_init, NewKeys, padVars
<1>3. PaddingSteady' /\ PadClock'
  BY DEF tor_init, padVars, PaddingSteady, PadClock, Allowed
<1>4. BoostCovers'
  BY DEF tor_init, padVars, BoostCovers
<1> QED
  BY <1>1, <1>2, <1>3, <1>4 DEF TorTypeOK, tor_init, NewKeys, KeysYoung, Past, KeyClock,
     padVars

\* The interface comes up.
LEMMA StartNicOK == ASSUME TorIInv, StartNic PROVE TorIInv'
<1> USE TorConstants DEF TorIInv, TorInv
<1>1. NonceHistory' /\ NonceFresh'
  BY NoncesKept DEF StartNic, TorTypeOK
<1>2. TorTypeOK'
  <2>1. {nic_active, g_padding_boost_active, established}' \subseteq BOOLEAN
    BY Zenon DEF TorTypeOK, StartNic
  <2> QED
    BY <2>1 DEF TorTypeOK, StartNic
<1>3. PaddingSteady' /\ PadClock'
  <2>1. PadTicks * 0 = 0 /\ PadTicks * (0 + 1) = PadTicks * 0 + PadTicks
    BY AllowedOK
  <2>2. /\ padded' = ticks /\ ticks' = ticks /\ refused' = 0 /\ g_last_padding_ticks' = 0
        /\ PadTicks' = PadTicks
    BY DEF StartNic
  <2>3. (PadTicks * (refused + 1))' = PadTicks
    BY <2>1, <2>2
  <2>4. Allowed' = 0
    BY <2>1, <2>2 DEF Allowed
  <2> QED
    BY <2>2, <2>3, <2>4 DEF PaddingSteady, PadClock, TorTypeOK
<1> QED
  BY <1>1, <1>2, <1>3 DEF TorTypeOK, StartNic, KeysYoung, BoostCovers, Past, KeyClock

\* A rotation on request, and a dropped circuit.
LEMMA RotateOK ==
  ASSUME TorIInv, RotateBegin \/ RotateKeys \/ RotateEnd \/ DeadReckoning
  PROVE  TorIInv'
<1> USE TorConstants DEF TorIInv, TorInv
<1>1. NonceHistory' /\ NonceFresh'
  BY NoncesKept DEF RotateBegin, RotateKeys, RotateEnd, DeadReckoning, NewKeys, TorTypeOK
<1>2. TorTypeOK'
  <2>1. {nic_active, g_padding_boost_active, established}' \subseteq BOOLEAN
    BY DEF TorTypeOK, RotateBegin, RotateKeys, RotateEnd, EndBoost, DeadReckoning, padVars
  <2> QED
    BY <2>1 DEF TorTypeOK, RotateBegin, RotateKeys, RotateEnd, EndBoost, DeadReckoning, NewKeys,
           padVars
<1>3. KeysYoung' /\ KeyClock' /\ Past'
  BY DEF TorTypeOK, RotateBegin, RotateKeys, RotateEnd, DeadReckoning, NewKeys, padVars,
         KeysYoung, Past, KeyClock
<1>4. PaddingSteady' /\ PadClock'
  BY DEF TorTypeOK, RotateBegin, RotateKeys, RotateEnd, DeadReckoning, padVars, PaddingSteady,
     PadClock, Allowed
<1>5. BoostCovers'
  BY DEF RotateBegin, RotateKeys, RotateEnd, EndBoost, DeadReckoning, NewKeys, padVars, BoostCovers
<1> QED
  BY <1>1, <1>2, <1>3, <1>4, <1>5

\* padding_tick, whether the interface takes the packet or refuses it.
LEMMA PadTickOK ==
  ASSUME TorIInv, ticks' = ticks + 1, nic_active' = nic_active, padding_tick(ticks + 1)
  PROVE  /\ g_last_padding_ticks' \in 0 .. ticks + 1 /\ padded' \in 0 .. ticks + 1
         /\ refused' \in Nat /\ PadClock' /\ PaddingSteady'
<1> DEFINE t == ticks + 1
           a == PadTicks * refused
<1>1. /\ ticks \in Nat /\ refused \in Nat /\ g_last_padding_ticks \in 0 .. ticks
      /\ padded \in 0 .. ticks /\ PadTicks \in Nat /\ PadTicks > 0
      /\ BoostTicks \in Nat /\ BoostTicks <= PadTicks /\ nic_active \in BOOLEAN
  BY TorConstants DEF TorIInv, TorInv, TorTypeOK, Past
<1>2. /\ a \in Nat /\ PadTicks * (refused + 1) = a + PadTicks /\ PadTicks * 0 = 0
      /\ PadTicks * ((refused + 1) + 1) = PadTicks * (refused + 1) + PadTicks
      /\ PadTicks * (0 + 1) = PadTicks * 0 + PadTicks
  <2>1. refused + 1 \in Nat
    BY <1>1
  <2> QED
    BY <1>1, <2>1, AllowedOK
<1>3. nic_active => ticks - padded < a + PadTicks /\ g_last_padding_ticks <= padded + a
  BY <1>2 DEF TorIInv, TorInv, PaddingSteady, PadClock, Allowed
<1> HIDE DEF a
<1>4. CASE nic_active /\ PaddingDue(t) /\ padded' = t /\ refused' = 0
  <2>1. g_last_padding_ticks' = t
    BY <1>4 DEF padding_tick
  <2>2. (PadTicks * (refused + 1))' = PadTicks /\ Allowed' = 0
    <3>1. refused' = 0 /\ PadTicks * 0 = 0 /\ PadTicks * (0 + 1) = PadTicks
      BY <1>1, <1>2, <1>4
    <3>2. (PadTicks * (refused + 1))' = PadTicks * (refused' + 1) /\ Allowed' = PadTicks * refused'
      BY DEF Allowed
    <3> QED
      BY ONLY <3>1, <3>2
  <2> QED
    BY <1>1, <1>4, <2>1, <2>2 DEF PadClock, PaddingSteady
<1>5. CASE nic_active /\ PaddingDue(t) /\ padded' = padded /\ refused' = refused + 1
  <2>1. g_last_padding_ticks' = t
    BY <1>5 DEF padding_tick
  <2>2. (PadTicks * (refused + 1))' = a + PadTicks + PadTicks /\ Allowed' = a + PadTicks
    BY <1>2, <1>5 DEF Allowed
  <2> QED
    BY <1>1, <1>2, <1>3, <1>5, <2>1, <2>2 DEF PadClock, PaddingSteady
<1>6. CASE nic_active /\ ~PaddingDue(t)
  <2>1. UNCHANGED <<g_last_padding_ticks, padded, refused>>
    BY <1>6 DEF padding_tick
  <2>2. t - g_last_padding_ticks < PadTicks
    BY <1>1, <1>6 DEF PaddingDue
  <2>3. (PadTicks * (refused + 1))' = a + PadTicks /\ Allowed' = a
    BY <1>2, <2>1 DEF Allowed, a
  <2> QED
    BY <1>1, <1>2, <1>3, <1>6, <2>1, <2>2, <2>3 DEF PadClock, PaddingSteady
<1>7. CASE ~nic_active
  BY <1>1, <1>7 DEF padding_tick, PadClock, PaddingSteady
<1> QED
  BY <1>4, <1>5, <1>6, <1>7 DEF padding_tick

\* A tick of the timer: rotation and padding when they are due.
LEMMA TickOK == ASSUME TorIInv, Tick PROVE TorIInv'
<1> USE TorConstants DEF TorIInv, TorInv
<1> DEFINE t == ticks + 1
           w == 2 ^ WIDTH
<1>0. /\ ticks \in Nat /\ t \in Nat /\ t <= MaxTicks /\ ticks' = t /\ padding_tick(t) /\ tor_tick(t)
      /\ UNCHANGED <<nic_active, established, g_tor_cells_sent, main, began, nonces, rekeys>>
      /\ made \in Nat /\ made <= ticks /\ last_rotation_ticks \in Nat /\ keys \in Nat
  BY DEF Tick, TorTypeOK, Past
<1>1. t % w \in 0 .. w - 1 /\ t % w <= t /\ (ticks % w = 0 => t % w = 1)
  BY <1>0, Residue
<1>2. /\ g_last_padding_ticks' \in 0 .. t /\ padded' \in 0 .. t /\ refused' \in Nat
      /\ PadClock' /\ PaddingSteady'
  BY <1>0, PadTickOK
<1>3. CASE established /\ last_rotation_ticks = 0
  <2>1. /\ last_rotation_ticks' = t % w
        /\ UNCHANGED <<g_padding_boost_active, circuit_id, keys, made, timer_rot>>
    BY <1>0, <1>3 DEF tor_tick, NoteRotation
  <2>2. NonceHistory' /\ NonceFresh'
    BY <1>0, <2>1, NoncesKept DEF TorTypeOK
  <2>3. TorTypeOK'
    BY <1>0, <1>1, <1>2, <2>1 DEF TorTypeOK
  <2>4. KeyClock' /\ KeysYoung'
    BY <1>0, <1>1, <1>3, <2>1 DEF KeyClock, KeysYoung
  <2>5. BoostCovers'
    BY <1>0, <2>1 DEF BoostCovers, Past
  <2> QED
    BY <1>0, <1>2, <2>1, <2>2, <2>3, <2>4, <2>5 DEF Past
<1>4. CASE established /\ last_rotation_ticks # 0 /\ RotationDue(t)
  <2>1. /\ last_rotation_ticks' = t % w /\ g_padding_boost_active' = FALSE
        /\ keys' = keys + 1 /\ circuit_id' \in CircuitIds /\ made' = t /\ timer_rot' = t
    BY <1>0, <1>4 DEF tor_tick, NoteRotation, NewKeys, EndBoost
  <2>2. NonceHistory' /\ NonceFresh'
    BY <1>0, <2>1, NoncesKept DEF TorTypeOK
  <2>3. TorTypeOK'
    <3>1. {nic_active, g_padding_boost_active, established}' \subseteq BOOLEAN
      BY <1>0, <2>1 DEF TorTypeOK
    <3> QED
      BY <1>0, <1>1, <1>2, <2>1, <3>1 DEF TorTypeOK
  <2>4. KeyClock' /\ KeysYoung'
    BY <1>0, <1>1, <1>4, <2>1 DEF KeyClock, KeysYoung
  <2>5. BoostCovers'
    BY <1>0, <2>1 DEF BoostCovers, Past
  <2> QED
    BY <1>0, <1>2, <2>1, <2>2, <2>3, <2>4, <2>5 DEF Past
<1>5. CASE ~established \/ (last_rotation_ticks # 0 /\ ~RotationDue(t))
  <2>1. UNCHANGED <<last_rotation_ticks, g_padding_boost_active, circuit_id, keys, made, timer_rot>>
    BY <1>0, <1>5 DEF tor_tick
  <2>2. NonceHistory' /\ NonceFresh'
    BY <1>0, <2>1, NoncesKept DEF TorTypeOK
  <2>3. TorTypeOK'
    BY <1>0, <1>2, <2>1 DEF TorTypeOK
  <2>4. KeyClock' /\ KeysYoung'
    BY <1>0, <1>5, <2>1 DEF KeyClock, KeysYoung, RotationDue
  <2>5. BoostCovers'
    BY <1>0, <2>1 DEF BoostCovers, Past
  <2> QED
    BY <1>0, <1>2, <2>1, <2>2, <2>3, <2>4, <2>5 DEF Past
<1> QED
  BY <1>3, <1>4, <1>5 DEF TorTypeOK

\* Every step keeps the invariant.
LEMMA TorStep == TorIInv /\ [TorNext]_torVars => TorIInv'
<1>1. ASSUME TorIInv, UNCHANGED torVars PROVE TorIInv'
  BY <1>1 DEF torVars, TorIInv, TorInv, TorTypeOK, KeysYoung, PaddingSteady, NonceFresh, Past,
     KeyClock, PadClock, Allowed, BoostCovers, NonceHistory
<1> QED
  BY <1>1, TorInitCallOK, StartNicOK, CellOK, RotateOK, TickOK DEF TorNext

\* No key and nonce pair is used twice, keys are not older than their period, padding that
\* goes out is an interval apart for each packet the interface refused and one more, and a
\* boost covers a rotation but for a nested one, for any periods and any width of the tick
\* field (tor_tick, tor_send_cell, padding_tick, tor_rotate_circuit).
THEOREM TorSafe == TorSpec => []TorInv
<1>1. TorIInv => TorInv
  BY DEF TorIInv
<1> QED
  BY <1>1, TorInitOK, TorStep, PTL DEF TorSpec

\* What RotationSpaced says of one step.
Spaced == timer_rot # 0 /\ timer_rot' # timer_rot /\ timer_rot' # 0
            => timer_rot' - timer_rot >= RotateTicks

\* No step rotates too early while ticks fit their field.
LEMMA SpacedStep ==
  ASSUME MaxTicks < 2 ^ WIDTH
  PROVE  TimerClock /\ [TorNext]_torVars => TimerClock' /\ [Spaced]_torVars
<1> SUFFICES ASSUME TimerClock, [TorNext]_torVars
             PROVE  timer_rot' \in {0, last_rotation_ticks'} /\ Spaced
  BY TorStep DEF TimerClock
<1>1. TorIInv /\ timer_rot \in {0, last_rotation_ticks} /\ ticks \in Nat
      /\ last_rotation_ticks \in Nat
  BY TorConstants DEF TimerClock, TorIInv, TorInv, TorTypeOK
<1>2. CASE Tick
  <2> DEFINE t == ticks + 1
  <2>1. tor_tick(t) /\ t \in Nat /\ t <= MaxTicks
    BY <1>1, <1>2, TorConstants DEF Tick
  <2>2. t % (2 ^ WIDTH) = t
    <3>1. t < 2 ^ WIDTH
      BY <2>1, TorConstants
    <3> HIDE DEF t
    <3> QED
      BY <2>1, <3>1, TorConstants, Residue
  <2>3. CASE established /\ last_rotation_ticks = 0
    BY <1>1, <2>1, <2>3 DEF tor_tick, Spaced
  <2>4. CASE established /\ last_rotation_ticks # 0 /\ RotationDue(t)
    BY <1>1, <2>1, <2>2, <2>4 DEF tor_tick, NoteRotation, RotationDue, Spaced
  <2>5. CASE ~established \/ (last_rotation_ticks # 0 /\ ~RotationDue(t))
    <3>1. UNCHANGED <<last_rotation_ticks, timer_rot>>
      BY <2>1, <2>5 DEF tor_tick
    <3> QED
      BY <1>1, <3>1 DEF Spaced
  <2> QED
    BY <1>1, <2>3, <2>4, <2>5 DEF TorIInv, TorInv, TorTypeOK
<1>3. CASE tor_init
  BY <1>3 DEF tor_init, Spaced
<1>4. CASE UNCHANGED <<last_rotation_ticks, timer_rot>>
  BY <1>1, <1>4 DEF Spaced
<1> QED
  BY <1>2, <1>3, <1>4 DEF TorNext, StartNic, tor_send_cell, RotateBegin, RotateKeys, RotateEnd,
     DeadReckoning, torVars

\* While the tick counter fits the field that remembers a rotation, the timer's rotations
\* are at least a period apart (tor_tick).
THEOREM TorRotationSpaced == ASSUME MaxTicks < 2 ^ WIDTH PROVE TorSpec => RotationSpaced
BY TorInitOK, SpacedStep, PTL DEF TorSpec, RotationSpaced, Spaced

----------------------------------------------------------------------------
(* The TCP engine.                                                          *)

\* A socket, and a segment on the wire.
Socket == [active : BOOLEAN, state : {"CLOSED", "ESTABLISHED"}, local_port : Nat,
           remote : Remotes \cup {None}, seq_num : 0 .. SEQ - 1, incarnation : Nat]
FrameType == [id : Nat, conn : Nat, seq : 0 .. SEQ - 1, syn : BOOLEAN, len : Lengths \cup {0}]

\* Every variable has its type, and active sockets have ephemeral ports.
TableOK ==
  /\ g_sockets \in [Sockets -> Socket] /\ frames \subseteq FrameType
  /\ g_next_ephemeral_port \in FirstPort .. LastPort
  /\ creates \in 0 .. MaxCreates /\ built \in 0 .. MaxBuilt /\ taken \in 0 .. MaxBytes
  /\ \A f \in frames : f.id \in 1 .. built
  /\ \A i \in Active : g_sockets[i].local_port \in FirstPort .. LastPort

\* No two active sockets are the same incarnation, and no segment is from a later one.
Incarnations ==
  /\ \A i \in Active : g_sockets[i].incarnation <= creates
  /\ \A i, j \in Active : g_sockets[i].incarnation = g_sockets[j].incarnation => i = j
  /\ \A f \in frames : f.conn <= creates

\* Until the ports have gone round once, the port tells the incarnation.
PortOfIncarnation ==
  creates <= LastPort - FirstPort + 1 =>
    /\ \A i \in Active : g_sockets[i].local_port + 1 = FirstPort + g_sockets[i].incarnation
    /\ creates < LastPort - FirstPort + 1 => g_next_ephemeral_port = FirstPort + creates

\* b sequence numbers were used from frame f to where socket s stands.
Behind(f, s, b) == Span(f) <= b /\ (f.seq + b) % SEQ = s.seq_num

\* A segment of a live connection lies behind the socket's sequence number, and not a whole
\* turn behind.
SentBehind ==
  \A i \in Active : \A f \in frames :
    f.conn = g_sockets[i].incarnation => \E b \in 0 .. taken : Behind(f, g_sockets[i], b)

\* The inductive invariant: ports and sequence numbers are told apart by how many were
\* handed out before.
TcpIInv == TableOK /\ Incarnations /\ PortOfIncarnation /\ SentBehind /\ NoOverlap

\* The named assumption in the form the proofs use.
LEMMA TcpConstants ==
  /\ MAX_TCP_SOCKETS \in Nat /\ FirstPort \in Nat /\ LastPort \in Nat /\ FirstPort <= LastPort
  /\ MaxCreates \in Nat /\ MaxBuilt \in Nat /\ MaxBytes \in Nat
  /\ SEQ \in Nat /\ SEQ > 0 /\ MaxBytes <= SEQ
  /\ Lengths \subseteq Nat /\ ISNs \subseteq 0 .. SEQ - 1 /\ Sockets \subseteq Nat
BY TcpAssumption DEF Sockets

\* A segment covers a number of sequence numbers.
LEMMA SpanNat == ASSUME NEW f \in FrameType PROVE Span(f) \in Nat /\ f.seq \in Nat
<1>1. f.len \in Lengths \cup {0} /\ f.seq \in 0 .. SEQ - 1
  BY DEF FrameType
<1>2. f.len \in Nat
  <2>1. \A x \in Lengths \cup {0} : x \in Nat
    BY TcpConstants
  <2> QED
    BY <1>1, <2>1, Zenon
<1> QED
  BY <1>1, <1>2, TcpConstants DEF Span

\* The initial state satisfies the invariant.
LEMMA TcpInitOK == TcpInit => TcpIInv
<1> SUFFICES ASSUME TcpInit PROVE TcpIInv
  OBVIOUS
<1> USE TcpConstants DEF TcpInit
<1>1. Unused \in Socket /\ Unused.active = FALSE
  BY DEF Unused, Socket
<1>2. Active = {}
  BY <1>1 DEF Active
<1>3. TableOK
  BY <1>1, <1>2 DEF TableOK
<1> QED
  BY <1>2, <1>3 DEF TcpIInv, Incarnations, PortOfIncarnation, SentBehind, NoOverlap

\* The invariant gives every part of TcpInv.
LEMMA TcpIInvImplies == TcpIInv => TcpInv
<1> SUFFICES ASSUME TcpIInv PROVE TcpInv
  OBVIOUS
<1> USE TcpConstants DEF TcpIInv
<1>0. \A i \in Active : i \in Sockets /\ g_sockets[i] \in Socket
  BY DEF Active, TableOK
<1>1. TcpTypeOK
  BY <1>0 DEF TcpTypeOK, TableOK, Socket, FrameType
<1>2. PortsDistinct
  <2> SUFFICES ASSUME creates <= LastPort - FirstPort + 1, NEW i \in Active, NEW j \in Active,
                      g_sockets[i].local_port = g_sockets[j].local_port
               PROVE  i = j
    BY DEF PortsDistinct
  <2>1. g_sockets[i].local_port + 1 = FirstPort + g_sockets[i].incarnation
        /\ g_sockets[j].local_port + 1 = FirstPort + g_sockets[j].incarnation
    BY DEF PortOfIncarnation
  <2>2. g_sockets[i].incarnation \in Nat /\ g_sockets[j].incarnation \in Nat
    BY <1>0 DEF Socket
  <2>3. g_sockets[i].incarnation = g_sockets[j].incarnation
    BY <2>1, <2>2
  <2> QED
    BY <2>3 DEF Incarnations
<1> QED
  BY <1>1, <1>2 DEF TcpInv

\* tcp_socket_create takes the first free socket and the next port.
LEMMA CreateOK == ASSUME TcpIInv, tcp_socket_create PROVE TcpIInv'
<1> USE TcpConstants DEF TcpIInv
<1> DEFINE idle == {i \in Sockets : ~g_sockets[i].active}
           i == CHOOSE j \in idle : \A k \in idle : j <= k
<1>1. i \in idle
  <2>1. idle \subseteq Nat /\ idle # {}
    BY DEF tcp_socket_create
  <2>2. \E j \in idle : \A k \in idle : j <= k
    BY <2>1, LeastElement
  <2> QED
    BY <2>2
<1>2. PICK n \in ISNs : g_sockets' = [g_sockets EXCEPT ![i] =
            [active |-> TRUE, state |-> "CLOSED",
             local_port |-> g_next_ephemeral_port,
             remote |-> g_sockets[i].remote, seq_num |-> n,
             incarnation |-> creates + 1]]
  BY DEF tcp_socket_create
<1>3. /\ creates < MaxCreates /\ creates' = creates + 1 /\ UNCHANGED <<built, frames, taken>>
      /\ g_next_ephemeral_port' = NextPort(g_next_ephemeral_port)
  BY DEF tcp_socket_create
<1>4. i \in Sockets /\ i \notin Active
  BY <1>1 DEF Active
<1> HIDE DEF i
<1> DEFINE s == [active |-> TRUE, state |-> "CLOSED", local_port |-> g_next_ephemeral_port,
                 remote |-> g_sockets[i].remote, seq_num |-> n, incarnation |-> creates + 1]
<1>5. /\ s \in Socket /\ s.active /\ s.local_port = g_next_ephemeral_port
      /\ s.incarnation = creates + 1
  <2>1. g_sockets[i] \in Socket /\ n \in 0 .. SEQ - 1 /\ g_next_ephemeral_port \in Nat
        /\ creates \in Nat
    BY <1>4 DEF TableOK
  <2> QED
    BY <2>1 DEF Socket
<1>6. g_sockets' = [g_sockets EXCEPT ![i] = s]
  BY <1>2
<1> HIDE DEF s
<1>7. /\ g_sockets' \in [Sockets -> Socket] /\ g_sockets'[i] = s
      /\ \A j \in Sockets \ {i} : g_sockets'[j] = g_sockets[j]
  BY <1>4, <1>5, <1>6 DEF TableOK
<1>8. Active' = Active \cup {i} /\ \A j \in Active : g_sockets'[j] = g_sockets[j]
  BY <1>4, <1>5, <1>7 DEF Active
<1>9. g_next_ephemeral_port' \in FirstPort .. LastPort
  BY <1>3 DEF NextPort, TableOK
<1>10. TableOK'
  BY <1>3, <1>5, <1>7, <1>8, <1>9 DEF TableOK
<1>11. Incarnations'
  <2>1. creates \in Nat /\ \A j \in Active : g_sockets[j].incarnation \in Nat
        /\ g_sockets[j].incarnation <= creates
    BY DEF TableOK, Active, Socket, Incarnations
  <2>2. \A f \in frames : f.conn \in Nat /\ f.conn <= creates
    BY DEF TableOK, FrameType, Incarnations
  <2> QED
    BY <1>3, <1>5, <1>7, <1>8, <2>1, <2>2 DEF Incarnations
<1>12. PortOfIncarnation'
  <2> SUFFICES ASSUME creates + 1 <= LastPort - FirstPort + 1
               PROVE  /\ \A j \in Active' :
                         g_sockets'[j].local_port + 1 = FirstPort + g_sockets'[j].incarnation
                      /\ creates + 1 < LastPort - FirstPort + 1
                         => g_next_ephemeral_port' = FirstPort + creates + 1
    BY <1>3 DEF PortOfIncarnation, TableOK
  <2>1. creates \in Nat /\ creates < LastPort - FirstPort + 1
    BY DEF TableOK
  <2>2. g_next_ephemeral_port = FirstPort + creates
        /\ \A j \in Active : g_sockets[j].local_port + 1 = FirstPort + g_sockets[j].incarnation
    BY <2>1 DEF PortOfIncarnation
  <2>3. s.local_port + 1 = FirstPort + s.incarnation
    BY <1>5, <2>1, <2>2
  <2>4. creates + 1 < LastPort - FirstPort + 1
        => NextPort(g_next_ephemeral_port) = FirstPort + creates + 1
    BY <2>1, <2>2 DEF NextPort
  <2> QED
    BY <1>3, <1>7, <1>8, <2>2, <2>3, <2>4
<1>13. SentBehind'
  <2>1. \A f \in frames : f.conn # s.incarnation
    BY <1>5 DEF Incarnations, TableOK, FrameType
  <2> QED
    BY <1>3, <1>7, <1>8, <2>1 DEF SentBehind, Behind, Span
<1>14. NoOverlap'
  BY <1>3 DEF NoOverlap
<1> QED
  BY <1>10, <1>11, <1>12, <1>13, <1>14

\* A frame over the numbers at which the socket stands meets none that was sent before.
LEMMA Disjoint ==
  ASSUME NEW f \in FrameType, NEW g \in FrameType, NEW s \in Socket, NEW b \in Nat, Behind(f, s, b),
         g.seq = s.seq_num, b + Span(g) <= SEQ
  PROVE  Numbers(f) \cap Numbers(g) = {}
<1> USE TcpConstants
<1>1. f.seq \in Nat /\ g.seq \in 0 .. SEQ - 1 /\ Span(f) \in Nat /\ Span(g) \in Nat
  BY SpanNat DEF FrameType
<1> SUFFICES ASSUME NEW j \in 0 .. Span(f) - 1, NEW k \in 0 .. Span(g) - 1,
                    (f.seq + j) % SEQ = (g.seq + k) % SEQ
             PROVE  FALSE
  BY DEF Numbers
<1>2. j \in Nat /\ k \in Nat /\ j < b /\ b + k < SEQ
  BY <1>1 DEF Behind
<1>3. g.seq = (f.seq + b) % SEQ
  BY DEF Behind
<1>4. (g.seq + k) % SEQ = (f.seq + b + k) % SEQ
  <2>1. \A x \in Nat : ((x % SEQ) + k) % SEQ = (x + k) % SEQ
    <3>1. k \in Nat /\ SEQ \in Nat /\ SEQ > 0
      BY <1>2
    <3> QED
      BY ONLY <3>1, ModAdd
  <2>2. f.seq + b \in Nat
    BY <1>1
  <2> QED
    BY <1>3, <2>1, <2>2
<1>5. (f.seq + j) % SEQ # (f.seq + b + k) % SEQ
  <2>1. f.seq + j \in Nat /\ f.seq + b + k \in Nat /\ f.seq + j < f.seq + b + k
        /\ (f.seq + b + k) - (f.seq + j) < SEQ
    BY <1>1, <1>2
  <2> QED
    BY <2>1, ModApart
<1> QED
  BY <1>4, <1>5

\* Connecting and sending: the socket moves on by the numbers of the frame, which
\* the interface takes or refuses.
LEMMA SendsOK ==
  ASSUME TcpIInv, NEW i \in Active, NEW s \in Socket, NEW g \in FrameType,
         s.active, s.local_port = g_sockets[i].local_port, s.incarnation = g_sockets[i].incarnation,
         g.conn = s.incarnation, g.seq = g_sockets[i].seq_num,
         s.seq_num = (g_sockets[i].seq_num + Span(g)) % SEQ,
         g.id = built + 1, built < MaxBuilt, built' = built + 1,
         taken + Span(g) <= MaxBytes, taken' = taken + Span(g),
         g_sockets' = [g_sockets EXCEPT ![i] = s],
         frames' \in {frames, frames \cup {g}},
         UNCHANGED <<g_next_ephemeral_port, creates>>
  PROVE  TcpIInv'
<1> USE TcpConstants DEF TcpIInv
<1>0. i \in Sockets /\ g_sockets[i] \in Socket /\ Span(g) \in Nat /\ taken \in Nat
  <2>1. i \in Sockets /\ g_sockets \in [Sockets -> Socket] /\ taken \in 0 .. MaxBytes
    BY DEF Active, TableOK
  <2>2. Span(g) \in Nat
    BY SpanNat
  <2> QED
    <3>1. g_sockets[i] \in Socket
      BY ONLY <2>1
    <3>2. taken \in Nat
      BY ONLY <2>1, TcpConstants
    <3> QED
      BY ONLY <2>1, <2>2, <3>1, <3>2
<1>1. /\ g_sockets' \in [Sockets -> Socket] /\ g_sockets'[i] = s
      /\ \A j \in Sockets \ {i} : g_sockets'[j] = g_sockets[j]
  BY <1>0 DEF TableOK
<1>2. Active' = Active /\ \A j \in Active \ {i} : j \in Sockets /\ g_sockets'[j] = g_sockets[j]
  BY <1>0, <1>1 DEF Active
<1>3. \A j \in Active : g_sockets'[j].local_port = g_sockets[j].local_port
                     /\ g_sockets'[j].incarnation = g_sockets[j].incarnation
  BY <1>1, <1>2
<1>4. TableOK'
  <2>1. taken' \in 0 .. MaxBytes
    BY <1>0
  <2>2. frames' \subseteq FrameType
    BY DEF TableOK
  <2>3. built' \in 0 .. MaxBuilt /\ \A f \in frames' : f.id \in 1 .. built'
    BY DEF TableOK, FrameType
  <2> QED
    BY <1>1, <1>2, <1>3, <2>1, <2>2, <2>3 DEF TableOK
<1>5. Incarnations'
  BY <1>2, <1>3 DEF Incarnations
<1>6. PortOfIncarnation'
  BY <1>2, <1>3 DEF PortOfIncarnation
<1>7. ASSUME NEW f \in frames, f.conn = s.incarnation
      PROVE  \E b \in 0 .. taken : Behind(f, g_sockets[i], b)
  BY <1>7 DEF SentBehind
<1>8. SentBehind'
  <2> SUFFICES ASSUME NEW j \in Active, NEW f \in frames', f.conn = g_sockets'[j].incarnation
               PROVE  \E b \in 0 .. taken' : Behind(f, g_sockets'[j], b)
    BY <1>2 DEF SentBehind, Behind, Span
  <2>1. CASE j # i /\ f \in frames
    <3>1. PICK b \in 0 .. taken : Behind(f, g_sockets[j], b)
      BY <1>2, <2>1 DEF SentBehind
    <3>2. b \in 0 .. taken'
      BY <1>0
    <3> QED
      BY <1>2, <2>1, <3>1, <3>2
  <2>2. CASE j = i /\ f \in frames
    <3>1. PICK b \in 0 .. taken : Behind(f, g_sockets[i], b)
      BY <1>1, <1>7, <2>2
    <3>2. b + Span(g) \in 0 .. taken'
      BY <1>0
    <3>3. f.seq \in Nat /\ Span(f) \in Nat
      BY <2>2, SpanNat DEF TableOK
    <3>4. (f.seq + (b + Span(g))) % SEQ = s.seq_num
      <4>1. f.seq + b \in Nat /\ f.seq + (b + Span(g)) = (f.seq + b) + Span(g)
        BY <1>0, <3>3
      <4>2. \A x \in Nat : ((x % SEQ) + Span(g)) % SEQ = (x + Span(g)) % SEQ
        <5>1. Span(g) \in Nat /\ SEQ \in Nat /\ SEQ > 0
          BY <1>0
        <5> QED
          BY ONLY <5>1, ModAdd, Zenon
      <4>3. (f.seq + b) % SEQ = g_sockets[i].seq_num
        BY <3>1 DEF Behind
      <4> QED
        BY <4>1, <4>2, <4>3
    <3>5. Span(f) <= b + Span(g)
      BY <1>0, <3>1, <3>3 DEF Behind
    <3> QED
      BY <1>1, <2>2, <3>2, <3>4, <3>5 DEF Behind
  <2>3. CASE f = g
    <3>1. j = i
      BY <1>1, <1>2, <2>3 DEF Incarnations
    <3>2. Span(g) \in 0 .. taken' /\ Span(g) <= Span(g)
      BY <1>0
    <3> QED
      BY <1>1, <2>3, <3>1, <3>2 DEF Behind
  <2> QED
    BY <2>1, <2>2, <2>3
<1>9. ASSUME NEW f \in frames, f.conn = g.conn PROVE Numbers(f) \cap Numbers(g) = {}
  <2>1. PICK b \in 0 .. taken : Behind(f, g_sockets[i], b)
    BY <1>7, <1>9
  <2>2. b \in Nat /\ b + Span(g) <= SEQ /\ f \in FrameType
    BY <1>0 DEF TableOK
  <2> QED
    BY <1>0, <2>1, <2>2, Disjoint
<1>10. NoOverlap'
  <2> SUFFICES ASSUME NEW f \in frames', NEW h \in frames', f.conn = h.conn, f # h
               PROVE  Numbers(f) \cap Numbers(h) = {}
    BY DEF NoOverlap, Numbers, Span
  <2>1. CASE f \in frames /\ h \in frames
    BY <2>1 DEF NoOverlap
  <2>2. CASE f \in frames /\ h = g
    BY <1>9, <2>2
  <2>3. CASE f = g /\ h \in frames
    BY <1>9, <2>3
  <2> QED
    BY <2>1, <2>2, <2>3
<1> QED
  BY <1>4, <1>5, <1>6, <1>8, <1>10

\* tcp_socket_connect sends a SYN, which may be refused.
LEMMA ConnectOK ==
  ASSUME TcpIInv, NEW i \in Sockets, NEW dst \in Remotes, tcp_socket_connect(i, dst)
  PROVE  TcpIInv'
<1> USE TcpConstants
<1> DEFINE r == [g_sockets[i] EXCEPT !.remote = dst, !.state = "ESTABLISHED"]
           s == AfterSyn(r)
           g == Frame(r, TRUE, 0)
<1>1. i \in Active /\ g_sockets[i] \in Socket /\ taken \in Nat /\ built \in Nat
  BY DEF tcp_socket_connect, Active, TcpIInv, TableOK
<1>2. /\ r \in Socket /\ r.active /\ r.local_port = g_sockets[i].local_port
      /\ r.incarnation = g_sockets[i].incarnation /\ r.seq_num = g_sockets[i].seq_num
  BY <1>1 DEF Socket, tcp_socket_connect
<1>3. /\ g_sockets' = [g_sockets EXCEPT ![i] = s] /\ taken < MaxBytes /\ taken' = taken + 1
      /\ built < MaxBuilt /\ built' = built + 1
      /\ frames' \in {frames, frames \cup {g}} /\ UNCHANGED <<g_next_ephemeral_port, creates>>
  BY DEF tcp_socket_connect
<1> HIDE DEF r
<1>4. (r.seq_num + 1) % SEQ \in 0 .. SEQ - 1
  BY <1>2 DEF Socket
<1>5. /\ s \in Socket /\ s.active /\ s.local_port = r.local_port /\ s.incarnation = r.incarnation
      /\ s.seq_num = (r.seq_num + 1) % SEQ
  BY <1>2, <1>4 DEF AfterSyn, Socket
<1>6. g \in FrameType /\ g.id = built + 1 /\ g.conn = r.incarnation
      /\ g.seq = r.seq_num /\ Span(g) = 1
  BY <1>1, <1>2 DEF Frame, FrameType, Socket, Span
<1> HIDE DEF s, g
<1>7. taken + 1 <= MaxBytes
  BY <1>1, <1>3
<1> QED
  BY <1>1, <1>2, <1>3, <1>5, <1>6, <1>7, SendsOK

\* tcp_socket_send sends a segment, which may be refused.
LEMMA SocketSendOK ==
  ASSUME TcpIInv, NEW i \in Sockets, NEW len \in Lengths, tcp_socket_send(i, len)
  PROVE  TcpIInv'
<1> USE TcpConstants
<1> DEFINE r == g_sockets[i]
           s == AfterData(r, len)
           g == Frame(r, FALSE, len)
<1>1. i \in Active /\ r \in Socket /\ taken \in Nat /\ built \in Nat /\ len \in Nat /\ r.active
  BY DEF tcp_socket_send, Active, TcpIInv, TableOK
<1>2. /\ g_sockets' = [g_sockets EXCEPT ![i] = s] /\ taken + len <= MaxBytes /\ taken' = taken + len
      /\ built < MaxBuilt /\ built' = built + 1
      /\ frames' \in {frames, frames \cup {g}} /\ UNCHANGED <<g_next_ephemeral_port, creates>>
  BY DEF tcp_socket_send
<1>3. (r.seq_num + len) % SEQ \in 0 .. SEQ - 1
  BY <1>1 DEF Socket
<1>4. /\ s \in Socket /\ s.active /\ s.local_port = r.local_port /\ s.incarnation = r.incarnation
      /\ s.seq_num = (r.seq_num + len) % SEQ
  BY <1>1, <1>3 DEF AfterData, Socket
<1>5. g \in FrameType /\ g.id = built + 1 /\ g.conn = r.incarnation
      /\ g.seq = r.seq_num /\ Span(g) = len
  BY <1>1 DEF Frame, FrameType, Socket, Span
<1> HIDE DEF s, g
<1> QED
  BY <1>1, <1>2, <1>4, <1>5, SendsOK

\* tcp_socket_close.
LEMMA CloseOK == ASSUME TcpIInv, NEW i \in Sockets, tcp_socket_close(i) PROVE TcpIInv'
<1> USE TcpConstants DEF TcpIInv
<1> DEFINE s == [g_sockets[i] EXCEPT !.active = FALSE, !.state = "CLOSED"]
<1>1. /\ g_sockets[i] \in Socket
      /\ g_sockets' = [g_sockets EXCEPT ![i] = s]
      /\ UNCHANGED <<g_next_ephemeral_port, creates, built, frames, taken>>
  BY DEF tcp_socket_close, TableOK
<1>2. s \in Socket /\ ~s.active
  BY <1>1 DEF Socket
<1> HIDE DEF s
<1>3. /\ g_sockets' \in [Sockets -> Socket]
      /\ Active' = Active \ {i} /\ \A j \in Active' : g_sockets'[j] = g_sockets[j]
  BY <1>1, <1>2 DEF TableOK, Active
<1>4. TableOK' /\ Incarnations' /\ PortOfIncarnation'
  BY <1>1, <1>3 DEF TableOK, Incarnations, PortOfIncarnation
<1>5. SentBehind' /\ NoOverlap'
  BY <1>1, <1>3 DEF SentBehind, NoOverlap, Behind, Span
<1> QED
  BY <1>4, <1>5

\* Every step keeps the invariant.
LEMMA TcpStep == TcpIInv /\ [TcpNext]_tcpVars => TcpIInv'
<1>1. ASSUME TcpIInv, UNCHANGED tcpVars PROVE TcpIInv'
  BY <1>1 DEF tcpVars, TcpIInv, TableOK, Incarnations, PortOfIncarnation, SentBehind, NoOverlap,
     Active, Behind
<1> QED
  BY <1>1, CreateOK, ConnectOK, SocketSendOK, CloseOK DEF TcpNext

\* No sequence number of a connection is in two frames, a second attempt included, and no
\* port names two sockets until the ports have gone round, for any table, port range and
\* sequence space (tcp_socket_create, tcp_socket_connect, tcp_socket_send).
THEOREM TcpSafe == TcpSpec => []TcpInv
BY TcpInitOK, TcpStep, TcpIInvImplies, PTL DEF TcpSpec

----------------------------------------------------------------------------
(* The frame builders.                                                      *)

\* The equations of the three recursive functions: the sum of a buffer's words, the
\* receiver's sum of bytes, the folding of carries.
WordEqn(f, buf) ==
  f = [k \in 0 .. (Len(buf) + 1) \div 2 |-> IF k = 0 THEN 0 ELSE f[k - 1] + WordAt(buf, k)]
ByteEqn(f, ps, p) ==
  f = [k \in 0 .. Len(p) |->
         IF k = 0 THEN ps ELSE f[k - 1] + (IF k % 2 = 1 THEN p[k] * BYTE ELSE p[k])]
FoldEqn(f) ==
  f = [s \in Nat |-> IF s < WORD THEN s ELSE f[(s % WORD) + (s \div WORD)]]

\* The running sums of w on top of z.
Runs(f, z, w, N) ==
  f \in [0 .. N -> Nat] /\ f[0] = z /\ \A k \in 1 .. N : f[k] = f[k - 1] + w[k]

\* Running sums exist, by induction on their number.
LEMMA RunningSum ==
  ASSUME NEW N \in Nat, NEW z \in Nat, NEW w \in [1 .. N -> Nat]
  PROVE  \E f : Runs(f, z, w, N)
<1> DEFINE Sums(f, n) == f[0] = z /\ \A k \in 1 .. n : f[k] = f[k - 1] + w[k]
           Bad == {n \in 0 .. N : ~ \E f \in [0 .. n -> Nat] : Sums(f, n)}
<1>1. SUFFICES ASSUME Bad # {} PROVE FALSE
  <2>1. N \in 0 .. N
    OBVIOUS
  <2> QED BY <2>1 DEF Runs
<1>2. PICK n \in Bad : \A j \in Bad : n <= j
  <2>1. Bad \subseteq Nat
    OBVIOUS
  <2> QED BY <1>1, <2>1, LeastElement
<1>3. CASE n = 0
  <2> DEFINE f == [k \in 0 .. 0 |-> z]
  <2>1. f \in [0 .. 0 -> Nat] /\ Sums(f, 0)
    OBVIOUS
  <2> QED BY <1>2, <1>3, <2>1
<1>4. CASE n # 0
  <2>1. n - 1 \in 0 .. N /\ ~(n <= n - 1) /\ n \in 1 .. N
    BY <1>2, <1>4
  <2>2. PICK f \in [0 .. n - 1 -> Nat] : Sums(f, n - 1)
    BY <1>2, <2>1
  <2> DEFINE g == [k \in 0 .. n |-> IF k = n THEN f[n - 1] + w[n] ELSE f[k]]
  <2>3. f[n - 1] + w[n] \in Nat
    BY <2>1, <2>2
  <2>4. g \in [0 .. n -> Nat]
    BY <2>1, <2>3
  <2>5. g[0] = z
    BY <2>1, <2>2
  <2>6. ASSUME NEW k \in 1 .. n PROVE g[k] = g[k - 1] + w[k]
    <3>1. CASE k = n
      BY <2>1, <3>1
    <3>2. CASE k # n
      <4>1. k \in 1 .. n - 1 /\ k - 1 \in 0 .. n /\ k - 1 # n
        BY <2>1, <3>2
      <4> QED BY <2>1, <2>2, <3>2, <4>1
    <3> QED BY <3>1, <3>2
  <2>7. Sums(g, n)
    BY <2>5, <2>6
  <2> QED BY <1>2, <2>4, <2>7
<1> QED BY <1>3, <1>4

\* The sizes of bytes and words.
LEMMA WordSize ==
  /\ BYTE \in Nat /\ BYTE > 1 /\ WORD \in Nat /\ WORD > 3 /\ WORD = BYTE * BYTE
<1>1. BYTE \in Nat /\ BYTE > 1
  BY NetAssumption
<1>2. BYTE * BYTE \in Nat
  BY <1>1
<1>3. BYTE * BYTE > 3
  <2>1. PICK d \in Nat : BYTE = 2 + d
    <3>1. BYTE - 2 \in Nat /\ BYTE = 2 + (BYTE - 2)
      BY <1>1
    <3> QED BY <3>1
  <2>2. BYTE * BYTE = 4 + 4 * d + d * d
    BY <2>1
  <2>3. d * d \in Nat
    OBVIOUS
  <2> QED BY <2>2, <2>3
<1> QED BY <1>1, <1>2, <1>3 DEF WORD

\* Whole turns leave the remainder as it is.
LEMMA ModTurns ==
  ASSUME NEW x \in Nat, NEW q \in Nat, NEW m \in Nat, m > 0
  PROVE  m * q + x \in Nat /\ (m * q + x) % m = x % m
<1> DEFINE p == x \div m
           e == x % m
<1>1. p \in Nat /\ e \in 0 .. m - 1 /\ x = m * p + e
  BY Euclid
<1> HIDE DEF p, e
<1>2. m * q \in Nat /\ m * p \in Nat /\ m * (q + p) = m * q + m * p
  BY <1>1
<1>3. m * q + x \in Nat /\ m * q + x = m * (q + p) + e /\ q + p \in Int
  BY <1>1, <1>2
<1>4. (m * q + x) % m = e
  BY <1>1, <1>3, ModUnique
<1> QED BY <1>3, <1>4 DEF e

\* Adding the carries back makes a number smaller, not zero, and leaves it what it is
\* modulo the largest word.
LEMMA CarriesAdded ==
  ASSUME NEW s \in Nat, s >= WORD
  PROVE  LET t == (s % WORD) + (s \div WORD)
         IN  /\ t \in Nat /\ 0 < t /\ t < s /\ s \div WORD \in Nat
             /\ s = (WORD - 1) * (s \div WORD) + t
<1> DEFINE q == s \div WORD
           r == s % WORD
<1>0. WORD \in Nat /\ WORD > 3
  BY WordSize
<1>1. q \in Nat /\ r \in 0 .. WORD - 1 /\ s = WORD * q + r
  BY <1>0, Euclid
<1> HIDE DEF q, r
<1>2. q # 0
  <2>1. WORD * 0 = 0
    BY <1>0
  <2> QED BY <1>0, <1>1, <2>1
<1>3. (WORD - 1) * q = WORD * q - q /\ WORD * q \in Nat
  BY <1>0, <1>1
<1>4. (WORD - 1) * q >= 3
  <2>1. PICK a \in Nat : WORD - 1 = 3 + a
    <3>1. WORD - 4 \in Nat /\ WORD - 1 = 3 + (WORD - 4)
      BY <1>0
    <3> QED BY <3>1
  <2>2. (WORD - 1) * q = 3 * q + a * q /\ a * q \in Nat
    BY <1>1, <2>1
  <2> QED BY <1>1, <1>2, <2>2
<1>5. r + q \in Nat /\ 0 < r + q /\ r + q < s /\ s = (WORD - 1) * q + (r + q)
  BY <1>0, <1>1, <1>2, <1>3, <1>4
<1> QED BY <1>1, <1>5 DEF q, r

\* The recursion of Folded has a solution: the representative in 1 .. WORD - 1.
LEMMA FoldExists == \E f : FoldEqn(f)
<1> DEFINE m == WORD - 1
           g == [s \in Nat |-> IF s = 0 THEN 0 ELSE ((s - 1) % m) + 1]
<1>0. WORD \in Nat /\ WORD > 3
  BY WordSize
<1>1. ASSUME NEW s \in Nat
      PROVE  g[s] = IF s < WORD THEN s ELSE g[(s % WORD) + (s \div WORD)]
  <2>1. CASE s < WORD
    <3>1. CASE s = 0
      BY <1>0, <3>1
    <3>2. CASE s # 0
      <4>1. s - 1 \in 0 .. m - 1 /\ s - 1 \in Nat /\ m \in Nat /\ m > 0
            /\ s - 1 = m * 0 + (s - 1) /\ 0 \in Int
        BY <1>0, <2>1, <3>2
      <4>2. (s - 1) % m = s - 1
        <5> HIDE DEF m
        <5> QED BY <4>1, ModUnique
      <4> QED BY <1>0, <2>1, <3>2, <4>1, <4>2
    <3> QED BY <3>1, <3>2
  <2>2. CASE ~(s < WORD)
    <3> DEFINE t == (s % WORD) + (s \div WORD)
               q == s \div WORD
    <3>1. t \in Nat /\ 0 < t /\ t < s /\ q \in Nat /\ s = m * q + t
      <4>1. s >= WORD
        BY <1>0, <2>2
      <4> QED BY <4>1, CarriesAdded, Zenon
    <3>2. g[t] = ((t - 1) % m) + 1 /\ g[s] = ((s - 1) % m) + 1
      <4> HIDE DEF t, q, m
      <4> QED BY <3>1
    <3>3. m \in Nat /\ m > 0
      BY <1>0
    <3>4. (s - 1) % m = (t - 1) % m
      <4> HIDE DEF t, q, m
      <4>1. t - 1 \in Nat
        BY <3>1
      <4>2. (m * q + (t - 1)) % m = (t - 1) % m
        BY <3>1, <3>3, <4>1, ModTurns
      <4>3. m * q \in Nat
        BY <3>1, <3>3
      <4>4. s - 1 = m * q + (t - 1)
        BY <3>1, <3>3, <4>3
      <4> QED BY <4>2, <4>4
    <3>5. g[s] = g[t]
      <4> HIDE DEF t, m, g
      <4> QED BY <3>2, <3>4
    <3> HIDE DEF g
    <3> QED BY <2>2, <3>5
  <2> QED BY <2>1, <2>2
<1>2. g = [s \in Nat |-> g[s]]
  OBVIOUS
<1> HIDE DEF g
<1>3. FoldEqn(g)
  BY <1>1, <1>2 DEF FoldEqn
<1> QED BY <1>3

\* Folded is a word, and the number it was folded from modulo the largest one.
LEMMA FoldedFacts ==
  ASSUME NEW n \in Nat
  PROVE  Folded(n) \in 0 .. WORD - 1 /\ Folded(n) % (WORD - 1) = n % (WORD - 1)
<1> DEFINE f == CHOOSE f : FoldEqn(f)
           m == WORD - 1
           Bad == {x \in Nat : ~(f[x] \in 0 .. WORD - 1 /\ f[x] % m = x % m)}
<1>0. WORD \in Nat /\ WORD > 3
  BY WordSize
<1>1. FoldEqn(f)
  BY FoldExists, Zenon
<1>2. Folded(n) = f[n]
  BY DEF Folded, FoldEqn
<1> HIDE DEF f
<1>3. \A s \in Nat : f[s] = IF s < WORD THEN s ELSE f[(s % WORD) + (s \div WORD)]
  BY <1>1 DEF FoldEqn
<1>4. SUFFICES ASSUME Bad # {} PROVE FALSE
  BY <1>2
<1>5. PICK x \in Bad : \A y \in Bad : x <= y
  BY <1>4, LeastElement
<1>6. CASE x < WORD
  <2>1. f[x] = x
    BY <1>3, <1>6
  <2>2. x \in 0 .. WORD - 1
    BY <1>0, <1>6
  <2> QED BY <1>5, <2>1, <2>2
<1>7. CASE ~(x < WORD)
  <2> DEFINE t == (x % WORD) + (x \div WORD)
             q == x \div WORD
  <2>1. t \in Nat /\ t < x /\ q \in Nat /\ x = m * q + t
    <3>1. x \in Nat /\ x >= WORD
      BY <1>0, <1>5, <1>7
    <3> QED BY <3>1, CarriesAdded, Zenon
  <2>2. f[x] = f[t]
    BY <1>3, <1>7
  <2>3. m \in Nat /\ m > 0
    BY <1>0
  <2> HIDE DEF t, q
  <2>4. x % m = t % m
    <3> HIDE DEF m
    <3> QED BY <2>1, <2>3, ModTurns
  <2>5. t \notin Bad
    BY <1>5, <2>1
  <2>6. f[t] \in 0 .. WORD - 1 /\ f[t] % m = t % m
    BY <2>1, <2>5
  <2> QED BY <1>5, <2>2, <2>4, <2>6
<1> QED BY <1>6, <1>7

\* The running sums of a buffer's words, and of the receiver's bytes, two at a time.
WordRuns(f, buf, K) ==
  /\ f[0] = 0 /\ f[K] \in Nat
  /\ \A k \in 1 .. K : f[k] = f[k - 1] + WordAt(buf, k) /\ WordAt(buf, k) \in Nat
ByteRuns(g, ps, p, K) ==
  /\ g[0] = ps
  /\ \A k \in 1 .. K : g[2 * k] = g[2 * (k - 1)] + p[2 * k - 1] * BYTE + p[2 * k]

\* The padded bytes p are the words of buf, but for word h + 1, which is c more.
Stored(p, buf, K, h, c) ==
  \A k \in 1 .. K : p[2 * k - 1] * BYTE + p[2 * k] = WordAt(buf, k) + (IF k = h + 1 THEN c ELSE 0)

\* The bytes of a buffer with x and y between header and payload.
Holds(buf, H, hdr, x, y, data) ==
  /\ buf \in Seq(Nat) /\ Len(buf) = H + 2 + Len(data)
  /\ \A i \in 1 .. Len(buf) :
       buf[i] = IF i <= H THEN hdr[i]
                ELSE IF i = H + 1 THEN x ELSE IF i = H + 2 THEN y ELSE data[i - H - 2]

\* The number of words of a buffer, the last one of which may be half a word.
LEMMA WordCount ==
  ASSUME NEW L \in Nat
  PROVE  LET K == (L + 1) \div 2
         IN  /\ K \in Nat /\ (L = 2 * K \/ L = 2 * K - 1)
             /\ L % 2 = 0 => L = 2 * K
             /\ L % 2 # 0 => L = 2 * K - 1
  OBVIOUS

\* WordSum is the last of the running sums of the buffer's words.
LEMMA WordSumRuns ==
  ASSUME NEW buf \in Seq(Nat), NEW K \in Nat, K = (Len(buf) + 1) \div 2
  PROVE  \E f : WordRuns(f, buf, K) /\ WordSum(buf) = f[K]
<1> DEFINE L == Len(buf)
           w == [k \in 1 .. K |-> WordAt(buf, k)]
           f == CHOOSE f : WordEqn(f, buf)
<1>0. BYTE \in Nat
  BY WordSize
<1>1. L \in Nat /\ (L = 2 * K \/ L = 2 * K - 1)
  BY WordCount
<1>2. ASSUME NEW k \in 1 .. K PROVE WordAt(buf, k) \in Nat
  <2>1. 2 * k - 1 \in 1 .. L /\ (2 * k <= L => 2 * k \in 1 .. L)
    BY <1>1
  <2>2. buf[2 * k - 1] \in Nat /\ (2 * k <= L => buf[2 * k] \in Nat)
    BY <2>1
  <2>3. buf[2 * k - 1] * BYTE \in Nat
    BY <1>0, <2>2
  <2>4. buf[2 * k - 1] * BYTE + (IF 2 * k <= L THEN buf[2 * k] ELSE 0) \in Nat
    <3> DEFINE u == buf[2 * k - 1] * BYTE
               v == IF 2 * k <= L THEN buf[2 * k] ELSE 0
    <3>1. u \in Nat
      BY <2>3
    <3>2. v \in Nat
      BY <2>2
    <3> HIDE DEF u, v
    <3>3. u + v \in Nat
      BY ONLY <3>1, <3>2
    <3> QED BY <3>3 DEF u, v
  <2> QED BY <2>4 DEF WordAt
<1>3. w \in [1 .. K -> Nat]
  BY <1>2
<1>4. PICK g : g \in [0 .. K -> Nat] /\ g[0] = 0 /\ \A k \in 1 .. K : g[k] = g[k - 1] + w[k]
  <2> HIDE DEF w
  <2>1. 0 \in Nat
    OBVIOUS
  <2>2. \E g : Runs(g, 0, w, K)
    BY <1>3, <2>1, RunningSum, Zenon
  <2> QED BY <2>2, Zenon DEF Runs
<1>5. \A k \in 0 .. K : g[k] = IF k = 0 THEN 0 ELSE g[k - 1] + WordAt(buf, k)
  <2>1. \A k \in 0 .. K : k # 0 => k \in 1 .. K
    OBVIOUS
  <2> QED BY <1>4, <2>1
<1>6. WordEqn(g, buf)
  <2>1. g = [k \in 0 .. K |-> g[k]]
    BY <1>4
  <2> QED BY <1>5, <2>1 DEF WordEqn
<1>7. WordEqn(f, buf)
  BY <1>6, Zenon
<1>8. WordSum(buf) = f[K]
  BY DEF WordSum, WordEqn
<1> HIDE DEF f, w
<1>9. \A k \in 0 .. K : f[k] = IF k = 0 THEN 0 ELSE f[k - 1] + WordAt(buf, k)
  BY <1>7 DEF WordEqn
<1>10. \A k \in 1 .. K : k \in 0 .. K /\ k # 0
  OBVIOUS
<1>11. f[0] = 0 /\ \A k \in 1 .. K : f[k] = f[k - 1] + WordAt(buf, k)
  BY <1>9, <1>10
<1> DEFINE Bad == {k \in 0 .. K : f[k] \notin Nat}
<1>12. Bad = {}
  <2>1. SUFFICES ASSUME Bad # {} PROVE FALSE
    OBVIOUS
  <2>2. PICK k \in Bad : \A j \in Bad : k <= j
    <3>1. Bad \subseteq Nat
      OBVIOUS
    <3> QED BY <2>1, <3>1, LeastElement
  <2>3. k # 0
    BY <1>11, <2>2
  <2>4. k - 1 \in 0 .. K /\ ~(k <= k - 1) /\ k \in 1 .. K
    BY <2>2, <2>3
  <2>5. f[k - 1] \in Nat
    BY <2>2, <2>4
  <2> QED BY <1>2, <1>11, <2>2, <2>4, <2>5
<1>13. f[K] \in Nat
  BY <1>12
<1> QED BY <1>2, <1>8, <1>11, <1>13 DEF WordRuns

\* What the receiver adds up is the last of the running sums of the padded bytes.
LEMMA ByteSumRuns ==
  ASSUME NEW ps \in Nat, NEW buf, NEW K \in Nat, Padded(buf) \in Seq(Nat),
         Len(Padded(buf)) = 2 * K
  PROVE  \E f : ByteRuns(f, ps, Padded(buf), K) /\ Verifies(ps, buf) = (f[2 * K] % (WORD - 1) = 0)
<1> DEFINE p == Padded(buf)
           N == 2 * K
           Term(k) == IF k % 2 = 1 THEN p[k] * BYTE ELSE p[k]
           w == [k \in 1 .. N |-> Term(k)]
           f == CHOOSE f : ByteEqn(f, ps, p)
<1>0. BYTE \in Nat /\ N \in Nat /\ p \in Seq(Nat) /\ Len(p) = N
  BY WordSize
<1>1. Verifies(ps, buf) = (f[N] % (WORD - 1) = 0)
  BY DEF Verifies, ByteEqn
<1> HIDE DEF p, N
<1>2. \A k \in 1 .. N : p[k] \in Nat /\ p[k] * BYTE \in Nat
  BY <1>0
<1>3. w \in [1 .. N -> Nat]
  BY <1>2
<1>4. PICK g : g \in [0 .. N -> Nat] /\ g[0] = ps /\ \A k \in 1 .. N : g[k] = g[k - 1] + w[k]
  <2> HIDE DEF w
  <2>1. \E g : Runs(g, ps, w, N)
    BY <1>0, <1>3, RunningSum, Zenon
  <2> QED BY <2>1, Zenon DEF Runs
<1>5. \A k \in 0 .. N : g[k] = IF k = 0 THEN ps ELSE g[k - 1] + Term(k)
  <2>1. \A k \in 0 .. N : k # 0 => k \in 1 .. N
    BY <1>0
  <2>2. \A k \in 1 .. N : w[k] = Term(k)
    OBVIOUS
  <2> HIDE DEF w, Term
  <2> QED BY <1>4, <2>1, <2>2
<1>6. ByteEqn(g, ps, p)
  <2>1. g = [k \in 0 .. N |-> g[k]]
    BY <1>4
  <2> QED BY <1>0, <1>5, <2>1 DEF ByteEqn
<1>7. ByteEqn(f, ps, p)
  BY <1>6, Zenon
<1> HIDE DEF f, w
<1>8. \A k \in 0 .. N : f[k] = IF k = 0 THEN ps ELSE f[k - 1] + Term(k)
  BY <1>0, <1>7 DEF ByteEqn
<1>9. ASSUME NEW k \in 1 .. K PROVE f[2 * k] = f[2 * (k - 1)] + p[2 * k - 1] * BYTE + p[2 * k]
  <2> DEFINE j == 2 * k - 1
  <2>1. /\ j \in 0 .. N /\ j # 0 /\ j % 2 = 1 /\ j - 1 = 2 * (k - 1)
        /\ 2 * k \in 0 .. N /\ 2 * k # 0 /\ (2 * k) % 2 # 1 /\ 2 * k - 1 = j
    BY DEF N
  <2> HIDE DEF j
  <2>2. f[j] = f[2 * (k - 1)] + p[j] * BYTE
    BY <1>8, <2>1
  <2>3. f[2 * k] = f[j] + p[2 * k]
    BY <1>8, <2>1
  <2> QED BY <2>1, <2>2, <2>3
<1>10. f[0] = ps
  BY <1>0, <1>8
<1> QED BY <1>1, <1>9, <1>10 DEF p, N, ByteRuns

\* Products of natural numbers.
LEMMA MulNat == \A a, b \in Nat : a * b \in Nat
  OBVIOUS

\* Word by word, the receiver's sum exceeds the builder's by the pseudo-header and, from
\* the checksum's word on, by the checksum.
LEMMA SumsAgree ==
  ASSUME NEW K \in Nat, NEW h \in Nat, h < K, NEW ps \in Nat, NEW c \in Nat,
         NEW buf, NEW p \in Seq(Nat), Len(p) = 2 * K, NEW f, NEW g,
         WordRuns(f, buf, K), ByteRuns(g, ps, p, K), Stored(p, buf, K, h, c)
  PROVE  g[2 * K] = ps + f[K] + c
<1> DEFINE Agree(k) == f[k] \in Nat /\ g[2 * k] = ps + f[k] + (IF k > h THEN c ELSE 0)
           Bad == {k \in 0 .. K : ~Agree(k)}
<1>0. BYTE \in Nat
  BY WordSize
<1>1. SUFFICES ASSUME Bad # {} PROVE FALSE
  <2>1. K \in 0 .. K /\ K > h
    OBVIOUS
  <2> QED BY <2>1
<1>2. PICK k \in Bad : \A j \in Bad : k <= j
  <2>1. Bad \subseteq Nat
    OBVIOUS
  <2> QED BY <1>1, <2>1, LeastElement
<1>3. k # 0
  <2>1. 2 * 0 = 0 /\ ~(0 > h)
    OBVIOUS
  <2>2. Agree(0)
    BY <2>1 DEF WordRuns, ByteRuns
  <2> QED BY <1>2, <2>2
<1> DEFINE j == k - 1
<1>4. j \in 0 .. K /\ ~(k <= j) /\ k \in 1 .. K /\ k = j + 1 /\ j \in Nat
  BY <1>2, <1>3
<1>5. Agree(j)
  BY <1>2, <1>4
<1>6. p[2 * k - 1] \in Nat /\ p[2 * k] \in Nat
  <2>1. 2 * k - 1 \in 1 .. 2 * K /\ 2 * k \in 1 .. 2 * K
    BY <1>4
  <2>2. \A i \in 1 .. 2 * K : p[i] \in Nat
    <3>1. p \in Seq(Nat) /\ Len(p) = 2 * K
      OBVIOUS
    <3> QED BY ONLY <3>1
  <2> QED BY <2>1, <2>2
<1> DEFINE u == p[2 * k - 1] * BYTE
           v == p[2 * k]
           x == WordAt(buf, k)
           y == IF k = h + 1 THEN c ELSE 0
<1>7. u \in Nat /\ v \in Nat /\ x \in Nat /\ y \in Nat /\ u + v = x + y
  <2>1. u \in Nat
    BY <1>0, <1>6, MulNat, Zenon
  <2>2. y \in Nat
    OBVIOUS
  <2>3. x \in Nat /\ u + v = x + y
    BY <1>4 DEF WordRuns, Stored
  <2> QED BY <1>6, <2>1, <2>2, <2>3
<1>8. f[k] = f[j] + x /\ g[2 * k] = g[2 * j] + u + v
  BY <1>4 DEF WordRuns, ByteRuns
<1> DEFINE d == IF j > h THEN c ELSE 0
           e == IF k > h THEN c ELSE 0
<1>9. d \in Nat /\ e \in Nat /\ d + y = e
  BY <1>4
<1>10. f[j] \in Nat /\ g[2 * j] = ps + f[j] + d
  BY <1>5
<1> HIDE DEF j, u, v, x, y, d, e
<1>11. f[k] \in Nat /\ g[2 * k] = ps + f[k] + e
  <2>1. f[j] + x \in Nat
    BY ONLY <1>7, <1>10
  <2>2. (ps + f[j] + d) + u + v = ps + (f[j] + x) + (d + y)
    <3> DEFINE b == f[j]
    <3>0. b \in Nat /\ d \in Nat /\ u \in Nat /\ v \in Nat /\ x \in Nat /\ y \in Nat
          /\ ps \in Nat /\ u + v = x + y
      BY <1>7, <1>9, <1>10
    <3> HIDE DEF b
    <3>1. (ps + b + d) + u + v = ps + (b + x) + (d + y)
      BY ONLY <3>0
    <3> QED BY <3>1 DEF b
  <2> QED BY <1>8, <1>9, <1>10, <2>1, <2>2, Zenon
<1>12. Agree(k)
  BY <1>11 DEF e
<1> QED BY <1>2, <1>12

\* A buffer with two bytes in the middle.
LEMMA BufferBytes ==
  ASSUME NEW H \in Nat, NEW hdr \in [1 .. H -> Nat], NEW data \in Seq(Nat),
         NEW x \in Nat, NEW y \in Nat
  PROVE  Holds(hdr \o <<x, y>> \o data, H, hdr, x, y, data)
<1>1. hdr \in Seq(Nat) /\ Len(hdr) = H
  OBVIOUS
<1> DEFINE m == <<x, y>>
           a == hdr \o m
           buf == a \o data
<1>2. m \in Seq(Nat) /\ Len(m) = 2 /\ m[1] = x /\ m[2] = y
  OBVIOUS
<1> HIDE DEF m
<1>3. a \in Seq(Nat) /\ Len(a) = H + 2
      /\ \A i \in 1 .. H + 2 : a[i] = IF i <= H THEN hdr[i] ELSE m[i - H]
  <2>1. /\ a \in Seq(Nat) /\ Len(a) = Len(hdr) + Len(m)
        /\ \A i \in 1 .. Len(hdr) + Len(m) :
             a[i] = IF i <= Len(hdr) THEN hdr[i] ELSE m[i - Len(hdr)]
    BY <1>1, <1>2, ConcatProperties, Zenon
  <2> HIDE DEF a
  <2> QED BY <1>1, <1>2, <2>1
<1> HIDE DEF a
<1>4. buf \in Seq(Nat) /\ Len(buf) = H + 2 + Len(data)
      /\ \A i \in 1 .. Len(buf) : buf[i] = IF i <= H + 2 THEN a[i] ELSE data[i - (H + 2)]
  <2>1. /\ buf \in Seq(Nat) /\ Len(buf) = Len(a) + Len(data)
        /\ \A i \in 1 .. Len(a) + Len(data) :
             buf[i] = IF i <= Len(a) THEN a[i] ELSE data[i - Len(a)]
    BY <1>3, ConcatProperties, Zenon
  <2> HIDE DEF buf
  <2> QED BY <1>3, <2>1
<1> HIDE DEF buf
<1>5. ASSUME NEW i \in 1 .. Len(buf)
      PROVE  buf[i] = IF i <= H THEN hdr[i]
                      ELSE IF i = H + 1 THEN x ELSE IF i = H + 2 THEN y ELSE data[i - H - 2]
  <2>0. Len(data) \in Nat
    OBVIOUS
  <2>1. CASE i <= H
    BY <1>3, <1>4, <2>1
  <2>2. CASE i = H + 1
    <3>1. i - H = 1 /\ ~(i <= H) /\ i <= H + 2 /\ i \in 1 .. H + 2
      BY <2>2
    <3> QED BY <1>2, <1>3, <1>4, <2>2, <3>1
  <2>3. CASE i = H + 2
    <3>1. i - H = 2 /\ ~(i <= H) /\ i <= H + 2 /\ i # H + 1 /\ i \in 1 .. H + 2
      BY <2>3
    <3> QED BY <1>2, <1>3, <1>4, <2>3, <3>1
  <2>4. CASE i > H + 2
    <3>1. ~(i <= H + 2) /\ ~(i <= H) /\ i # H + 1 /\ i # H + 2 /\ i - (H + 2) = i - H - 2
      BY <2>4
    <3> QED BY <1>4, <3>1
  <2> QED BY <2>1, <2>2, <2>3, <2>4
<1>6. Holds(buf, H, hdr, x, y, data)
  BY <1>4, <1>5 DEF Holds
<1> QED BY <1>6 DEF buf, a, m

\* A buffer padded to whole words.
LEMMA PaddedBytes ==
  ASSUME NEW buf \in Seq(Nat), NEW K \in Nat, K = (Len(buf) + 1) \div 2
  PROVE  /\ Padded(buf) \in Seq(Nat) /\ Len(Padded(buf)) = 2 * K
         /\ \A i \in 1 .. 2 * K : Padded(buf)[i] = IF i <= Len(buf) THEN buf[i] ELSE 0
<1> DEFINE L == Len(buf)
<1>1. L \in Nat /\ (L % 2 = 0 => L = 2 * K) /\ (L % 2 # 0 => L = 2 * K - 1)
  BY WordCount
<1>2. CASE L % 2 = 0
  BY <1>1, <1>2 DEF Padded
<1>3. CASE L % 2 # 0
  <2> DEFINE q == Append(buf, 0)
  <2>1. q \in Seq(Nat) /\ Len(q) = L + 1 /\ q[L + 1] = 0 /\ \A i \in 1 .. L : q[i] = buf[i]
    OBVIOUS
  <2>2. Padded(buf) = q
    BY <1>3 DEF Padded
  <2>3. L + 1 = 2 * K /\ \A i \in 1 .. 2 * K : i \in 1 .. L \/ (i = L + 1 /\ ~(i <= L))
    BY <1>1, <1>3
  <2>4. \A i \in 1 .. L : i <= L
    BY <1>1
  <2> HIDE DEF q, L
  <2>5. \A i \in 1 .. 2 * K : q[i] = IF i <= L THEN buf[i] ELSE 0
    BY <2>1, <2>3, <2>4, Zenon
  <2> QED BY <2>1, <2>2, <2>3, <2>5 DEF L
<1> QED BY <1>2, <1>3

\* The checksum is the difference to a multiple of the largest word.
LEMMA ChecksumValue ==
  ASSUME NEW n \in Nat
  PROVE  /\ Complement(Folded(n)) \in Nat
         /\ n + Complement(Folded(n)) \in Nat /\ (n + Complement(Folded(n))) % (WORD - 1) = 0
<1> DEFINE m == WORD - 1
           F == Folded(n)
           e == n % m
           p == n \div m
<1>0. WORD \in Nat /\ WORD > 3 /\ m \in Nat /\ m > 0
  BY WordSize
<1>1. F \in 0 .. WORD - 1 /\ F % m = e
  BY FoldedFacts
<1>2. F % WORD = F
  <2> HIDE DEF F
  <2>1. F \in Nat /\ F = WORD * 0 + F /\ 0 \in Int
    BY <1>0, <1>1
  <2> QED BY <1>0, <1>1, <2>1, ModUnique
<1>3. Complement(F) = m - F
  BY <1>2 DEF Complement
<1>4. p \in Nat /\ e \in 0 .. m - 1 /\ n = m * p + e
  BY <1>0, Euclid
<1> DEFINE u == F \div m
<1>5. u \in Nat /\ F = m * u + e
  <2> HIDE DEF m, F, e
  <2>1. F \in Nat
    BY <1>0, <1>1 DEF m
  <2> QED BY <1>0, <1>1, <2>1, Euclid
<1>6. m - F \in Nat
  <2> HIDE DEF F
  <2> QED BY <1>0, <1>1
<1> HIDE DEF F, e, p, u, m
<1>7. m * (p + 1 - u) = m * p + m - m * u /\ m * p \in Nat /\ m * u \in Nat
  BY <1>0, <1>4, <1>5
<1>8. n + (m - F) \in Nat /\ n + (m - F) = m * (p + 1 - u) + 0 /\ p + 1 - u \in Int /\ 0 \in 0 .. m - 1
  BY <1>0, <1>4, <1>5, <1>6, <1>7
<1>9. (n + (m - F)) % m = 0
  BY <1>0, <1>8, ModUnique
<1> QED BY <1>3, <1>6, <1>8, <1>9 DEF F, m

\* The segment net_build_tcp builds has a sum the receiver accepts.
LEMMA SegmentVerifies ==
  ASSUME NEW ps \in Nat, NEW hdr \in [1 .. HEADER -> Bytes], NEW data \in Seq(Bytes)
  PROVE  Verifies(ps, Segment(ps, hdr, data))
<1>0. BYTE \in Nat /\ BYTE > 1 /\ HEADER \in Nat /\ HEADER % 2 = 0 /\ Bytes \subseteq Nat
  BY NetAssumption DEF Bytes
<1> DEFINE h == HEADER \div 2
<1>1. h \in Nat /\ HEADER = 2 * h
  BY <1>0
<1> HIDE DEF h
<1>2. hdr \in [1 .. HEADER -> Nat] /\ data \in Seq(Nat)
  <2>1. data \in [1 .. Len(data) -> Bytes] /\ Len(data) \in Nat
    OBVIOUS
  <2>2. data \in [1 .. Len(data) -> Nat]
    BY <1>0, <2>1
  <2>3. data \in Seq(Nat)
    BY <2>1, <2>2
  <2> QED BY <1>0, <2>3
<1> DEFINE z == hdr \o <<0, 0>> \o data
           L == HEADER + 2 + Len(data)
           K == (L + 1) \div 2
<1>3. L \in Nat /\ K \in Nat /\ (L = 2 * K \/ L = 2 * K - 1)
  <2>1. L \in Nat
    BY <1>0, <1>2
  <2> HIDE DEF L
  <2> QED BY <2>1, WordCount
<1>4. /\ z \in Seq(Nat) /\ Len(z) = L
      /\ \A i \in 1 .. L : z[i] = IF i <= HEADER THEN hdr[i]
             ELSE IF i = HEADER + 1 THEN 0 ELSE IF i = HEADER + 2 THEN 0 ELSE data[i - HEADER - 2]
  <2>1. 0 \in Nat
    OBVIOUS
  <2>2. Holds(z, HEADER, hdr, 0, 0, data)
    BY <1>0, <1>2, <2>1, BufferBytes, Zenon
  <2> HIDE DEF z
  <2> QED BY <2>2 DEF Holds
<1>5. K = (Len(z) + 1) \div 2
  BY <1>4
<1> HIDE DEF z, K
<1>6. PICK f : WordRuns(f, z, K) /\ WordSum(z) = f[K]
  BY <1>3, <1>4, <1>5, WordSumRuns, Zenon
<1> DEFINE c == Checksum(ps, z)
           a == c \div BYTE
           b == c % BYTE
           t == hdr \o <<a, b>> \o data
<1>7. c \in Nat /\ (ps + f[K] + c) % (WORD - 1) = 0
  <2>1. ps + f[K] \in Nat
    BY <1>6 DEF WordRuns
  <2>2. c = Complement(Folded(ps + f[K]))
    BY <1>6 DEF Checksum
  <2> HIDE DEF c
  <2> QED BY <2>1, <2>2, ChecksumValue, Zenon
<1>8. Segment(ps, hdr, data) = t
  BY DEF Segment, NetworkOrder, z
<1> HIDE DEF c
<1>9. a \in Nat /\ b \in Nat /\ c = BYTE * a + b
  BY <1>0, <1>7, Euclid
<1> HIDE DEF a, b
<1>10. /\ t \in Seq(Nat) /\ Len(t) = L
       /\ \A i \in 1 .. L : t[i] = IF i <= HEADER THEN hdr[i]
             ELSE IF i = HEADER + 1 THEN a ELSE IF i = HEADER + 2 THEN b ELSE data[i - HEADER - 2]
  <2>1. Holds(t, HEADER, hdr, a, b, data)
    BY <1>0, <1>2, <1>9, BufferBytes, Zenon
  <2> HIDE DEF t
  <2> QED BY <2>1 DEF Holds
<1>11. K = (Len(t) + 1) \div 2
  BY <1>10 DEF K
<1> HIDE DEF t, L
<1> DEFINE p == Padded(t)
<1>12. /\ p \in Seq(Nat) /\ Len(p) = 2 * K
       /\ \A i \in 1 .. 2 * K : p[i] = IF i <= L THEN t[i] ELSE 0
  BY <1>3, <1>10, <1>11, PaddedBytes
<1>13. PICK g : ByteRuns(g, ps, p, K) /\ Verifies(ps, t) = (g[2 * K] % (WORD - 1) = 0)
  BY <1>3, <1>12, ByteSumRuns, Zenon
<1> HIDE DEF p
<1>14. HEADER + 2 <= L
  BY <1>0, <1>2 DEF L
<1>15. ASSUME NEW k \in 1 .. K
       PROVE  p[2 * k - 1] * BYTE + p[2 * k] = WordAt(z, k) + (IF k = h + 1 THEN c ELSE 0)
  <2> DEFINE i == 2 * k - 1
             j == 2 * k
  <2>1. i \in 1 .. 2 * K /\ j \in 1 .. 2 * K /\ i <= L /\ i \in 1 .. L /\ (j <= L => j \in 1 .. L)
    BY <1>3
  <2>2. p[i] = t[i] /\ p[j] = IF j <= L THEN t[j] ELSE 0
    <3> HIDE DEF i, j
    <3> QED BY <1>12, <2>1
  <2>3. WordAt(z, k) = z[i] * BYTE + (IF j <= L THEN z[j] ELSE 0)
    BY <1>4 DEF WordAt
  <2>4. CASE k = h + 1
    <3>1. i = HEADER + 1 /\ j = HEADER + 2
      BY <1>1, <2>4
    <3> HIDE DEF i, j
    <3>2. z[i] = 0 /\ z[j] = 0 /\ t[i] = a /\ t[j] = b /\ j <= L
      <4>1. ~(i <= HEADER) /\ ~(j <= HEADER) /\ j # HEADER + 1 /\ j <= L
        BY <1>0, <1>14, <3>1
      <4> QED BY <1>4, <1>10, <2>1, <3>1, <4>1
    <3>3. p[i] * BYTE + p[j] = a * BYTE + b
      BY <2>2, <3>2
    <3>4. WordAt(z, k) = 0
      BY <1>0, <2>3, <3>2
    <3>5. a * BYTE = BYTE * a
      BY <1>0, <1>9
    <3>6. p[i] * BYTE + p[j] = WordAt(z, k) + c
      BY <1>7, <1>9, <3>3, <3>4, <3>5
    <3> QED BY <2>4, <3>6 DEF i, j
  <2>5. CASE k # h + 1
    <3>1. i # HEADER + 1 /\ i # HEADER + 2 /\ j # HEADER + 1 /\ j # HEADER + 2
      BY <1>1, <2>5
    <3> HIDE DEF i, j
    <3>2. z[i] = t[i] /\ (j <= L => z[j] = t[j])
      BY <1>4, <1>10, <2>1, <3>1
    <3>3. p[i] * BYTE + p[j] = WordAt(z, k)
      BY <2>2, <2>3, <3>2
    <3>4. WordAt(z, k) \in Nat
      BY <1>6 DEF WordRuns
    <3>5. p[i] * BYTE + p[j] = WordAt(z, k) + 0
      BY <3>3, <3>4
    <3> QED BY <2>5, <3>5 DEF i, j
  <2> QED BY <2>4, <2>5
<1>16. h < K
  BY <1>1, <1>3, <1>14
<1>17. Stored(p, z, K, h, c)
  BY <1>15 DEF Stored
<1>18. g[2 * K] = ps + f[K] + c
  BY <1>1, <1>3, <1>6, <1>7, <1>12, <1>13, <1>16, <1>17, SumsAgree
<1>19. Verifies(ps, t)
  BY <1>7, <1>13, <1>18
<1> QED BY <1>8, <1>19

\* The inductive invariant of the frame builders' inputs: bytes.
NetIInv == pseudo \in Nat /\ header \in [1 .. HEADER -> Bytes] /\ payload \in Seq(Bytes)

\* A receiver accepts every segment net_build_tcp builds, of whatever header, payload and
\* pseudo-header, with or without an odd tail and however often the sum carries.
THEOREM NetChecksum == NetSpec => []ChecksumVerifies
<1>1. NetInit => NetIInv
  BY NetAssumption DEF NetInit, NetIInv
<1>2. NetIInv /\ [Extend]_netVars => NetIInv'
  <2> SUFFICES ASSUME NetIInv, [Extend]_netVars PROVE NetIInv'
    OBVIOUS
  <2>1. CASE Extend
    BY <2>1 DEF NetIInv, Extend
  <2>2. CASE UNCHANGED netVars
    BY <2>2 DEF NetIInv, netVars
  <2> QED BY <2>1, <2>2
<1>3. NetIInv => ChecksumVerifies
  BY SegmentVerifies, Zenon DEF NetIInv, ChecksumVerifies
<1> QED BY <1>1, <1>2, <1>3, PTL DEF NetSpec
=============================================================================
