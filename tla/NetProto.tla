------------------------------ MODULE NetProto ------------------------------
(***************************************************************************)
(* The frame builders (kernel/net_proto.c): the Internet checksum of IPv4  *)
(* and TCP headers, and the lengths a frame is refused for.                *)
(*                                                                         *)
(* A segment is what the checksum covers: a pseudo-header, some header     *)
(* bytes, the two bytes of the checksum, and the payload.  The IPv4 header *)
(* is the case of no pseudo-header and no payload.  The state is a segment *)
(* whose payload is handed over byte by byte.                              *)
(***************************************************************************)
EXTENDS Naturals, Sequences

CONSTANTS
  BYTE,              \* values of a byte (256)
  HEADER,            \* bytes of the header besides the checksum, an even number
  Pseudo,            \* sums the pseudo-header may have
  NET_PAYLOAD_MAX    \* NET_TCP_PAYLOAD_MAX

WORD == BYTE * BYTE
Bytes == 0 .. BYTE - 1

ASSUME NetAssumption ==
  /\ {BYTE, HEADER, NET_PAYLOAD_MAX} \subseteq Nat /\ BYTE > 1 /\ HEADER % 2 = 0
  /\ Pseudo \subseteq Nat

VARIABLES pseudo, header, payload

netVars == <<pseudo, header, payload>>

----------------------------------------------------------------------------
(* The checksum.                                                            *)

\* Mutant: an odd last byte is taken for the low half of its word.
LowTail(buf, k) ==
  IF 2 * k <= Len(buf) THEN buf[2 * k - 1] * BYTE + buf[2 * k] ELSE buf[2 * k - 1]

\* Word k of a buffer; an odd last byte is the high half of its word.
WordAt(buf, k) ==
  buf[2 * k - 1] * BYTE + (IF 2 * k <= Len(buf) THEN buf[2 * k] ELSE 0)

WordSum(buf) ==
  LET sum[k \in 0 .. (Len(buf) + 1) \div 2] ==
        IF k = 0 THEN 0 ELSE sum[k - 1] + WordAt(buf, k)
  IN  sum[(Len(buf) + 1) \div 2]

\* Carries are added back in until none is left.
Folded(n) ==
  LET fold[s \in Nat] ==
        IF s < WORD THEN s ELSE fold[(s % WORD) + (s \div WORD)]
  IN  fold[n]

Complement(n) == WORD - 1 - (n % WORD)

\* The checksum over the segment while its checksum field is zero.
Checksum(ps, buf) == Complement(Folded(ps + WordSum(buf)))

\* Numbers are stored most significant byte first.
NetworkOrder(c) == <<c \div BYTE, c % BYTE>>

\* net_build_tcp: the checksum is computed over header, a zero field and payload,
\* then stored in the field.
Segment(ps, hdr, data) ==
  LET c == Checksum(ps, hdr \o <<0, 0>> \o data)
  IN  hdr \o NetworkOrder(c) \o data

\* The builders refuse a payload that would not fit the frame.
Refused(data) == Len(data) > NET_PAYLOAD_MAX

----------------------------------------------------------------------------
(* The segments.                                                            *)

NetInit == /\ pseudo \in Pseudo
           /\ header \in [1 .. HEADER -> Bytes]
           /\ payload = <<>>

\* A caller's payload is one byte longer.
Extend == /\ ~Refused(payload)
          /\ \E b \in Bytes : payload' = Append(payload, b)
          /\ UNCHANGED <<pseudo, header>>

NetSpec == NetInit /\ [][Extend]_netVars

----------------------------------------------------------------------------
(* Properties.                                                              *)

\* What a receiver computes, without the folding: the sum of all words, an odd
\* last byte padded with zero, is a multiple of the largest word.
Padded(buf) == IF Len(buf) % 2 = 0 THEN buf ELSE Append(buf, 0)

Verifies(ps, buf) ==
  LET p == Padded(buf)
      sum[k \in 0 .. Len(p)] ==
        IF k = 0 THEN ps
        ELSE sum[k - 1] + (IF k % 2 = 1 THEN p[k] * BYTE ELSE p[k])
  IN  sum[Len(p)] % (WORD - 1) = 0

\* A receiver accepts every segment net_build_tcp builds: the checksum of words,
\* carries and an odd tail is the one the standard defines.
ChecksumVerifies ==
  ~Refused(payload) => Verifies(pseudo, Segment(pseudo, header, payload))
=============================================================================
