------------------------------- MODULE ChaCha -------------------------------
(***************************************************************************)
(* The stream cipher ChaCha20 (kernel/chacha20.c) at its real size, as     *)
(* tor_send_cell uses it: a text is encrypted in place under one key after *)
(* another, always from counter 1 with the same nonce, and the receivers   *)
(* take the layers off in some order.  One step is a double round or the   *)
(* addition of a block of key stream.                                      *)
(*                                                                         *)
(* A 32-bit word is the sequence of its four bytes, the most significant   *)
(* first.                                                                  *)
(***************************************************************************)
EXTENDS Integers, Sequences, SequencesExt, Bitwise

CONSTANTS
  ChachaKeys,    \* keys of 32 bytes, the order in which the layers are put on
  Nonces,        \* nonces of 12 bytes
  Texts          \* plaintexts

VARIABLES
  text,          \* what is to be sent
  nonce,
  buf,           \* the buffer that is encrypted in place
  layers,        \* numbers of the keys whose layers are on
  peeling,       \* the layers are being taken off
  state,         \* ctx->state of the running call, <<>> outside of calls
  pos,           \* bytes of the buffer done
  working,       \* chacha20_block: working words, <<>> outside of it
  turns,         \* double rounds done
  used           \* history: block counters of the running call

chachaVars == <<text, nonce, buf, layers, peeling, state, pos, working, turns, used>>

Add32(v, w) ==
  LET d4 == v[4] + w[4]
      d3 == v[3] + w[3] + (d4 \div 256)
      d2 == v[2] + w[2] + (d3 \div 256)
      d1 == v[1] + w[1] + (d2 \div 256)
  IN <<d1 % 256, d2 % 256, d3 % 256, d4 % 256>>
Xor32(v, w) == <<v[1] ^^ w[1], v[2] ^^ w[2], v[3] ^^ w[3], v[4] ^^ w[4]>>

\* Rotation by whole bytes and by the bits that are left.
ROTL32(v, n) ==
  LET At(i) == v[((i - 1 + (n \div 8)) % 4) + 1]
      Up(i) == ((At(i) * 2^(n % 8)) % 256) + (At(i + 1) \div 2^(8 - (n % 8)))
  IN <<Up(1), Up(2), Up(3), Up(4)>>

\* Mutant: the second and third rotation change places.
Swapped(s) ==
  LET a1 == Add32(s[1], s[2])    d1 == ROTL32(Xor32(s[4], a1), 16)
      c1 == Add32(s[3], d1)      b1 == ROTL32(Xor32(s[2], c1), 8)
      a2 == Add32(a1, b1)        d2 == ROTL32(Xor32(d1, a2), 12)
      c2 == Add32(c1, d2)        b2 == ROTL32(Xor32(b1, c2), 7)
  IN <<a2, b2, c2, d2>>

\* The quarter round on s = <<a, b, c, d>>.
QR(s) ==
  LET a1 == Add32(s[1], s[2])    d1 == ROTL32(Xor32(s[4], a1), 16)
      c1 == Add32(s[3], d1)      b1 == ROTL32(Xor32(s[2], c1), 12)
      a2 == Add32(a1, b1)        d2 == ROTL32(Xor32(d1, a2), 8)
      c2 == Add32(c1, d2)        b2 == ROTL32(Xor32(b1, c2), 7)
  IN <<a2, b2, c2, d2>>

\* Four quarter rounds side by side; quarter q works on the words At(q).
Four(w, At(_)) ==
  LET result == [q \in 0 .. 3 |-> QR([i \in 1 .. 4 |-> w[At(q)[i] + 1]])]
  IN [k \in 1 .. 16 |->
        LET q == CHOOSE q \in 0 .. 3 : \E i \in 1 .. 4 : At(q)[i] + 1 = k
            i == CHOOSE i \in 1 .. 4 : At(q)[i] + 1 = k
        IN result[q][i]]
Columns(w) == Four(w, LAMBDA q : <<q, q + 4, q + 8, q + 12>>)
Diagonals(w) ==
  Four(w, LAMBDA q : <<q, 4 + ((q + 1) % 4), 8 + ((q + 2) % 4), 12 + ((q + 3) % 4)>>)

load32_le(bytes, i) == <<bytes[i + 4], bytes[i + 3], bytes[i + 2], bytes[i + 1]>>

\* The state chacha20_init makes, with the words "expand 32-byte k".
chacha20_init(k, n, counter) ==
  << <<97, 112, 120, 101>>, <<51, 32, 100, 110>>, <<121, 98, 45, 50>>, <<107, 32, 101, 116>> >>
  \o [i \in 1 .. 8 |-> load32_le(k, 4 * (i - 1))]
  \o <<counter>> \o [i \in 1 .. 3 |-> load32_le(n, 4 * (i - 1))]

----------------------------------------------------------------------------

ChachaInit ==
  /\ text \in Texts /\ nonce \in Nonces /\ buf = text
  /\ layers = <<>> /\ peeling = FALSE
  /\ state = <<>> /\ pos = 0 /\ working = <<>> /\ turns = 0 /\ used = <<>>

\* chacha20_encrypt in place with key number l: the sender puts the layers on
\* in order, the receivers take off any that is on.
chacha20_encrypt(l) ==
  /\ state = <<>> /\ l \in DOMAIN ChachaKeys
  /\ peeling' = (peeling \/ Len(layers) = Len(ChachaKeys))
  /\ IF peeling' THEN \E i \in DOMAIN layers : layers[i] = l ELSE l = Len(layers) + 1
  /\ layers' = IF peeling' THEN SelectSeq(layers, LAMBDA i : i # l) ELSE Append(layers, l)
  /\ state' = chacha20_init(ChachaKeys[l], nonce, <<0, 0, 0, 1>>)
  /\ pos' = 0 /\ used' = <<>>
  /\ UNCHANGED <<text, nonce, buf, working, turns>>

\* chacha20_xor: the next block of key stream,
BeginStream ==
  /\ state # <<>> /\ working = <<>> /\ pos < Len(buf)
  /\ working' = state /\ turns' = 0 /\ used' = Append(used, state[13])
  /\ UNCHANGED <<text, nonce, buf, layers, peeling, state, pos>>

DoubleRound ==
  /\ working # <<>> /\ turns < 10 /\ turns' = turns + 1
  /\ \E w \in {Columns(working)} : working' = Diagonals(w)
  /\ UNCHANGED <<text, nonce, buf, layers, peeling, state, pos, used>>

Reversed(w) == <<w[4], w[3], w[2], w[1]>>
KeyStream == FlattenSeq([i \in 1 .. 16 |-> Reversed(Add32(working[i], state[i]))])

NextCounter(st) == [st EXCEPT ![13] = Add32(@, <<0, 0, 0, 1>>)]

\* which is added to as much of the buffer as is left,
XorStream ==
  LET chunk == IF Len(buf) - pos > 64 THEN 64 ELSE Len(buf) - pos
  IN /\ working # <<>> /\ turns = 10
     /\ \E ks \in {KeyStream} :
          buf' = [i \in 1 .. Len(buf) |-> IF i - pos \in 1 .. chunk THEN buf[i] ^^ ks[i - pos]
                                          ELSE buf[i]]
     /\ pos' = pos + chunk /\ state' = NextCounter(state) /\ working' = <<>>
     /\ UNCHANGED <<text, nonce, layers, peeling, turns, used>>

\* until the buffer is done.
EndStream ==
  /\ state # <<>> /\ working = <<>> /\ pos = Len(buf)
  /\ state' = <<>>
  /\ UNCHANGED <<text, nonce, buf, layers, peeling, pos, working, turns, used>>

ChachaNext ==
  \/ \E l \in DOMAIN ChachaKeys : chacha20_encrypt(l)
  \/ BeginStream \/ DoubleRound \/ XorStream \/ EndStream
ChachaSpec == ChachaInit /\ [][ChachaNext]_chachaVars

----------------------------------------------------------------------------

\* Whatever the order in which the layers come off, the text is back when the
\* last one is off, and not before (tor.c:81-86).
Peeled == state = <<>> => (buf = text <=> layers = <<>>)

\* Every block of a call has a key stream of its own.
OwnBlocks == \A i, j \in DOMAIN used : used[i] = used[j] => i = j

\* "RFC 7539 compliant" (chacha20.c:2): the example of section 2.4.2.
RfcKey == [i \in 1 .. 32 |-> i - 1]
RfcNonce == <<0, 0, 0, 0, 0, 0, 0, 74, 0, 0, 0, 0>>
RfcText ==
  <<76, 97, 100, 105, 101, 115, 32, 97, 110, 100, 32, 71, 101, 110, 116, 108, 101, 109,
    101, 110, 32, 111, 102, 32, 116, 104, 101, 32, 99, 108, 97, 115, 115, 32, 111, 102,
    32, 39, 57, 57, 58, 32, 73, 102, 32, 73, 32, 99, 111, 117, 108, 100, 32, 111,
    102, 102, 101, 114, 32, 121, 111, 117, 32, 111, 110, 108, 121, 32, 111, 110, 101, 32,
    116, 105, 112, 32, 102, 111, 114, 32, 116, 104, 101, 32, 102, 117, 116, 117, 114, 101,
    44, 32, 115, 117, 110, 115, 99, 114, 101, 101, 110, 32, 119, 111, 117, 108, 100, 32,
    98, 101, 32, 105, 116, 46>>
RfcCipher ==
  <<110, 46, 53, 154, 37, 104, 249, 128, 65, 186, 7, 40, 221, 13, 105, 129, 233, 126,
    122, 236, 29, 67, 96, 194, 10, 39, 175, 204, 253, 159, 174, 11, 249, 27, 101, 197,
    82, 71, 51, 171, 143, 89, 61, 171, 205, 98, 179, 87, 22, 57, 214, 36, 230, 81,
    82, 171, 143, 83, 12, 53, 159, 8, 97, 216, 7, 202, 13, 191, 80, 13, 106, 97,
    86, 163, 142, 8, 138, 34, 182, 94, 82, 188, 81, 77, 22, 204, 248, 6, 129, 140,
    233, 26, 183, 121, 55, 54, 90, 249, 11, 191, 116, 163, 91, 230, 180, 11, 142, 237,
    242, 120, 94, 66, 135, 77>>
RfcExample ==
  state = <<>> /\ layers = <<1>> /\ ~peeling /\ text = RfcText /\ nonce = RfcNonce
  /\ ChachaKeys[1] = RfcKey => buf = RfcCipher

\* Layers of the stream cipher come off in any order, and one layer is the
\* standard's (chacha20_encrypt).
ChachaInv ==
  /\ pos \in 0 .. Len(text) /\ turns \in 0 .. 10
  /\ Peeled /\ OwnBlocks /\ RfcExample
=============================================================================
