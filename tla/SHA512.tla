------------------------------- MODULE SHA512 -------------------------------
(***************************************************************************)
(* SHA-512 (kernel/crypto.c) at its real size: compression function,       *)
(* buffering of a message that comes in pieces, and padding.               *)
(*                                                                         *)
(* A 64-bit word is the sequence of its eight bytes, the most significant  *)
(* first; sums are taken modulo 2^64 byte by byte.                         *)
(***************************************************************************)
EXTENDS Integers, Sequences, SequencesExt, Bitwise

CONSTANTS
  Messages,      \* messages, sequences of bytes
  Cuts           \* lengths at which a message may be cut into pieces

BLOCK == 128
LENGTH_AT == 112  \* where the length field begins

sha_k ==
  <<<<66, 138, 47, 152, 215, 40, 174, 34>>, <<113, 55, 68, 145, 35, 239, 101, 205>>,
    <<181, 192, 251, 207, 236, 77, 59, 47>>, <<233, 181, 219, 165, 129, 137, 219, 188>>,
    <<57, 86, 194, 91, 243, 72, 181, 56>>, <<89, 241, 17, 241, 182, 5, 208, 25>>,
    <<146, 63, 130, 164, 175, 25, 79, 155>>, <<171, 28, 94, 213, 218, 109, 129, 24>>,
    <<216, 7, 170, 152, 163, 3, 2, 66>>, <<18, 131, 91, 1, 69, 112, 111, 190>>,
    <<36, 49, 133, 190, 78, 228, 178, 140>>, <<85, 12, 125, 195, 213, 255, 180, 226>>,
    <<114, 190, 93, 116, 242, 123, 137, 111>>, <<128, 222, 177, 254, 59, 22, 150, 177>>,
    <<155, 220, 6, 167, 37, 199, 18, 53>>, <<193, 155, 241, 116, 207, 105, 38, 148>>,
    <<228, 155, 105, 193, 158, 241, 74, 210>>, <<239, 190, 71, 134, 56, 79, 37, 227>>,
    <<15, 193, 157, 198, 139, 140, 213, 181>>, <<36, 12, 161, 204, 119, 172, 156, 101>>,
    <<45, 233, 44, 111, 89, 43, 2, 117>>, <<74, 116, 132, 170, 110, 166, 228, 131>>,
    <<92, 176, 169, 220, 189, 65, 251, 212>>, <<118, 249, 136, 218, 131, 17, 83, 181>>,
    <<152, 62, 81, 82, 238, 102, 223, 171>>, <<168, 49, 198, 109, 45, 180, 50, 16>>,
    <<176, 3, 39, 200, 152, 251, 33, 63>>, <<191, 89, 127, 199, 190, 239, 14, 228>>,
    <<198, 224, 11, 243, 61, 168, 143, 194>>, <<213, 167, 145, 71, 147, 10, 167, 37>>,
    <<6, 202, 99, 81, 224, 3, 130, 111>>, <<20, 41, 41, 103, 10, 14, 110, 112>>,
    <<39, 183, 10, 133, 70, 210, 47, 252>>, <<46, 27, 33, 56, 92, 38, 201, 38>>,
    <<77, 44, 109, 252, 90, 196, 42, 237>>, <<83, 56, 13, 19, 157, 149, 179, 223>>,
    <<101, 10, 115, 84, 139, 175, 99, 222>>, <<118, 106, 10, 187, 60, 119, 178, 168>>,
    <<129, 194, 201, 46, 71, 237, 174, 230>>, <<146, 114, 44, 133, 20, 130, 53, 59>>,
    <<162, 191, 232, 161, 76, 241, 3, 100>>, <<168, 26, 102, 75, 188, 66, 48, 1>>,
    <<194, 75, 139, 112, 208, 248, 151, 145>>, <<199, 108, 81, 163, 6, 84, 190, 48>>,
    <<209, 146, 232, 25, 214, 239, 82, 24>>, <<214, 153, 6, 36, 85, 101, 169, 16>>,
    <<244, 14, 53, 133, 87, 113, 32, 42>>, <<16, 106, 160, 112, 50, 187, 209, 184>>,
    <<25, 164, 193, 22, 184, 210, 208, 200>>, <<30, 55, 108, 8, 81, 65, 171, 83>>,
    <<39, 72, 119, 76, 223, 142, 235, 153>>, <<52, 176, 188, 181, 225, 155, 72, 168>>,
    <<57, 28, 12, 179, 197, 201, 90, 99>>, <<78, 216, 170, 74, 227, 65, 138, 203>>,
    <<91, 156, 202, 79, 119, 99, 227, 115>>, <<104, 46, 111, 243, 214, 178, 184, 163>>,
    <<116, 143, 130, 238, 93, 239, 178, 252>>, <<120, 165, 99, 111, 67, 23, 47, 96>>,
    <<132, 200, 120, 20, 161, 240, 171, 114>>, <<140, 199, 2, 8, 26, 100, 57, 236>>,
    <<144, 190, 255, 250, 35, 99, 30, 40>>, <<164, 80, 108, 235, 222, 130, 189, 233>>,
    <<190, 249, 163, 247, 178, 198, 121, 21>>, <<198, 113, 120, 242, 227, 114, 83, 43>>,
    <<202, 39, 62, 206, 234, 38, 97, 156>>, <<209, 134, 184, 199, 33, 192, 194, 7>>,
    <<234, 218, 125, 214, 205, 224, 235, 30>>, <<245, 125, 79, 127, 238, 110, 209, 120>>,
    <<6, 240, 103, 170, 114, 23, 111, 186>>, <<10, 99, 125, 197, 162, 200, 152, 166>>,
    <<17, 63, 152, 4, 190, 249, 13, 174>>, <<27, 113, 11, 53, 19, 28, 71, 27>>,
    <<40, 219, 119, 245, 35, 4, 125, 132>>, <<50, 202, 171, 123, 64, 199, 36, 147>>,
    <<60, 158, 190, 10, 21, 201, 190, 188>>, <<67, 29, 103, 196, 156, 16, 13, 76>>,
    <<76, 197, 212, 190, 203, 62, 66, 182>>, <<89, 127, 41, 156, 252, 101, 126, 42>>,
    <<95, 203, 111, 171, 58, 214, 250, 236>>, <<108, 68, 25, 140, 74, 71, 88, 23>>>>

sha_iv ==
  <<<<106, 9, 230, 103, 243, 188, 201, 8>>, <<187, 103, 174, 133, 132, 202, 167, 59>>,
    <<60, 110, 243, 114, 254, 148, 248, 43>>, <<165, 79, 245, 58, 95, 29, 54, 241>>,
    <<81, 14, 82, 127, 173, 230, 130, 209>>, <<155, 5, 104, 140, 43, 62, 108, 31>>,
    <<31, 131, 217, 171, 251, 65, 189, 107>>, <<91, 224, 205, 25, 19, 126, 33, 121>>>>

VARIABLES
  message,       \* what the caller hashes
  given,         \* bytes of it passed to sha512_update so far
  finished,      \* sha512_final has been called
  sha_state, buffer, bitlen,    \* sha512_ctx_t
  todo,          \* full blocks of the call that are still to be compressed
  abc, rnd, msched,  \* sha512_transform: a to h, rounds done, schedule
  digest,        \* what sha512_final wrote
  compressed     \* history: the blocks that were compressed

shaVars == <<message, given, finished, sha_state, buffer, bitlen, todo, abc, rnd, msched,
             digest, compressed>>

----------------------------------------------------------------------------
(* Words.                                                                   *)

Word == 1 .. 8
XOR(x, y, z) == [i \in Word |-> (x[i] ^^ y[i]) ^^ z[i]]

\* Byte i of x shifted to the right by n bits; Get(j) is byte j of x.
Shifted(Get(_), n, i) ==
  LET q == n \div 8
      r == n % 8
  IN (Get(i - q) \div 2^r) + ((Get(i - q - 1) * 2^(8 - r)) % 256)
SHR(x, n) == [i \in Word |-> Shifted(LAMBDA j : IF j \in Word THEN x[j] ELSE 0, n, i)]

ROTR(x, n) == [i \in Word |-> Shifted(LAMBDA j : x[((j - 1) % 8) + 1], n, i)]

\* The sum of a sequence of words.
Add(terms) ==
  LET col[i \in 1 .. 9] ==
        IF i = 9 THEN <<0, <<>>>>
        ELSE LET right == col[i + 1]
                 sum == right[1] + FoldLeft(LAMBDA s, w : s + w[i], 0, terms)
             IN <<sum \div 256, <<sum % 256>> \o right[2]>>
  IN col[1][2]

Ch(x, y, z) == [i \in Word |-> (x[i] & y[i]) ^^ ((255 - x[i]) & z[i])]
Maj(x, y, z) == [i \in Word |-> ((x[i] & y[i]) ^^ (x[i] & z[i])) ^^ (y[i] & z[i])]
Sigma0(x) == XOR(ROTR(x, 28), ROTR(x, 34), ROTR(x, 39))
Sigma1(x) == XOR(ROTR(x, 14), ROTR(x, 18), ROTR(x, 41))
sigma0(x) == XOR(ROTR(x, 1), ROTR(x, 8), SHR(x, 7))
sigma1(x) == XOR(ROTR(x, 19), ROTR(x, 61), SHR(x, 6))

----------------------------------------------------------------------------
(* The compression function.                                                *)

\* sha512_init leaves the buffer as it finds it on the stack.
ShaInit ==
  /\ message \in Messages /\ given = 0 /\ finished = FALSE
  /\ sha_state = sha_iv /\ buffer = [i \in 1 .. BLOCK |-> 165] /\ bitlen = 0
  /\ todo = <<>> /\ abc = <<>> /\ rnd = 0 /\ msched = <<>>
  /\ digest = <<>> /\ compressed = <<>>

\* sha512_transform with the next block,
BeginBlock ==
  /\ todo # <<>> /\ abc = <<>>
  /\ abc' = sha_state /\ rnd' = 0
  /\ msched' = [i \in 1 .. 16 |-> SubSeq(Head(todo), 8 * i - 7, 8 * i)]
  /\ UNCHANGED <<message, given, finished, sha_state, buffer, bitlen, todo, digest, compressed>>

\* Word n of the schedule, from the 16 before it.
NextWordOf(n) == Add(<<sigma1(msched[n - 2]), msched[n - 7], sigma0(msched[n - 15]), msched[n - 16]>>)

\* its rounds, each with the word of the schedule it needs,
Round ==
  LET n == rnd + 1
      a == abc[1]
      e == abc[5]
      word == IF n > 16 THEN NextWordOf(n) ELSE msched[n]
      t1 == Add(<<abc[8], Sigma1(e), Ch(e, abc[6], abc[7]), sha_k[n], word>>)
      t2 == Add(<<Sigma0(a), Maj(a, abc[2], abc[3])>>)
  IN /\ abc # <<>> /\ rnd < 80 /\ rnd' = n
     /\ msched' = IF n > 16 THEN Append(msched, word) ELSE msched
     /\ abc' = <<Add(<<t1, t2>>), a, abc[2], abc[3], Add(<<abc[4], t1>>), e, abc[6], abc[7]>>
     /\ UNCHANGED <<message, given, finished, sha_state, buffer, bitlen, todo, digest, compressed>>

\* and the sum with the state before.
EndBlock ==
  /\ abc # <<>> /\ rnd = 80
  /\ sha_state' = [j \in Word |-> Add(<<sha_state[j], abc[j]>>)]
  /\ compressed' = Append(compressed, Head(todo)) /\ todo' = Tail(todo)
  /\ abc' = <<>> /\ rnd' = 0 /\ msched' = <<>>
  /\ UNCHANGED <<message, given, finished, buffer, bitlen, digest>>

----------------------------------------------------------------------------
(* The message.                                                             *)

active == (bitlen \div 8) % BLOCK

\* A stream that begins where the buffer does: its full blocks are
\* compressed, the rest stays in the buffer over what was there.
Absorb(stream) ==
  LET full == Len(stream) \div BLOCK
      rest == SubSeq(stream, BLOCK * full + 1, Len(stream))
  IN /\ todo = <<>>
     /\ todo' = [j \in 1 .. full |-> SubSeq(stream, BLOCK * (j - 1) + 1, BLOCK * j)]
     /\ buffer' = rest \o SubSeq(IF full = 0 THEN buffer ELSE todo'[full], Len(rest) + 1, BLOCK)

\* Bytes given + 1 .. n of the message.
sha512_update(n) ==
  /\ ~finished /\ n \in given + 1 .. Len(message) /\ given' = n
  /\ Absorb(SubSeq(buffer, 1, active) \o SubSeq(message, given + 1, n))
  /\ bitlen' = bitlen + 8 * (n - given)
  /\ UNCHANGED <<message, finished, sha_state, abc, rnd, msched, digest, compressed>>

BigEndian(n, bytes) == [i \in 1 .. bytes |-> (n \div 256^(bytes - i)) % 256]
Zeros(n) == [i \in 1 .. n |-> 0]

\* Mutant: a length that just fits is taken for one that does not.
TooEager(used) == IF used >= LENGTH_AT THEN BLOCK + LENGTH_AT - used ELSE LENGTH_AT - used

\* How many zeros follow the marker when it ends at byte `used'.
ZerosAfter(used) == IF used > LENGTH_AT THEN BLOCK + LENGTH_AT - used ELSE LENGTH_AT - used

\* Of the length the upper eight bytes are always zero; of the others the
\* upper five are, for messages below 2 MiB.
sha512_final ==
  /\ ~finished /\ given = Len(message) /\ finished' = TRUE
  /\ Absorb(SubSeq(buffer, 1, active) \o <<128>> \o Zeros(ZerosAfter(active + 1))
            \o Zeros(13) \o BigEndian(bitlen, 3))
  /\ UNCHANGED <<message, given, sha_state, bitlen, abc, rnd, msched, digest, compressed>>

WriteDigest ==
  /\ finished /\ todo = <<>> /\ digest = <<>>
  /\ digest' = FlattenSeq(sha_state)
  /\ UNCHANGED <<message, given, finished, sha_state, buffer, bitlen, todo, abc, rnd, msched, compressed>>

ShaNext ==
  \/ \E n \in Cuts \cup {Len(message)} : sha512_update(n)
  \/ sha512_final \/ WriteDigest
  \/ BeginBlock \/ Round \/ EndBlock
ShaSpec == ShaInit /\ [][ShaNext]_shaVars

----------------------------------------------------------------------------
(* FIPS 180-4.                                                              *)

\* Numbers as sequences of digits to the base 256, the least one first.
Digits(n, x) == [i \in 1 .. n |-> IF i <= Len(x) THEN x[i] ELSE 0]
Carried(cols) ==
  LET upto[i \in 0 .. Len(cols)] ==
        IF i = 0 THEN <<0, <<>>>>
        ELSE LET left == upto[i - 1]
                 sum == left[1] + cols[i]
             IN <<sum \div 256, Append(left[2], sum % 256)>>
  IN upto[Len(cols)][2]
Mul(x, y) ==
  Carried([n \in 1 .. Len(x) + Len(y) |->
    FoldLeft(LAMBDA s, i : s + (IF n - i + 1 \in 1 .. Len(y) THEN x[i] * y[n - i + 1] ELSE 0),
             0, [i \in 1 .. Len(x) |-> i])])
Less(x, y) ==
  \E i \in 1 .. Len(x) : x[i] < y[i] /\ \A j \in i + 1 .. Len(x) : x[j] = y[j]

Powered(x, e) == IF e = 2 THEN Mul(x, x) ELSE Mul(x, Mul(x, x))

\* The word is the fraction of the e-th root of p to 64 bits: with the whole
\* part in front, its power does not exceed p and that of the next number does.
IsRoot(word, p, e) ==
  LET whole == CHOOSE c \in 1 .. 20 : c^e <= p /\ p < (c + 1)^e
      this == Append(Reverse(word), whole)
      next == Carried([this EXCEPT ![1] = @ + 1])
      target == Digits(9 * e, Zeros(8 * e) \o <<p % 256, p \div 256>>)
  IN ~Less(target, Powered(this, e)) /\ Less(target, Powered(next, e))

Primes ==
  SelectSeq([i \in 1 .. 408 |-> i + 1], LAMBDA n : \A d \in 2 .. 20 : d < n => n % d # 0)

\* All constants are those of the standard: roots of the first primes.  No
\* self-test of the kernel computes a digest (crypto.c:253-323).
ConstantsRight ==
  /\ Len(sha_k) = 80 /\ Len(sha_iv) = 8 /\ Len(Primes) = 80
  /\ \A i \in 1 .. 80 : IsRoot(sha_k[i], Primes[i], 3)
  /\ \A i \in 1 .. 8 : IsRoot(sha_iv[i], Primes[i], 2)

\* The message, a marker, the least number of zeros, and the length in bits.
Padded(text) ==
  LET k == CHOOSE k \in 0 .. BLOCK - 1 : (Len(text) + 1 + k + 16) % BLOCK = 0
  IN text \o <<128>> \o Zeros(k + 13) \o BigEndian(8 * Len(text), 3)

\* However the message is cut, what has been compressed and what waits in the
\* buffer is what was given so far, and in the end the blocks compressed are
\* the padded message: also where the marker or the length no longer fits, and
\* whatever older bytes the buffer still holds (crypto.c:108-152).
Chunked ==
  LET done == FlattenSeq(compressed \o todo) IN
  IF finished THEN done = Padded(message)
  ELSE done \o SubSeq(buffer, 1, active) = SubSeq(message, 1, given)

\* Examples of the standard: the empty message, one block, two blocks.
Digests ==
  { [of |-> <<>>,
     is |-> <<207, 131, 225, 53, 126, 239, 184, 189, 241, 84, 40, 80, 214, 109, 128, 7,
              214, 32, 228, 5, 11, 87, 21, 220, 131, 244, 169, 33, 211, 108, 233, 206,
              71, 208, 209, 60, 93, 133, 242, 176, 255, 131, 24, 210, 135, 126, 236, 47,
              99, 185, 49, 189, 71, 65, 122, 129, 165, 56, 50, 122, 249, 39, 218, 62>>],
    [of |-> <<97, 98, 99>>,
     is |-> <<221, 175, 53, 161, 147, 97, 122, 186, 204, 65, 115, 73, 174, 32, 65, 49,
              18, 230, 250, 78, 137, 169, 126, 162, 10, 158, 238, 230, 75, 85, 211, 154,
              33, 146, 153, 42, 39, 79, 193, 168, 54, 186, 60, 35, 163, 254, 235, 189,
              69, 77, 68, 35, 100, 60, 232, 14, 42, 154, 201, 79, 165, 76, 164, 159>>],
    [of |-> [i \in 1 .. 112 |-> 97 + ((i - 1) \div 8) + ((i - 1) % 8)],
     is |-> <<142, 149, 155, 117, 218, 227, 19, 218, 140, 244, 247, 40, 20, 252, 20, 63,
              143, 119, 121, 198, 235, 159, 127, 161, 114, 153, 174, 173, 182, 136, 144, 24,
              80, 29, 40, 158, 73, 0, 247, 228, 51, 27, 153, 222, 196, 181, 67, 58,
              199, 211, 41, 238, 182, 221, 38, 84, 94, 150, 229, 91, 135, 75, 233, 9>>] }
KnownDigests == \A d \in Digests : message = d.of /\ digest # <<>> => digest = d.is

\* The digest is the standard's for every way to cut the message.
ShaInv ==
  /\ Len(buffer) = BLOCK /\ rnd \in 0 .. 80 /\ given \in 0 .. Len(message)
  /\ ConstantsRight /\ Chunked /\ KnownDigests
=============================================================================
