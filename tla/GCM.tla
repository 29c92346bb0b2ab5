-------------------------------- MODULE GCM ---------------------------------
(***************************************************************************)
(* AES-256-GCM (kernel/gcm.c) at its real size: a message is encrypted,    *)
(* what is stored may be changed, and it is decrypted.  One step is a      *)
(* block of key stream, or one byte of a multiplication of the hash.       *)
(***************************************************************************)
EXTENDS AES

CONSTANTS
  GcmKeys,
  GcmTexts,      \* pairs of additional data and plaintext
  Changes        \* what may happen to a stored message

VARIABLES
  gcm,           \* "idle", "mask", "stream", "hash" or "over"
  gkey,          \* aes_gcm_ctx_t: round keys and hash subkey
  task,          \* the running call: which, aad, in, tag; later mask and result
  gy,            \* counter block
  out,           \* bytes written so far
  hashing,       \* blocks that are still to be hashed, the current one first
  gx, gz, gv, byte,  \* ghash_multiply: factor, product, shifted factor, bytes done
  counters,      \* history: counter blocks this call encrypted
  plain          \* history: what was encrypted, and how it was stored

gcmVars == <<gcm, gkey, task, gy, out, hashing, gx, gz, gv, byte, counters, plain>>

IV == [i \in 1 .. 12 |-> 0]
Block0 == [i \in 1 .. 16 |-> 0]
XorBytes(a, b) == [i \in DOMAIN a |-> a[i] ^^ b[i]]

\* Mutant: the carry stops at the last byte.
OneByte(c) == [c EXCEPT ![16] = (@ + 1) % 256]

inc_counter(c) ==
  [j \in 1 .. 16 |-> IF j > 12 /\ \A k \in j + 1 .. 16 : c[k] = 255 THEN (c[j] + 1) % 256
                     ELSE c[j]]

----------------------------------------------------------------------------
(* ghash.                                                                   *)

\* A string in blocks, the last one filled up with zeros.
Blocks(s) ==
  [b \in 1 .. (Len(s) + 15) \div 16 |->
     [i \in 1 .. 16 |-> LET n == 16 * (b - 1) + i IN IF n <= Len(s) THEN s[n] ELSE 0]]

\* Both lengths in bits, of 64 bits each (below 2^16 here).
LengthBlock(a, c) ==
  LET Bits(n) == <<0, 0, 0, 0, 0, 0, (8 * n) \div 256, (8 * n) % 256>> IN Bits(a) \o Bits(c)

HashInput(aad, ct) == Blocks(aad) \o Blocks(ct) \o <<LengthBlock(Len(aad), Len(ct))>>

\* v one bit to the right, the bit that falls out folded back.
Halved(w) ==
  LET shifted == [j \in 1 .. 16 |-> (w[j] \div 2) + (IF j = 1 THEN 0 ELSE 128 * (w[j - 1] % 2))]
  IN IF w[16] % 2 = 1 THEN [shifted EXCEPT ![1] = @ ^^ 225] ELSE shifted

\* Product and shifted factor after the eight bits of a byte.
ByteOf(b, z0, v0) ==
  FoldLeft(LAMBDA s, i : [z |-> IF (b \div 2^(7 - i)) % 2 = 1 THEN XorBytes(s.z, s.v) ELSE s.z,
                          v |-> Halved(s.v)],
           [z |-> z0, v |-> v0], <<0, 1, 2, 3, 4, 5, 6, 7>>)

----------------------------------------------------------------------------
(* aes_gcm_encrypt and aes_gcm_decrypt.                                     *)

GcmInit ==
  /\ gcm = "idle" /\ gkey = <<>> /\ task = <<>>
  /\ gy = Block0 /\ out = <<>> /\ hashing = <<>>
  /\ gx = Block0 /\ gz = Block0 /\ gv = Block0 /\ byte = 0
  /\ counters = <<>> /\ plain = <<>>

Begin(t) ==
  /\ gcm' = "mask" /\ task' = t
  /\ gy' = IV \o <<0, 0, 0, 1>> /\ out' = <<>> /\ counters' = <<>>

\* aes_gcm_init, and the call with additional data and plaintext t.
aes_gcm_encrypt(k, t) ==
  /\ gcm = "idle" /\ plain = <<>>
  /\ \E w \in {aes256_init_encrypt(k)} :
       gkey' = [key |-> k, w |-> w, h |-> aes256_encrypt_block(w, Block0)]
  /\ Begin([call |-> "encrypt", aad |-> t.aad, in |-> t.pt, tag |-> <<>>])
  /\ plain' = [aad |-> t.aad, pt |-> t.pt, ct |-> <<>>, tag |-> <<>>, change |-> "none"]
  /\ UNCHANGED <<hashing, gx, gz, gv, byte>>

\* What the storage gives back.
Changed(change) ==
  LET aad == plain.aad
      ct == plain.ct
      Flip(s) == [s EXCEPT ![Len(s)] = @ ^^ 1]
  IN CASE change = "none" -> [aad |-> aad, ct |-> ct, tag |-> plain.tag]
       [] change = "tag" -> [aad |-> aad, ct |-> ct, tag |-> Flip(plain.tag)]
       [] change = "ct" -> [aad |-> aad, ct |-> Flip(ct), tag |-> plain.tag]
       [] change = "aad" -> [aad |-> Flip(aad), ct |-> ct, tag |-> plain.tag]
       [] change = "shorter" -> [aad |-> aad, ct |-> Front(ct), tag |-> plain.tag]
       [] change = "moved" -> [aad |-> Append(aad, Head(ct)), ct |-> Tail(ct), tag |-> plain.tag]

\* Changes that are possible: they need a byte to change.
MayChange(change) ==
  /\ change \in {"ct", "shorter", "moved"} => plain.ct # <<>>
  /\ change = "aad" => plain.aad # <<>>

aes_gcm_decrypt(change) ==
  /\ gcm = "idle" /\ plain # <<>> /\ MayChange(change)
  /\ LET s == Changed(change)
     IN Begin([call |-> "decrypt", aad |-> s.aad, in |-> s.ct, tag |-> s.tag])
  /\ plain' = [plain EXCEPT !.change = change]
  /\ UNCHANGED <<gkey, hashing, gx, gz, gv, byte>>

\* The mask of the tag is the first block of the key stream,
Mask ==
  /\ gcm = "mask" /\ gcm' = "stream"
  /\ task' = task @@ ("mask" :> aes256_encrypt_block(gkey.w, gy))
  /\ counters' = <<gy>>
  /\ UNCHANGED <<gkey, gy, out, hashing, gx, gz, gv, byte, plain>>

\* the others are added to the text,
Stream ==
  LET n == Len(out)
      chunk == SubSeq(task.in, n + 1, IF Len(task.in) - n >= 16 THEN n + 16 ELSE Len(task.in))
      ctr == inc_counter(gy)
  IN /\ gcm = "stream" /\ n < Len(task.in)
     /\ gy' = ctr /\ counters' = Append(counters, ctr)
     /\ out' = out \o XorBytes(chunk, aes256_encrypt_block(gkey.w, ctr))
     /\ UNCHANGED <<gcm, gkey, task, hashing, gx, gz, gv, byte, plain>>

\* the ciphertext, read or written, is hashed,
BeginHash ==
  /\ gcm = "stream" /\ Len(out) = Len(task.in) /\ gcm' = "hash"
  /\ hashing' = HashInput(task.aad, IF task.call = "encrypt" THEN out ELSE task.in)
  /\ gx' = Head(hashing') /\ gz' = Block0 /\ gv' = gkey.h /\ byte' = 0
  /\ UNCHANGED <<gkey, task, gy, out, counters, plain>>

Multiply ==
  /\ gcm = "hash" /\ byte < 16
  /\ \E s \in {ByteOf(gx[byte + 1], gz, gv)} : gz' = s.z /\ gv' = s.v
  /\ byte' = byte + 1
  /\ UNCHANGED <<gcm, gkey, task, gy, out, hashing, gx, counters, plain>>

NextBlock ==
  /\ gcm = "hash" /\ byte = 16 /\ Len(hashing) > 1
  /\ hashing' = Tail(hashing)
  /\ gx' = XorBytes(gz, Head(Tail(hashing))) /\ gz' = Block0 /\ gv' = gkey.h /\ byte' = 0
  /\ UNCHANGED <<gcm, gkey, task, gy, out, counters, plain>>

\* and the masked hash is the tag, or compared with it.
Finish ==
  LET t == XorBytes(gz, task.mask)
  IN /\ gcm = "hash" /\ byte = 16 /\ Len(hashing) = 1
     /\ IF task.call = "encrypt"
        THEN gcm' = "idle" /\ plain' = [plain EXCEPT !.ct = out, !.tag = t] /\ UNCHANGED task
        ELSE /\ gcm' = "over" /\ UNCHANGED plain
             /\ task' = task @@ ("result" :> IF t = task.tag THEN 0 ELSE -1)
     /\ UNCHANGED <<gkey, gy, out, hashing, gx, gz, gv, byte, counters>>

GcmNext ==
  \/ \E k \in GcmKeys, t \in GcmTexts : aes_gcm_encrypt(k, t)
  \/ \E c \in Changes : aes_gcm_decrypt(c)
  \/ Mask \/ Stream \/ BeginHash \/ Multiply \/ NextBlock \/ Finish
GcmSpec == GcmInit /\ [][GcmNext]_gcmVars

----------------------------------------------------------------------------

\* The field of 2^128 elements as sets of exponents; exponent i is bit i from
\* the left.
Exponents(b) == {i \in 0 .. 127 : (b[(i \div 8) + 1] \div 2^(7 - (i % 8))) % 2 = 1}
Plus(a, b) == (a \ b) \cup (b \ a)
Up(a, n) == {i + n : i \in a}
\* The remainder modulo x^128 + x^7 + x^2 + x + 1 of a polynomial below 2^256.
Reduced(a) ==
  LET Fold(p) == LET high == {i - 128 : i \in p \ 0 .. 127}
                 IN Plus(p \cap 0 .. 127,
                         Plus(Plus(high, Up(high, 1)), Plus(Up(high, 2), Up(high, 7))))
  IN Fold(Fold(a))
FieldProduct(a, b) ==
  Reduced({n \in 0 .. 254 : Cardinality({i \in a : n - i \in b}) % 2 = 1})

\* The byte-wise multiplication is the product of the field.
Multiplied ==
  gcm = "hash" /\ byte = 16 => Exponents(gz) = FieldProduct(Exponents(gx), Exponents(gkey.h))

\* The counter goes through all 32 bits.
CountsOn ==
  \A a, b, c, d \in {0, 7, 255} :
    SubSeq(inc_counter(IV \o <<a, b, c, d>>), 13, 16)
    = CASE d # 255 -> <<a, b, c, d + 1>> [] d = 255 /\ c # 255 -> <<a, b, c + 1, 0>>
        [] d = 255 /\ c = 255 /\ b # 255 -> <<a, b + 1, 0, 0>>
        [] OTHER -> <<(a + 1) % 256, 0, 0, 0>>

\* No block of key stream is used twice in a call, for the tag or the text.
OwnStream == Cardinality({counters[i] : i \in DOMAIN counters}) = Len(counters)

\* What was encrypted comes back if nothing was changed, and every change is
\* reported, to the text, to the additional data, to the tag, and to where one
\* ends and the other begins (gcm.c:165-176).
Authentic ==
  gcm = "over" =>
    IF plain.change = "none" THEN task.result = 0 /\ out = plain.pt ELSE task.result = -1

\* The answers of aes_gcm_self_test (gcm.c:179-251), key and iv zero.
HelloWorld == <<104, 101, 108, 108, 111, 32, 119, 111, 114, 108, 100>>
KnownTags ==
  gcm = "idle" /\ plain # <<>> /\ gkey.key = ZeroBytes(32) =>
    /\ plain.aad = <<>> /\ plain.pt = <<>> =>
         plain.tag = <<83, 15, 138, 251, 199, 69, 54, 185, 169, 99, 180, 241, 196, 203, 115, 139>>
    /\ plain.aad = <<97, 97, 100>> /\ plain.pt = HelloWorld =>
         /\ plain.ct = <<166, 194, 44, 81, 34, 64, 28, 1, 117, 34, 161>>
         /\ plain.tag = <<113, 33, 213, 3, 206, 232, 210, 141, 117, 223, 163, 67, 144, 215, 92, 241>>

\* aes_gcm_encrypt and aes_gcm_decrypt hash in the field of the standard, never
\* use a block of key stream twice, and notice every change.
GcmInv ==
  /\ gcm \in {"idle", "mask", "stream", "hash", "over"} /\ byte \in 0 .. 16
  /\ Multiplied /\ CountsOn /\ OwnStream /\ Authentic /\ KnownTags
=============================================================================
