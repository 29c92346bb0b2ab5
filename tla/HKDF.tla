-------------------------------- MODULE HKDF --------------------------------
(***************************************************************************)
(* HMAC and the key derivation built on it (kernel/crypto.c), from which   *)
(* the volume key, the snapshot key and the token's answer come.           *)
(*                                                                         *)
(* A byte is a term: a literal, byte i of the digest of a message, or a    *)
(* byte combined with a pad.  Digests of different messages are different. *)
(* sha512 is used on whole messages: SHA512 shows that the pieces do not   *)
(* matter.                                                                 *)
(***************************************************************************)
EXTENDS Integers, Sequences, SequencesExt

CONSTANTS
  HASH,          \* SHA512_DIGEST_SIZE (64)
  HMAC_BLOCK,    \* SHA512_BLOCK_SIZE (128)
  INFO_MAX,      \* bytes of info that are used (128)
  COUNTER,       \* values of the block counter (256)
  Salts, Infos, OkmLengths

ASSUME HkdfAssumption ==
  /\ {HASH, HMAC_BLOCK, INFO_MAX} \subseteq Nat \ {0} /\ COUNTER \in Nat \ {0, 1}
  /\ HASH <= HMAC_BLOCK

VARIABLES
  salt, info,    \* inputs; the input keying material is one literal
  okm_len,
  prk,           \* <<>> before hkdf_sha512_extract has run
  t_buf, temp,   \* local buffers of hkdf_sha512_expand
  blk,           \* turns of its loop done
  okm, okm_offset

hkdfVars == <<salt, info, okm_len, prk, t_buf, temp, blk, okm, okm_offset>>

Lit(n) == <<"lit", n>>
Literal(n) == [i \in 1 .. n |-> Lit(i)]
Nulls(n) == [i \in 1 .. n |-> Lit(0)]
Stale(n) == [i \in 1 .. n |-> <<"stale">>]
IKM == <<<<"ikm">>>>

sha512(msg) == [i \in 1 .. HASH |-> <<"hash", i, msg>>]
Pad(p, k) == [i \in DOMAIN k |-> <<"xor", p, k[i]>>]

\* A key that is too long is hashed, a short one filled up; the digest of the
\* inner hash is fed to the outer one from the caller's buffer.
hmac_sha512(k, data) ==
  LET short == IF Len(k) > HMAC_BLOCK THEN sha512(k) ELSE k
      full == short \o Nulls(HMAC_BLOCK - Len(short))
  IN sha512(Pad("opad", full) \o sha512(Pad("ipad", full) \o data))

----------------------------------------------------------------------------

HkdfInit ==
  /\ salt \in Salts /\ info \in Infos /\ okm_len \in OkmLengths
  /\ prk = <<>> /\ t_buf = Stale(HASH) /\ temp = Stale(HASH + INFO_MAX + 1)
  /\ blk = 0 /\ okm = Stale(okm_len) /\ okm_offset = 0

hkdf_sha512_extract ==
  /\ prk = <<>>
  /\ prk' = hmac_sha512(IF salt = <<>> THEN Nulls(HASH) ELSE salt, IKM)
  /\ UNCHANGED <<salt, info, okm_len, t_buf, temp, blk, okm, okm_offset>>

\* What a turn writes to the front of temp; the rest keeps what it held.
Copied == SubSeq(info, 1, IF Len(info) > INFO_MAX THEN INFO_MAX ELSE Len(info))

\* Mutant: the block before is left out.
Unchained(i) == Copied \o <<Lit(i % COUNTER)>>

TurnInput(i) == (IF i > 1 THEN t_buf ELSE <<>>) \o Copied \o <<Lit(i % COUNTER)>>

\* Turn i of hkdf_sha512_expand.
hkdf_sha512_expand ==
  LET i == blk + 1
      front == TurnInput(i)
      n == IF okm_offset + HASH > okm_len THEN okm_len - okm_offset ELSE HASH
  IN /\ prk # <<>> /\ i <= (okm_len + HASH - 1) \div HASH
     /\ temp' = front \o SubSeq(temp, Len(front) + 1, HASH + INFO_MAX + 1)
     /\ t_buf' = hmac_sha512(prk, SubSeq(temp', 1, Len(front)))
     /\ okm' = [j \in 1 .. okm_len |-> IF j - okm_offset \in 1 .. n THEN t_buf'[j - okm_offset]
                                       ELSE okm[j]]
     /\ okm_offset' = okm_offset + n /\ blk' = i
     /\ UNCHANGED <<salt, info, okm_len, prk>>

HkdfNext == hkdf_sha512_extract \/ hkdf_sha512_expand
HkdfSpec == HkdfInit /\ [][HkdfNext]_hkdfVars

----------------------------------------------------------------------------
(* RFC 2104 and RFC 5869.                                                   *)

\* The key filled up to a block.
K0(k) == [i \in 1 .. HMAC_BLOCK |->
            IF Len(k) > HMAC_BLOCK THEN IF i <= HASH THEN sha512(k)[i] ELSE Lit(0)
            ELSE IF i <= Len(k) THEN k[i] ELSE Lit(0)]
HMAC(k, data) ==
  sha512([i \in 1 .. HMAC_BLOCK |-> <<"xor", "opad", K0(k)[i]>>]
         \o sha512([i \in 1 .. HMAC_BLOCK |-> <<"xor", "ipad", K0(k)[i]>>] \o data))
T[i \in Nat] ==
  IF i = 0 THEN <<>> ELSE HMAC(HMAC(salt, IKM), T[i - 1] \o info \o <<Lit(i)>>)

\* What has been written is the beginning of T(1) T(2) ... of the standard and
\* nothing else was touched, for every length that stops inside a block and
\* for keys around the length of a block, as long as the info is used in full
\* and the counter does not wrap (crypto.c:182-250).
Derived ==
  Len(info) <= INFO_MAX /\ blk < COUNTER =>
    \A j \in 1 .. okm_len :
      okm[j] = IF j > HASH * blk THEN <<"stale">>
               ELSE T[((j - 1) \div HASH) + 1][((j - 1) % HASH) + 1]

\* hkdf_sha512_expand writes the key of the standard within its buffers.
HkdfInv ==
  /\ Len(temp) = HASH + INFO_MAX + 1 /\ Len(okm) = okm_len /\ okm_offset \in 0 .. okm_len
  /\ Derived
=============================================================================
