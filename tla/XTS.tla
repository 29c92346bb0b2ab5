-------------------------------- MODULE XTS ---------------------------------
(***************************************************************************)
(* AES-256-XTS (kernel/xts.c), the encryption of the stick's sectors: a    *)
(* sector is encrypted and decrypted under its own address or, when the    *)
(* stick or the table of addresses confuses them, under another one.  The  *)
(* two 64-bit halves of the tweak are its sixteen bytes, the least         *)
(* significant first.                                                      *)
(***************************************************************************)
EXTENDS AES

CONSTANTS
  XTS_BLOCKS,    \* blocks of a sector (32)
  XtsKeys,       \* pairs of keys
  Sectors,       \* contents, sequences of XTS_BLOCKS blocks
  SectorLbas     \* sector addresses below 2^24

VARIABLES
  xts,           \* "idle", "encrypt", "decrypt" or "over"
  xkeys,         \* aes256_xts_ctx_t
  sector,        \* contents before the encryption, none before the first call
  lba,           \* address of the call that runs
  written,       \* address the sector was encrypted under
  tweak,
  src, dst,      \* blocks read and blocks written
  tweaks         \* history: the tweaks of the call

xtsVars == <<xts, xkeys, sector, lba, written, tweak, src, dst, tweaks>>

\* Mutant: the carry between the halves is lost.
HalvesApart(t) ==
  LET doubled == [j \in 1 .. 16 |-> ((2 * t[j]) % 256) + (IF j \in {1, 9} THEN 0 ELSE t[j - 1] \div 128)]
  IN IF t[16] >= 128 THEN [doubled EXCEPT ![1] = @ ^^ 135] ELSE doubled

gf_mul_alpha(t) ==
  LET doubled == [j \in 1 .. 16 |-> ((2 * t[j]) % 256) + (IF j = 1 THEN 0 ELSE t[j - 1] \div 128)]
  IN IF t[16] >= 128 THEN [doubled EXCEPT ![1] = @ ^^ 135] ELSE doubled

Address(n) == <<n % 256, (n \div 256) % 256, n \div 65536>> \o ZeroBytes(13)
Whitened(b, t) == [i \in 1 .. 16 |-> b[i] ^^ t[i]]

XtsInit ==
  /\ xts = "idle" /\ xkeys = <<>> /\ sector = <<>> /\ lba = 0 /\ written = 0
  /\ tweak = <<>> /\ src = <<>> /\ dst = <<>> /\ tweaks = <<>>

\* The tweak of address n, encrypted with the second key.
BeginSector(call, w, n, blocks) ==
  /\ xts' = call /\ lba' = n /\ src' = blocks /\ dst' = <<>> /\ tweaks' = <<>>
  /\ tweak' = aes256_encrypt_block(w, Address(n))

\* aes256_xts_init and aes256_xts_encrypt_sector.
aes256_xts_encrypt_sector(k, n, contents) ==
  /\ xts = "idle" /\ dst = <<>>
  /\ \E w1 \in {aes256_init_encrypt(k[1])}, w2 \in {aes256_init_encrypt(k[2])} :
       xkeys' = <<w1, w2>> /\ BeginSector("encrypt", w2, n, contents)
  /\ sector' = contents /\ written' = n

aes256_xts_decrypt_sector(n) ==
  /\ xts = "idle" /\ dst # <<>>
  /\ BeginSector("decrypt", xkeys[2], n, dst)
  /\ UNCHANGED <<xkeys, sector, written>>

\* One block of the loop.
XtsBlock ==
  LET b == Whitened(src[Len(dst) + 1], tweak)
      c == IF xts = "encrypt" THEN aes256_encrypt_block(xkeys[1], b)
           ELSE aes256_decrypt_block(xkeys[1], b)
  IN /\ xts \in {"encrypt", "decrypt"} /\ Len(dst) < XTS_BLOCKS
     /\ \E d \in {c} : dst' = Append(dst, Whitened(d, tweak))
     /\ tweak' = gf_mul_alpha(tweak) /\ tweaks' = Append(tweaks, tweak)
     /\ UNCHANGED <<xts, xkeys, sector, lba, written, src>>

XtsReturn ==
  /\ xts \in {"encrypt", "decrypt"} /\ Len(dst) = XTS_BLOCKS
  /\ xts' = IF xts = "encrypt" THEN "idle" ELSE "over"
  /\ UNCHANGED <<xkeys, sector, lba, written, tweak, src, dst, tweaks>>

XtsNext ==
  \/ \E k \in XtsKeys, n \in SectorLbas, contents \in Sectors : aes256_xts_encrypt_sector(k, n, contents)
  \/ \E n \in SectorLbas : aes256_xts_decrypt_sector(n)
  \/ XtsBlock \/ XtsReturn
XtsSpec == XtsInit /\ [][XtsNext]_xtsVars

----------------------------------------------------------------------------

\* The tweak as a polynomial: the set of its exponents.
Powers(t) == {i \in 0 .. 127 : (t[(i \div 8) + 1] \div 2^(i % 8)) % 2 = 1}

\* x^n times the polynomial modulo x^128 + x^7 + x^2 + x + 1, for n < 121.
TimesX(a, n) ==
  LET up == {i + n : i \in a}
      high == {i - 128 : i \in up \ 0 .. 127}
      Odd(i) == Cardinality({d \in {0, 1, 2, 7} : i - d \in high}) % 2 = 1
  IN {i \in 0 .. 127 : (i \in up) # Odd(i)}

\* Block j is whitened with the encrypted address times x^j, over the carries
\* between bytes, between the halves and out of the field (xts.c:9-13).
TweaksRight ==
  \A j \in DOMAIN tweaks : Powers(tweaks[j]) = TimesX(Powers(tweaks[1]), j - 1)

\* A sector comes back under the address it was written to and under no other,
\* and equal blocks in it are not equal on the stick.
SectorBack ==
  /\ xts = "over" => (dst = sector <=> lba = written)
  /\ xts = "idle" => \A i, j \in DOMAIN dst : dst[i] = dst[j] => i = j

\* A sector is tied to its address and its blocks to their place
\* (aes256_xts_encrypt_sector, aes256_xts_decrypt_sector).
XtsInv == Len(dst) <= XTS_BLOCKS /\ TweaksRight /\ SectorBack
=============================================================================
