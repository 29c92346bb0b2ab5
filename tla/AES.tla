-------------------------------- MODULE AES ---------------------------------
(***************************************************************************)
(* The block cipher (kernel/aes.c) with its real tables: key schedule,     *)
(* encryption of a block and decryption of the result, one step a round.   *)
(*                                                                         *)
(* A 32-bit word of the key schedule is the sequence of its four bytes,    *)
(* the most significant first.  A state is a function of row and column.   *)
(***************************************************************************)
EXTENDS Integers, Sequences, SequencesExt, Bitwise

CONSTANTS
  AesKeys,       \* keys, of 32 bytes
  AesBlocks      \* blocks, of 16 bytes

Byte == 0 .. 255
Quad == 0 .. 3
ROUNDS == 14

sbox ==
  <<99, 124, 119, 123, 242, 107, 111, 197, 48, 1, 103, 43, 254, 215, 171, 118,
    202, 130, 201, 125, 250, 89, 71, 240, 173, 212, 162, 175, 156, 164, 114, 192,
    183, 253, 147, 38, 54, 63, 247, 204, 52, 165, 229, 241, 113, 216, 49, 21,
    4, 199, 35, 195, 24, 150, 5, 154, 7, 18, 128, 226, 235, 39, 178, 117,
    9, 131, 44, 26, 27, 110, 90, 160, 82, 59, 214, 179, 41, 227, 47, 132,
    83, 209, 0, 237, 32, 252, 177, 91, 106, 203, 190, 57, 74, 76, 88, 207,
    208, 239, 170, 251, 67, 77, 51, 133, 69, 249, 2, 127, 80, 60, 159, 168,
    81, 163, 64, 143, 146, 157, 56, 245, 188, 182, 218, 33, 16, 255, 243, 210,
    205, 12, 19, 236, 95, 151, 68, 23, 196, 167, 126, 61, 100, 93, 25, 115,
    96, 129, 79, 220, 34, 42, 144, 136, 70, 238, 184, 20, 222, 94, 11, 219,
    224, 50, 58, 10, 73, 6, 36, 92, 194, 211, 172, 98, 145, 149, 228, 121,
    231, 200, 55, 109, 141, 213, 78, 169, 108, 86, 244, 234, 101, 122, 174, 8,
    186, 120, 37, 46, 28, 166, 180, 198, 232, 221, 116, 31, 75, 189, 139, 138,
    112, 62, 181, 102, 72, 3, 246, 14, 97, 53, 87, 185, 134, 193, 29, 158,
    225, 248, 152, 17, 105, 217, 142, 148, 155, 30, 135, 233, 206, 85, 40, 223,
    140, 161, 137, 13, 191, 230, 66, 104, 65, 153, 45, 15, 176, 84, 187, 22>>

rsbox ==
  <<82, 9, 106, 213, 48, 54, 165, 56, 191, 64, 163, 158, 129, 243, 215, 251,
    124, 227, 57, 130, 155, 47, 255, 135, 52, 142, 67, 68, 196, 222, 233, 203,
    84, 123, 148, 50, 166, 194, 35, 61, 238, 76, 149, 11, 66, 250, 195, 78,
    8, 46, 161, 102, 40, 217, 36, 178, 118, 91, 162, 73, 109, 139, 209, 37,
    114, 248, 246, 100, 134, 104, 152, 22, 212, 164, 92, 204, 93, 101, 182, 146,
    108, 112, 72, 80, 253, 237, 185, 218, 94, 21, 70, 87, 167, 141, 157, 132,
    144, 216, 171, 0, 140, 188, 211, 10, 247, 228, 88, 5, 184, 179, 69, 6,
    208, 44, 30, 143, 202, 63, 15, 2, 193, 175, 189, 3, 1, 19, 138, 107,
    58, 145, 17, 65, 79, 103, 220, 234, 151, 242, 207, 206, 240, 180, 230, 115,
    150, 172, 116, 34, 231, 173, 53, 133, 226, 249, 55, 232, 28, 117, 223, 110,
    71, 241, 26, 113, 29, 41, 197, 137, 111, 183, 98, 14, 170, 24, 190, 27,
    252, 86, 62, 75, 198, 210, 121, 32, 154, 219, 192, 254, 120, 205, 90, 244,
    31, 221, 168, 51, 136, 7, 199, 49, 177, 18, 16, 89, 39, 128, 236, 95,
    96, 81, 127, 169, 25, 181, 74, 13, 45, 229, 122, 159, 147, 201, 156, 239,
    160, 224, 59, 77, 174, 42, 245, 176, 200, 235, 187, 60, 131, 83, 153, 97,
    23, 43, 4, 126, 186, 119, 214, 38, 225, 105, 20, 99, 85, 33, 12, 125>>

\* The most significant byte of each constant; the others are zero.
rcon == <<1, 2, 4, 8, 16, 32, 64, 128, 27, 54>>

SubByte(x) == sbox[x + 1]
InvSubByte(x) == rsbox[x + 1]

VARIABLES
  stage,         \* "start", "encrypt", "decrypt" or "done"
  key, block,    \* what the callers pass
  round_keys,    \* ctx->round_keys
  cells,         \* the local variable state
  round,         \* rounds done
  trace          \* history: the state after each round of the encryption

aesVars == <<stage, key, block, round_keys, cells, round, trace>>

----------------------------------------------------------------------------
(* The field and the key schedule.                                          *)

xtime(a) == ((2 * a) % 256) ^^ (IF a >= 128 THEN 27 ELSE 0)

\* Product and doubled factor go through eight turns.
galois_mul(a, b) ==
  FoldLeft(LAMBDA v, i : [p |-> IF (b \div 2^i) % 2 = 1 THEN v.p ^^ v.a ELSE v.p,
                          a |-> xtime(v.a)],
           [p |-> 0, a |-> a], <<0, 1, 2, 3, 4, 5, 6, 7>>).p

\* The products that are used, tabulated.
Product == [m \in {1, 2, 3, 9, 11, 13, 14} |-> [a \in Byte |-> galois_mul(a, m)]]

XorWord(v, w) == [i \in 1 .. 4 |-> v[i] ^^ w[i]]
sub_word(w) == [i \in 1 .. 4 |-> SubByte(w[i])]
rot_word(w) == Append(Tail(w), Head(w))

\* Word i of the schedule w, from words i - 8 and i - 1.
NextWord(w, i) ==
  LET temp == w[i - 1] IN
  XorWord(w[i - 8],
          CASE i % 8 = 0 -> XorWord(sub_word(rot_word(temp)), <<rcon[i \div 8], 0, 0, 0>>)
            [] i % 8 = 4 -> sub_word(temp)
            [] OTHER -> temp)

\* aes256_init_decrypt makes the same schedule.
aes256_init_encrypt(k) ==
  FoldLeft(LAMBDA w, i : w @@ (i :> NextWord(w, i)),
           [i \in 0 .. 7 |-> SubSeq(k, 4 * i + 1, 4 * i + 4)],
           [i \in 1 .. 52 |-> i + 7])

----------------------------------------------------------------------------
(* The steps of a round.                                                    *)

add_round_key(st, w, n) == [r, c \in Quad |-> st[r, c] ^^ w[4 * n + c][r + 1]]
sub_bytes(st) == [r, c \in Quad |-> SubByte(st[r, c])]
inv_sub_bytes(st) == [r, c \in Quad |-> InvSubByte(st[r, c])]

\* Mutant: the third row goes the same way as in the encryption.
SameWay(st) ==
  [r, c \in Quad |-> st[r, IF r = 3 THEN (c + r) % 4 ELSE (c - r) % 4]]

shift_rows(st) == [r, c \in Quad |-> st[r, (c + r) % 4]]
inv_shift_rows(st) == [r, c \in Quad |-> st[r, (c - r) % 4]]

\* Row r of the column times the coefficients, which move on with the row.
Mixed(st, coefficients) ==
  LET Term(r, c, i) == Product[coefficients[((i - r) % 4) + 1]][st[i, c]]
  IN [r, c \in Quad |-> (Term(r, c, 0) ^^ Term(r, c, 1)) ^^ (Term(r, c, 2) ^^ Term(r, c, 3))]
mix_columns(st) == Mixed(st, <<2, 3, 1, 1>>)
inv_mix_columns(st) == Mixed(st, <<14, 11, 13, 9>>)

Cells(bytes) == [r, c \in Quad |-> bytes[r + 4 * c + 1]]
Bytes(st) ==
  LET Column(c) == <<st[0, c], st[1, c], st[2, c], st[3, c]>>
  IN Column(0) \o Column(1) \o Column(2) \o Column(3)

\* Round n of the encryption, the last one without the mixing.
EncryptRound(st, w, n) ==
  LET shifted == shift_rows(sub_bytes(st))
  IN add_round_key(IF n < ROUNDS THEN mix_columns(shifted) ELSE shifted, w, n)

\* The round of the decryption that ends with round key n.
DecryptRound(st, w, n) ==
  LET added == add_round_key(inv_sub_bytes(inv_shift_rows(st)), w, n)
  IN IF n > 0 THEN inv_mix_columns(added) ELSE added

\* The element of a set of one: what it is made of is worked out once.
The(S1) == CHOOSE u \in S1 : TRUE

\* Both functions as a whole, for the modes of operation.
aes256_encrypt_block(w, in) ==
  LET after[n \in 0 .. ROUNDS] ==
        IF n = 0 THEN Bytes(add_round_key(Cells(in), w, 0))
        ELSE The({Bytes(EncryptRound(Cells(b), w, n)) : b \in {after[n - 1]}})
  IN after[ROUNDS]
aes256_decrypt_block(w, in) ==
  LET from[n \in 0 .. ROUNDS] ==
        IF n = ROUNDS THEN Bytes(add_round_key(Cells(in), w, ROUNDS))
        ELSE The({Bytes(DecryptRound(Cells(b), w, n)) : b \in {from[n + 1]}})
  IN from[0]

----------------------------------------------------------------------------
(* A block is encrypted, and the result decrypted.                          *)

AesInit ==
  /\ stage = "start" /\ key \in AesKeys /\ block \in AesBlocks
  /\ round_keys = <<>> /\ cells = Cells(block) /\ round = 0 /\ trace = <<>>

BeginEncrypt ==
  /\ stage = "start" /\ stage' = "encrypt"
  /\ round_keys' = aes256_init_encrypt(key)
  /\ cells' = add_round_key(Cells(block), round_keys', 0)
  /\ round' = 0 /\ trace' = <<cells'>>
  /\ UNCHANGED <<key, block>>

Encrypt ==
  /\ stage = "encrypt" /\ round < ROUNDS
  /\ round' = round + 1
  /\ cells' = EncryptRound(cells, round_keys, round + 1)
  /\ trace' = Append(trace, cells')
  /\ UNCHANGED <<stage, key, block, round_keys>>

BeginDecrypt ==
  /\ stage = "encrypt" /\ round = ROUNDS /\ stage' = "decrypt"
  /\ cells' = add_round_key(cells, round_keys, ROUNDS)
  /\ UNCHANGED <<key, block, round_keys, round, trace>>

Decrypt ==
  /\ stage = "decrypt" /\ round' = round - 1
  /\ cells' = DecryptRound(cells, round_keys, round - 1)
  /\ stage' = IF round = 1 THEN "done" ELSE stage
  /\ UNCHANGED <<key, block, round_keys, trace>>

AesNext == BeginEncrypt \/ Encrypt \/ BeginDecrypt \/ Decrypt
AesSpec == AesInit /\ [][AesNext]_aesVars

----------------------------------------------------------------------------
(* The definitions of FIPS 197 that the code tabulates.                     *)

\* Multiplication of polynomials over GF(2), and the remainder modulo
\* x^8 + x^4 + x^3 + x + 1.
Bit(x, i) == (x \div 2^i) % 2
Times(a, b) ==
  LET Coefficient(n) == FoldLeft(LAMBDA s, i : (s + Bit(a, i) * Bit(b, n - i)) % 2, 0,
                                 SelectSeq(<<0, 1, 2, 3, 4, 5, 6, 7>>,
                                           LAMBDA i : n - i \in 0 .. 7))
      long == FoldLeft(LAMBDA s, n : s + Coefficient(n) * 2^n, 0, [n \in 1 .. 15 |-> n - 1])
  IN FoldLeft(LAMBDA x, n : IF Bit(x, n) = 1 THEN x ^^ (283 * 2^(n - 8)) ELSE x, long,
              <<14, 13, 12, 11, 10, 9, 8>>)

\* The affine map behind the inverse.
Affine(y) ==
  FoldLeft(LAMBDA s, i :
             s + 2^i * ((Bit(99, i) + Bit(y, i) + Bit(y, (i + 4) % 8) + Bit(y, (i + 5) % 8)
                         + Bit(y, (i + 6) % 8) + Bit(y, (i + 7) % 8)) % 2),
           0, <<0, 1, 2, 3, 4, 5, 6, 7>>)
AffineOf == [y \in Byte |-> Affine(y)]

\* Every entry of both tables is what the standard defines: the self-test at
\* boot (crypto.c:256-290) looks up only some of them.  The constants of the
\* schedule are the powers of x, and the products those of the field.
TablesRight ==
  /\ \A x \in Byte :
       /\ InvSubByte(SubByte(x)) = x
       /\ \E y \in Byte : SubByte(x) = AffineOf[y] /\ Times(x, y) = IF x = 0 THEN 0 ELSE 1
  /\ Len(sbox) = 256 /\ Len(rsbox) = 256
  /\ rcon[1] = 1 /\ \A i \in 2 .. 10 : rcon[i] = Times(2, rcon[i - 1])
  /\ \A m \in DOMAIN Product, a \in Byte : Product[m][a] = Times(m, a)

\* Each round of the decryption takes back the round of the encryption with
\* the same number, and the last one gives the block.
Retraces ==
  /\ stage = "decrypt" => cells = shift_rows(sub_bytes(trace[round]))
  /\ stage = "done" => cells = Cells(block)

\* The answer of the self-test (crypto.c:267) and that of appendix C.3 of the
\* standard.
ZeroBytes(n) == [i \in 1 .. n |-> 0]
Answers ==
  { [key |-> ZeroBytes(32), block |-> ZeroBytes(16),
     out |-> <<220, 149, 192, 120, 162, 64, 137, 137, 173, 72, 162, 20, 146, 132, 32, 135>>],
    [key |-> [i \in 1 .. 32 |-> i - 1], block |-> [i \in 1 .. 16 |-> 17 * (i - 1)],
     out |-> <<142, 162, 183, 202, 81, 103, 69, 191, 234, 252, 73, 144, 75, 73, 96, 137>>] }
KnownAnswers ==
  \A a \in Answers :
    key = a.key /\ block = a.block /\ Len(trace) = ROUNDS + 1
    => trace[ROUNDS + 1] = Cells(a.out)

\* The cipher is a permutation for every schedule it is given, with the tables
\* and answers of the standard.
AesInv ==
  /\ stage \in {"start", "encrypt", "decrypt", "done"} /\ round \in 0 .. ROUNDS
  /\ \A r, c \in Quad : cells[r, c] \in Byte
  /\ TablesRight /\ Retraces /\ KnownAnswers
=============================================================================
