----------------------------- MODULE MCStorage ------------------------------
(* The encrypted volume, the oblivious store, the snapshots and the ciphers  *)
(* and hashes under them, one at a time: snapshots use the store through     *)
(* BlockStore, which ORAM is shown to implement, and the ciphers keep no     *)
(* state between calls, so `part' says which one works while the others      *)
(* rest.                                                                     *)
EXTENDS Vault, ORAM, Snapshot, Crypto

\* Three sectors: the attempt counter, another one of the key zone and one that
\* the self-destruct sequence does not touch.
CONSTANTS counter, zone, file
MCWipeList == <<counter, zone>>

CONSTANT Parts  \* the parts that are explored

----------------------------------------------------------------------------
(* Inputs of the ciphers and hashes: those of the self-tests and of the      *)
(* standards, and lengths around the ends of blocks.                         *)

Same(n, b) == [i \in 1 .. n |-> b]
Pattern(n) == [i \in 1 .. n |-> (37 * i) % 256]
MCAesKeys == {Same(32, 0), Same(32, 85), [i \in 1 .. 32 |-> i - 1]}
MCAesBlocks == {Same(16, 0), Same(16, 255), [i \in 1 .. 16 |-> 17 * (i - 1)]}
MCGcmKeys == {Same(32, 0)}
MCGcmTexts == {[aad |-> <<>>, pt |-> <<>>], [aad |-> <<97, 97, 100>>, pt |-> HelloWorld],
               [aad |-> Pattern(16), pt |-> Pattern(32)],
               [aad |-> Pattern(17), pt |-> Pattern(33)]}
MCXtsKeys == {<<Same(32, 85), Same(32, 85)>>}
MCSectors == {[b \in 1 .. XTS_BLOCKS |-> [i \in 1 .. 16 |-> (16 * (b - 1) + i - 1) % 256]]}
MCMessages == {d.of : d \in Digests} \cup {Pattern(n) : n \in {111, 127, 128, 240}}
MCSalts == {Literal(n) : n \in 0 .. HMAC_BLOCK + 1}
MCInfos == {Literal(n) : n \in 0 .. INFO_MAX + 1}
\* Three layers, the first with the key of the RFC.
MCChachaKeys == <<RfcKey, Same(32, 255), Pattern(32)>>
MCNonces == {RfcNonce}
MCTexts == {RfcText, Same(64, 0), Pattern(65)}

----------------------------------------------------------------------------

VARIABLE part
storageVars == <<part, vaultVars, oramVars, snapVars, cryptoVars>>

Least(S) == CHOOSE n \in S : \A k \in S : n <= k

StorageInit ==
  /\ part \in Parts
  /\ part # "vault" => io_errors = FALSE
  /\ part # "snapshot" => session = [i \in 1 .. Least(Sizes) |-> 0]
  /\ part # "crypto" => primitive = "aes" /\ key = One(AesKeys) /\ block = One(AesBlocks)
  /\ VaultInit /\ OramInit /\ SnapInit /\ CryptoInit

VaultPart == part = "vault" /\ VaultNext /\ UNCHANGED <<part, oramVars, snapVars, cryptoVars>>
OramPart == part = "oram" /\ OramNext /\ UNCHANGED <<part, vaultVars, snapVars, cryptoVars>>
SnapPart == part = "snapshot" /\ SnapNext /\ UNCHANGED <<part, vaultVars, oramVars, cryptoVars>>
CryptoPart == part = "crypto" /\ CryptoNext /\ UNCHANGED <<part, vaultVars, oramVars, snapVars>>

\* The wipe is one loop without a wait, then hlt: nothing but a power cut stops it.
StorageSpec ==
  /\ StorageInit
  /\ [][VaultPart \/ OramPart \/ SnapPart \/ CryptoPart]_storageVars
  /\ WF_storageVars(VaultPart /\ (WipeSector \/ Halt))
=============================================================================
