------------------------------- MODULE Crypto -------------------------------
(***************************************************************************)
(* The primitives of kernel/aes.c, gcm.c, xts.c, chacha20.c and crypto.c   *)
(* side by side.  None of them keeps state between two calls, so           *)
(* `primitive' says which one is called while the others rest.             *)
(***************************************************************************)
EXTENDS GCM, XTS, SHA512, HKDF, ChaCha

VARIABLE primitive
cryptoVars == <<primitive, aesVars, gcmVars, xtsVars, shaVars, hkdfVars, chachaVars>>

One(S) == CHOOSE e \in S : TRUE

CryptoInit ==
  /\ primitive \in {"aes", "gcm", "xts", "sha", "hkdf", "chacha"}
  /\ primitive # "aes" => key = One(AesKeys) /\ block = One(AesBlocks)
  /\ primitive # "sha" => message = One(Messages)
  /\ primitive # "hkdf" => salt = One(Salts) /\ info = One(Infos) /\ okm_len = One(OkmLengths)
  /\ primitive # "chacha" => text = One(Texts)
  /\ AesInit /\ GcmInit /\ XtsInit /\ ShaInit /\ HkdfInit /\ ChachaInit

Aes == primitive = "aes" /\ AesNext
       /\ UNCHANGED <<primitive, gcmVars, xtsVars, shaVars, hkdfVars, chachaVars>>
Gcm == primitive = "gcm" /\ GcmNext
       /\ UNCHANGED <<primitive, aesVars, xtsVars, shaVars, hkdfVars, chachaVars>>
Xts == primitive = "xts" /\ XtsNext
       /\ UNCHANGED <<primitive, aesVars, gcmVars, shaVars, hkdfVars, chachaVars>>
Sha == primitive = "sha" /\ ShaNext
       /\ UNCHANGED <<primitive, aesVars, gcmVars, xtsVars, hkdfVars, chachaVars>>
Hkdf == primitive = "hkdf" /\ HkdfNext
        /\ UNCHANGED <<primitive, aesVars, gcmVars, xtsVars, shaVars, chachaVars>>
Chacha == primitive = "chacha" /\ ChachaNext
          /\ UNCHANGED <<primitive, aesVars, gcmVars, xtsVars, shaVars, hkdfVars>>

CryptoNext == Aes \/ Gcm \/ Xts \/ Sha \/ Hkdf \/ Chacha
CryptoSpec == CryptoInit /\ [][CryptoNext]_cryptoVars

----------------------------------------------------------------------------

\* Each primitive computes what its standard says, block by block and round by
\* round, and undoes what it did, whichever way its input is cut into blocks.
CryptoInv == AesInv /\ GcmInv /\ XtsInv /\ ShaInv /\ HkdfInv /\ ChachaInv
=============================================================================
