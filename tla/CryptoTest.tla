----------------------------- MODULE CryptoTest -----------------------------
(***************************************************************************)
(* A program that uses both libraries as test/host/crypto_test.c does: it  *)
(* has a key, hashes a message with sha256.c, signs the hash, and verifies *)
(* what it signed and tampered variants.  The program may take the other   *)
(* ways into micro-ecc too: uECC_compute_public_key() for the key,         *)
(* uECC_shared_secret() with it, and the two other ways to sign.           *)
(***************************************************************************)
EXTENDS Sha256, Ecdsa

vars == <<shaVars, ecVars>>

Init == ShaInit /\ EcInit

(* sha256_hash(): a context of its own, from which only the digest is      *)
(* left, and is signed.  The digest may be any of Hashes.                  *)
NoCtx == taken = 0 /\ left = 0 /\ ~finished
sha256_hash == op = "none" /\ HasKey /\ ShaNext /\ UNCHANGED ecVars

CtxGone ==
  /\ datalen' = 0 /\ bitlen' = 0 /\ transformed' = <<>>
  /\ data' = Zeros
  /\ taken' = 0 /\ left' = 0 /\ finished' = FALSE
SignsDigest == finished /\ Signs /\ CtxGone

Next ==
  \/ sha256_hash
  \/ SignsDigest
  \/ EcStep /\ UNCHANGED shaVars
  \/ Calls /\ NoCtx /\ UNCHANGED shaVars

Spec == Init /\ [][Next]_vars

=============================================================================
