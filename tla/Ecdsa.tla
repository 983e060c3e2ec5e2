------------------------------- MODULE Ecdsa -------------------------------
(***************************************************************************)
(* The public functions of uECC.c, called by one program: a key is made or *)
(* computed, and then used for a shared secret or a signature.             *)
(*                                                                         *)
(* Each call of the random number generator is a step.  The generator is   *)
(* the environment's: if it is set, any call of it may fail, or gives any  *)
(* of the Draws.  op is the function that is running, and drawing what it  *)
(* waits for.  uECC_RNG_MAX_TRIES, 64 in the code, bounds the loop of      *)
(* uECC_generate_random_int() (tries) and those of its callers (attempts). *)
(***************************************************************************)
EXTENDS Ecc, CurveGroup

CONSTANTS
  Curves,               \* the curves there are
  uECC_RNG_MAX_TRIES,
  Draws,                \* [what is drawn -> the numbers the generator may give]
  GivenKeys,            \* the private keys uECC_compute_public_key() is given
  GivenNonces,          \* the nonces uECC_sign_with_k() is given
  PeerKeys,             \* the private keys of others
  Hashes                \* the message hashes, sequences of bytes

(* What the parameters of a curve are: p, p + 1 and n fit in its words, n  *)
(* is an odd prime of num_n_bits bits and needs the last word, p is less   *)
(* than twice as much, and the sum of num_words products of two words fits in the three words that *)
(* uECC_vli_mult() adds them up in.                                        *)
Prime(n) == n \in Nat /\ n > 1 /\ \A i \in 2..(n - 1) : n % i # 0
ASSUME CurveAssumption ==
  \A c \in Curves :
    /\ c.num_words \in Nat \ {0} /\ c.num_words <= Base
    /\ c.p \in 1..(BaseTo(c.num_words) - 2) /\ c.b \in Int /\ c.G \in Points(c)
    /\ Prime(c.n) /\ c.n # 2
    /\ c.num_n_bits \in Nat /\ 1 < c.num_n_bits /\ c.num_n_bits <= c.num_words * WordBits
    /\ (c.num_words - 1) * WordBits < c.num_n_bits
    /\ Pow2[c.num_n_bits - 1] <= c.n /\ c.n < Pow2[c.num_n_bits] /\ c.p < 2 * c.n

(* The curve is one over a prime field: x_side() is never 0 at x = 0, and  *)
(* G generates a group of order n, that is, its multiples below n are      *)
(* points of the curve that add up as their factors do modulo n.           *)
ASSUME GroupAssumption ==
  \A c \in Curves :
    /\ Prime(c.p) /\ c.p # 2 /\ c.b % c.p # 0 /\ c.G[1] # 0
    /\ \A multiple \in {[i \in 0..(c.n - 1) |-> Multiple(i, c.G, c)]} :
         /\ \A i \in 1..(c.n - 1) : multiple[i] \in Points(c) /\ uECC_valid_point(multiple[i], c)
         /\ \A i, j \in 0..(c.n - 1) :
              Plus(multiple[i], multiple[j], c) = multiple[(i + j) % c.n]

(* mod_sqrt_default() takes roots by raising to (p + 1) / 4.               *)
ASSUME RootAssumption == \A c \in Curves : c.p % 4 = 3

(* The generator gives numbers, a caller keys and nonces that are as long  *)
(* as its curve has them, peers with keys in range, and hashes in bytes.   *)
ASSUME CallerAssumption ==
  /\ uECC_RNG_MAX_TRIES \in Nat \ {0}
  /\ Draws \in [{"key", "Z", "nonce", "blind"} -> SUBSET Nat]
  /\ \A c \in Curves : GivenKeys \cup GivenNonces \subseteq 0..(BaseTo(c.num_words) - 1)
  /\ \A c \in Curves : PeerKeys \subseteq 1..(c.n - 1)
  /\ Hashes \subseteq Seq(0..(ByteTo(1) - 1))

VARIABLES
  curve,
  g_rng,      \* whether there is a generator
  op,         \* the function running, or "none"
  drawing,    \* "key", "Z", "nonce", "T" (of the hash chain), "blind" or "none"
  tries, attempts,
  d, Q,       \* the private key and the public key
  k, P,       \* the nonce, a vli, and its point
  arg,        \* the hash to sign, or the private key of a shared secret's peer
  result      \* what the last function returned, with its outputs

ecVars == <<curve, g_rng, op, drawing, tries, attempts, d, Q, k, P, arg, result>>

NoArg == <<>>
NoNonce == <<>>
Returned(of, ok) == [of |-> of, ok |-> ok]

EcInit ==
  /\ curve \in Curves
  /\ g_rng \in BOOLEAN
  /\ op = "none" /\ drawing = "none"
  /\ tries = 0 /\ attempts = 0
  /\ d = 0 /\ Q = Infinity
  /\ k = NoNonce /\ P = Infinity
  /\ arg = NoArg
  /\ result = Returned("none", FALSE)

InWords(x) == ToWords(x, curve)
order == InWords(curve.n)

(* A function returns, or its loop goes round once more.                   *)
Returns(res) ==
  /\ op' = "none" /\ drawing' = "none"
  /\ tries' = 0 /\ attempts' = 0
  /\ k' = NoNonce /\ P' = Infinity /\ arg' = NoArg
  /\ result' = res
  /\ UNCHANGED <<curve, g_rng>>
Goes(to) ==
  /\ drawing' = to
  /\ tries' = 0
  /\ UNCHANGED <<curve, g_rng, op, arg, result>>

Looping == [make_key |-> "key", sign |-> "nonce", sign_deterministic |-> "T"]
AttemptFailsForever ==      \* mutant: the attempts are not counted
  IF op \in DOMAIN Looping
  THEN /\ Goes(Looping[op])
       /\ k' = NoNonce /\ P' = Infinity
       /\ UNCHANGED <<attempts, d, Q>>
  ELSE Returns(Returned(op, FALSE)) /\ UNCHANGED <<d, Q>>
AttemptFailsOnceMore ==     \* mutant: <= for <
  IF op \in DOMAIN Looping /\ attempts + 1 <= uECC_RNG_MAX_TRIES
  THEN /\ Goes(Looping[op])
       /\ attempts' = attempts + 1
       /\ k' = NoNonce /\ P' = Infinity
       /\ UNCHANGED <<d, Q>>
  ELSE Returns(Returned(op, FALSE)) /\ UNCHANGED <<d, Q>>
AttemptFails ==
  IF op \in DOMAIN Looping /\ attempts + 1 < uECC_RNG_MAX_TRIES
  THEN /\ Goes(Looping[op])
       /\ attempts' = attempts + 1
       /\ k' = NoNonce /\ P' = Infinity
       /\ UNCHANGED <<d, Q>>
  ELSE Returns(Returned(op, FALSE)) /\ UNCHANGED <<d, Q>>

-----------------------------------------------------------------------------
(* uECC_generate_random_int(random, top): the words are masked to the bits *)
(* of top; what is not in 1..top-1 is drawn again, until the tries end.    *)
Top == IF drawing = "Z" THEN curve.p ELSE curve.n
Masked(raw) == raw % Pow2[vli_numBits(InWords(Top))]
Accepted(v) == ~vli_isZero(InWords(v)) /\ vli_cmp(InWords(Top), InWords(v)) = 1

Candidates == {Masked(raw) : raw \in Draws[drawing]}
Drawn == {v \in Candidates : Accepted(v)}
DrawsAgain ==
  /\ drawing \in DOMAIN Draws /\ g_rng
  /\ Candidates # Drawn
  /\ tries + 1 < uECC_RNG_MAX_TRIES
  /\ tries' = tries + 1
  /\ UNCHANGED <<curve, g_rng, op, drawing, attempts, d, Q, k, P, arg, result>>
(* And it fails: there is no generator, it returns 0, or the last of the   *)
(* tries is rejected.  The second may happen at any call.                  *)
DrawFails == drawing \in DOMAIN Draws

(* A random number against side channels: without a generator it is 1.     *)
Masks == IF g_rng THEN Drawn ELSE {1}
MaskFails == g_rng /\ DrawFails

-----------------------------------------------------------------------------
(* uECC_make_key() and uECC_compute_public_key().                          *)
make_key ==
  /\ op = "none" /\ result.of = "none"
  /\ op' = "make_key" /\ drawing' = "key"
  /\ UNCHANGED <<curve, g_rng, tries, attempts, d, Q, k, P, arg, result>>
KeyDrawn ==
  /\ drawing = "key" /\ g_rng
  /\ d' \in Drawn
  /\ Goes("Z")
  /\ UNCHANGED <<attempts, Q, k, P>>
KeyNotDrawn ==
  /\ drawing = "key" /\ DrawFails
  /\ Returns(Returned(op, FALSE))
  /\ UNCHANGED <<d, Q>>

compute_public_key(private) ==
  /\ op = "none" /\ result.of = "none"
  /\ d' = private
  /\ IF vli_isZero(InWords(private)) \/ vli_cmp(order, InWords(private)) # 1
     THEN Returns(Returned("compute_public_key", FALSE)) /\ UNCHANGED Q
     ELSE /\ op' = "compute_public_key" /\ drawing' = "Z"
          /\ UNCHANGED <<curve, g_rng, tries, attempts, Q, k, P, arg, result>>

(* EccPoint_compute_public_key(), for both.                                *)
PublicKeyComputed ==
  /\ op \in {"make_key", "compute_public_key"} /\ drawing = "Z"
  /\ \E z \in Masks :
       LET public == RegularMult(curve.G, InWords(d), z, curve)
       IN IF EccPoint_isZero(public) THEN AttemptFails
          ELSE /\ Q' = public
               /\ Returns(Returned(op, TRUE))
               /\ UNCHANGED d
PublicKeyUnmasked ==
  /\ op \in {"make_key", "compute_public_key"} /\ drawing = "Z"
  /\ MaskFails
  /\ AttemptFails

HasKey == result.ok /\ result.of \in {"make_key", "compute_public_key"}

-----------------------------------------------------------------------------
(* uECC_shared_secret() with the public key of a peer.                     *)
PublicOf(private) == Multiple(private, curve.G, curve)
shared_secret(private) ==
  /\ op = "none" /\ HasKey
  /\ op' = "shared_secret" /\ drawing' = "Z"
  /\ arg' = private
  /\ UNCHANGED <<curve, g_rng, tries, attempts, d, Q, k, P, result>>
SecretComputed ==
  /\ op = "shared_secret" /\ drawing = "Z"
  /\ \E z \in Masks :
       LET point == RegularMult(PublicOf(arg), InWords(d), z, curve)
       IN Returns([of |-> op, ok |-> ~EccPoint_isZero(point), with |-> arg, secret |-> point[1]])
  /\ UNCHANGED <<d, Q>>
SecretUnmasked ==
  /\ op = "shared_secret" /\ drawing = "Z"
  /\ MaskFails
  /\ AttemptFails

-----------------------------------------------------------------------------
(* uECC_sign(), uECC_sign_deterministic() and uECC_sign_with_k().  The     *)
(* hash chain of the second is the caller's hash function's, so T, which   *)
(* is masked to the bits of n, may be any number.                          *)
Signing == {"sign", "sign_deterministic", "sign_with_k"}
sign(how, message_hash) ==
  /\ op = "none" /\ HasKey
  /\ op' = how /\ drawing' = Looping[how]
  /\ arg' = message_hash
  /\ UNCHANGED <<curve, g_rng, tries, attempts, d, Q, k, P, result>>
NonceDrawn ==
  /\ drawing = "nonce" /\ g_rng
  /\ \E v \in Drawn : k' = InWords(v)
  /\ Goes("Z")
  /\ UNCHANGED <<attempts, d, Q, P>>
NonceNotDrawn ==
  /\ drawing = "nonce" /\ DrawFails
  /\ Returns(Returned(op, FALSE))
  /\ UNCHANGED <<d, Q>>
NonceFromChain ==
  /\ drawing = "T"
  /\ \E raw \in Draws["nonce"] :
       LET T == InWords(raw % Pow2[curve.num_n_bits])
       IN IF InRange(T, curve)
          THEN k' = T /\ Goes("Z") /\ UNCHANGED <<attempts, d, Q, P>>
          ELSE AttemptFails
sign_with_k(message_hash, given) ==
  /\ op = "none" /\ HasKey
  /\ LET k2 == bits2int(nativeToBytes(n_bytes(curve), InWords(given)), curve)
     IN IF InRange(k2, curve)
        THEN /\ op' = "sign_with_k" /\ drawing' = "Z"
             /\ k' = k2
             /\ arg' = message_hash
             /\ UNCHANGED <<curve, g_rng, tries, attempts, d, Q, P, result>>
        ELSE Returns(Returned("sign_with_k", FALSE)) /\ UNCHANGED <<d, Q>>

(* uECC_sign_with_k_internal(): k G, then k is inverted behind a factor.   *)
PointComputed ==
  /\ op \in Signing /\ drawing = "Z"
  /\ \E z \in Masks :
       LET point == RegularMult(curve.G, k, z, curve)
       IN IF point[1] = 0 THEN AttemptFails
          ELSE P' = point /\ Goes("blind") /\ UNCHANGED <<attempts, d, Q, k>>
InverseUnblinded(blind) ==       \* mutant: the factor is left in the inverse
  vli_modInv(vli_modMult(k, InWords(blind), order), order)
Inverted(blind) ==
  vli_modMult(vli_modInv(vli_modMult(k, InWords(blind), order), order), InWords(blind), order)
SignatureComputed ==
  /\ drawing = "blind"
  /\ \E blind \in Masks :
       LET rd == vli_modMult(InWords(d), InWords(P[1]), order)
           sum == vli_modAdd(bits2int(arg, curve), rd, order)
           s == vli_modMult(sum, Inverted(blind), order)
       IN IF vli_numBits(s) > num_bytes(curve) * ByteBits THEN AttemptFails
          ELSE /\ Returns([of |-> op, ok |-> TRUE, hash |-> arg, r |-> InWords(P[1]), s |-> s,
                           nonce |-> Value(k)])
               /\ UNCHANGED <<d, Q>>
SignatureUnmasked ==
  /\ op \in Signing /\ drawing \in {"Z", "blind"}
  /\ MaskFails
  /\ AttemptFails

-----------------------------------------------------------------------------
(* uECC_verify() on what was signed, or on something like it: another      *)
(* hash, another key, r with its first byte flipped or reduced modulo n as *)
(* other signers do, s negated.                                            *)
Flipped(r) ==
  LET unit == Pow2[WordBits - ByteBits]
  IN [r EXCEPT ![Len(r)] = @ + (ByteTo(1) - 1 - 2 * (@ \div unit)) * unit]
Offered ==
  LET signed == [Q |-> Q, hash |-> result.hash, r |-> result.r, s |-> result.s]
  IN {signed}
     \cup {[signed EXCEPT !.hash = h] : h \in Hashes}
     \cup {[signed EXCEPT !.Q = PublicOf(other)] : other \in PeerKeys}
     \cup {[signed EXCEPT !.r = Flipped(@)], [signed EXCEPT !.r = Once(@, order)],
           [signed EXCEPT !.s = vli_sub(order, @).words]}
verify ==
  /\ op = "none" /\ result.ok /\ result.of \in Signing
  /\ \E o \in Offered :
       result' = [of |-> "verify", offered |-> o,
                  own |-> o.Q = Q /\ o.hash = result.hash /\ o.r = result.r /\ o.s = result.s,
                  ok |-> uECC_verify(o.Q, bits2int(o.hash, curve), o.r, o.s, curve)]
  /\ UNCHANGED <<curve, g_rng, op, drawing, tries, attempts, d, Q, k, P, arg>>

-----------------------------------------------------------------------------
Signs == 
  \E message_hash \in Hashes :
    \/ \E how \in {"sign", "sign_deterministic"} : sign(how, message_hash)
    \/ \E given \in GivenNonces : sign_with_k(message_hash, given)
EcStep ==
  \/ DrawsAgain
  \/ KeyDrawn \/ KeyNotDrawn \/ PublicKeyComputed \/ PublicKeyUnmasked
  \/ SecretComputed \/ SecretUnmasked
  \/ NonceDrawn \/ NonceNotDrawn \/ NonceFromChain
  \/ PointComputed \/ SignatureComputed \/ SignatureUnmasked
Calls ==
  \/ make_key
  \/ \E private \in GivenKeys : compute_public_key(private)
  \/ \E private \in PeerKeys : shared_secret(private)
  \/ verify
EcNext == EcStep \/ Calls \/ Signs

EcSpec == EcInit /\ [][EcNext]_ecVars

-----------------------------------------------------------------------------
(* Type invariant.                                                         *)
EcTypeOK ==
  /\ curve \in Curves
  /\ op \in Signing \cup {"none", "make_key", "compute_public_key", "shared_secret"}
  /\ drawing \in DOMAIN Draws \cup {"none", "T"}
  /\ tries \in 0..(uECC_RNG_MAX_TRIES - 1)
  /\ attempts \in 0..(uECC_RNG_MAX_TRIES - 1)
  /\ d \in 0..(BaseTo(curve.num_words) - 1)
  /\ Q \in Points(curve)
  /\ k \in {NoNonce} \cup [1..curve.num_words -> Word]
  /\ P \in Points(curve)
  /\ result.ok \in BOOLEAN

(* A key pair that is reported is one: the private key is in 1..n-1, and   *)
(* the public key is that multiple of G, on the curve, whatever Z the      *)
(* ladder starts with; compressing it loses nothing.  The scalars where    *)
(* the co-Z formulas break down give the point at infinity, never a wrong  *)
(* point (uECC.c:864-976, 1021-1049, 1096-1206).                           *)
KeyPairSound ==
  Q # Infinity =>
    /\ d \in 1..(curve.n - 1)
    /\ Q = Multiple(d, curve.G, curve)
    /\ uECC_valid_point(Q, curve)
    /\ uECC_decompress(uECC_compress(Q), curve) = Q

(* The only private keys in range that uECC_compute_public_key() refuses,  *)
(* when no generator can fail, are 1, n-2 and n-1, where the ladder meets  *)
(* the point at infinity (uECC.c:1173-1206).                               *)
RefusesOnlyExceptional ==
  result = Returned("compute_public_key", FALSE) /\ ~g_rng =>
    d \notin 2..(curve.n - 3)

(* Both sides of a key exchange compute the x coordinate of the same point *)
(* (uECC.c:1051-1094).                                                     *)
SecretsAgree ==
  result.of = "shared_secret" /\ result.ok =>
    LET theirs == RegularMult(Q, InWords(result.with), NoZ, curve)
    IN /\ result.secret = Multiple(result.with, Q, curve)[1]
       /\ theirs # Infinity => result.secret = theirs[1]

(* s nonce = e + r d modulo n, for every factor the nonce is hidden        *)
(* behind, and hashes that are not below n (uECC.c:1211-1330).             *)
SignatureEquation ==
  result.of \in Signing /\ result.ok =>
    LET e == Value(bits2int(result.hash, curve))
        r == Value(result.r)
    IN /\ result.nonce \in 1..(curve.n - 1)
       /\ Value(result.s) < curve.n
       /\ (Value(result.s) * result.nonce - e - r * d) % curve.n = 0

(* And r is the x coordinate of nonce G, for every Z and for the nonces    *)
(* that are near a multiple of n/2 (uECC.c:864-976, 1264-1282).            *)
NoncePoint ==
  result.of \in Signing /\ result.ok =>
    Value(result.r) = Multiple(result.nonce, curve.G, curve)[1]

(* uECC_verify() accepts nothing but valid signatures.  Its sum G + Q does *)
(* not exist for Q = G and Q = -G, which are set aside (uECC.c:1492-1603). *)
Textbook(o) ==
  ValidSignature(o.Q, Value(bits2int(o.hash, curve)), Value(o.r), Value(o.s), curve)
AcceptsOnlyValid ==
  result.of = "verify" /\ result.ok /\ result.offered.Q[1] # curve.G[1] =>
    Textbook(result.offered)

(* And it accepts every valid one, unless an addition on the way meets two *)
(* points with the same x; then z is 0 from there on (uECC.c:1492-1603).   *)
Collides(o) ==
  VerifySum(o.Q, bits2int(o.hash, curve), o.r, o.s, curve)[3] = 0
AcceptsValid ==
  result.of = "verify" /\ ~result.ok /\ Textbook(result.offered)
    /\ result.offered.Q[1] # curve.G[1] => Collides(result.offered)

(* A signature uECC_sign() returned is a valid one, unless r is not below  *)
(* n or s is 0, which it does not look at (uECC.c:1284-1330).              *)
OwnSignatureValid ==
  result.of = "verify" /\ result.own =>
    \/ Textbook(result.offered)
    \/ ~InRange(result.offered.r, curve) \/ vli_isZero(result.offered.s)

(* Every function returns: whatever the generator does and however often   *)
(* an attempt fails, each step of a running call leaves fewer steps to its *)
(* return than there were (uECC.c:936-946, 1033-1048, 1352-1361,           *)
(* 1453-1485).                                                             *)
Stage == [key |-> 3, nonce |-> 3, T |-> 3, Z |-> 2, blind |-> 1, none |-> 0]
StepsLeft ==
  uECC_RNG_MAX_TRIES * (4 * (uECC_RNG_MAX_TRIES - attempts) + Stage[drawing]) - tries
CallsReturn == [][op # "none" => op' = "none" \/ StepsLeft' < StepsLeft]_ecVars

=============================================================================
