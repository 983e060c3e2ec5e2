----------------------------- MODULE EccProofs -----------------------------
(***************************************************************************)
(* Proofs about the curve operations of Ecc, for every curve that the      *)
(* assumptions of Ecdsa describe, on the exact arithmetic of VliProofs.    *)
(* First types and scalars, bytes and hashes, and the equation of a        *)
(* signature.  Then what the operations compute, against CurveGroup: the   *)
(* co-Z formulas, and the ladder with its exceptional scalars.             *)
(***************************************************************************)
EXTENDS Ecdsa, VliProofs, TLAPS

-----------------------------------------------------------------------------
(* The parameters of a curve, as the lemmas of VliProofs want them.        *)
VlisOf(c) == Vlis(c.num_words)

(* The bounds of a curve's parameters, from what is assumed of them.       *)
LEMMA CurveFacts ==
  ASSUME NEW c \in Curves
  PROVE  /\ c.num_words \in Nat \ {0} /\ c.num_words <= Base
         /\ c.p \in Nat \ {0} /\ c.p < BaseTo(c.num_words) /\ c.b \in Int /\ c.G \in Points(c)
         /\ c.n \in Nat \ {0} /\ 2 < c.n /\ c.n < BaseTo(c.num_words)
         /\ c.num_n_bits \in Nat /\ 1 < c.num_n_bits
         /\ c.num_n_bits <= c.num_words * WordBits
         /\ BaseTo(c.num_words) = Pow2[c.num_words * WordBits]
         /\ BaseTo(c.num_words) \in Nat \ {0}
<1>1. /\ c.num_words \in Nat \ {0} /\ c.num_words <= Base
      /\ c.p \in 1..(BaseTo(c.num_words) - 2) /\ c.b \in Int /\ c.G \in Points(c)
      /\ Prime(c.n) /\ c.n # 2
      /\ c.num_n_bits \in Nat /\ 1 < c.num_n_bits /\ c.num_n_bits <= c.num_words * WordBits
      /\ Pow2[c.num_n_bits - 1] <= c.n /\ c.n < Pow2[c.num_n_bits]
  BY CurveAssumption
<1> DEFINE nw == c.num_words
           bits == c.num_n_bits
           n == c.n
           p == c.p
           all == nw * WordBits
<1> HIDE DEF nw, bits, n, p, all
<1>2. BaseTo(nw) \in Nat \ {0} /\ WordBits \in Nat
  BY <1>1, BaseFacts DEF nw
<1>3. nw * WordBits \in Nat /\ WordBits * nw = nw * WordBits
  BY <1>1, <1>2 DEF nw
<1>4. BaseTo(nw) = Pow2[all]
  BY <1>3 DEF BaseTo, all
<1>5. Pow2[bits] <= Pow2[all]
  <2>1. bits \in Nat /\ all \in Nat /\ bits <= all
    BY <1>1, <1>3 DEF bits, all, nw
  <2>2. Pow2[bits] \in Nat /\ Pow2[all] \in Nat
    BY <2>1, Pow2Defined
  <2>3. CASE bits = all
    BY <2>2, <2>3
  <2>4. CASE bits < all
    <3>1. 2 * Pow2[bits] <= Pow2[all]
      BY <2>1, <2>4, Pow2Less
    <3> QED BY <2>2, <3>1
  <2> QED BY <2>1, <2>3, <2>4
<1>6. n \in Nat /\ 2 < n
  <2>1. n \in Nat /\ n > 1 /\ n # 2
    BY <1>1 DEF Prime, n
  <2> QED BY <2>1
<1>7. n < BaseTo(nw)
  <2>1. n < Pow2[bits] /\ Pow2[bits] \in Nat
    BY <1>1, Pow2Defined DEF n, bits
  <2> QED BY <1>2, <1>4, <1>5, <1>6, <2>1
<1>8. p \in Nat \ {0} /\ p < BaseTo(nw)
  <2>1. p \in 1..(BaseTo(nw) - 2)
    BY <1>1 DEF p, nw
  <2> QED BY <1>2, <2>1
<1>9. n \in Nat \ {0}
  BY <1>6
<1> QED BY <1>1, <1>2, <1>4, <1>6, <1>7, <1>8, <1>9 DEF nw, bits, n, p, all

(* n needs the last of its words.                                          *)
LEMMA OrderTopWord ==
  ASSUME NEW c \in Curves
  PROVE  BaseTo(c.num_words - 1) <= c.n
<1> DEFINE bits == c.num_n_bits
           below == (c.num_words - 1) * WordBits
<1>1. /\ c.num_words \in Nat \ {0} /\ bits \in Nat /\ below < bits
      /\ Pow2[bits - 1] <= c.n /\ Prime(c.n)
  BY CurveAssumption
<1>2. c.num_words - 1 \in Nat /\ WordBits \in Nat
  BY <1>1, BaseFacts
<1>3. below \in Nat /\ WordBits * (c.num_words - 1) = below
  BY <1>2
<1>4. BaseTo(c.num_words - 1) = Pow2[below]
  BY <1>3 DEF BaseTo
<1> HIDE DEF bits, below
<1>5. bits - 1 \in Nat /\ below <= bits - 1
  BY <1>1, <1>3
<1>6. Pow2[below] \in Nat /\ Pow2[bits - 1] \in Nat /\ c.n \in Nat
  BY <1>1, <1>3, <1>5, Pow2Defined DEF Prime
<1>7. Pow2[below] <= Pow2[bits - 1]
  <2>1. CASE below = bits - 1
    BY <1>6, <2>1
  <2>2. CASE below < bits - 1
    <3>1. 2 * Pow2[below] <= Pow2[bits - 1]
      BY <1>3, <1>5, <2>2, Pow2Less
    <3> QED BY <1>6, <3>1
  <2> QED BY <1>3, <1>5, <2>1, <2>2
<1> QED BY <1>1, <1>4, <1>6, <1>7

(* The order and p as vlis.                                                *)
LEMMA OrderExact ==
  ASSUME NEW c \in Curves
  PROVE  /\ Modulus(c.n, c) \in VlisOf(c) /\ Value(Modulus(c.n, c)) = c.n
         /\ Modulus(c.n, c) \in Positive(c.num_words) /\ ~Even(Modulus(c.n, c))
         /\ Modulus(c.p, c) \in Positive(c.num_words) /\ Value(Modulus(c.p, c)) = c.p
         /\ BaseTo(c.num_words - 1) <= Value(Modulus(c.n, c))
<1> DEFINE nw == c.num_words
           mod == Modulus(c.n, c)
<1>1. /\ nw \in Nat \ {0} /\ nw \in Nat /\ BaseTo(nw) \in Nat
      /\ c.n \in Nat /\ 2 < c.n /\ c.n < BaseTo(nw)
      /\ c.p \in Nat \ {0} /\ c.p < BaseTo(nw)
  BY CurveFacts
<1>2. c.n \in 0..(BaseTo(nw) - 1) /\ c.p \in 0..(BaseTo(nw) - 1)
  BY <1>1
<1>3. mod \in Vlis(nw) /\ Value(mod) = c.n
  BY <1>1, <1>2, WordsOfValue DEF Modulus, ToWords
<1>4. Modulus(c.p, c) \in Vlis(nw) /\ Value(Modulus(c.p, c)) = c.p
  BY <1>1, <1>2, WordsOfValue DEF Modulus, ToWords
<1>5. mod \in Positive(nw) /\ Modulus(c.p, c) \in Positive(nw)
  BY <1>1, <1>3, <1>4, PositiveExact
<1>6. ~Even(mod)
  <2>1. ASSUME Even(mod) PROVE FALSE
    <3>1. \E h \in Nat : Value(mod) = 2 * h + (mod[1] % 2)
      BY <1>1, <1>3, EvenExact
    <3>2. PICK h \in Nat : Value(mod) = 2 * h + 0
      BY <2>1, <3>1 DEF Even
    <3>3. c.n = 2 * h
      BY <1>3, <3>2
    <3>4. c.n % 2 = 0
      BY <3>3
    <3>5. c.n % 2 # 0
      <4>1. 2 \in 2..(c.n - 1) /\ Prime(c.n)
        BY <1>1, CurveAssumption
      <4> QED BY <4>1 DEF Prime
    <3> QED BY <3>4, <3>5
  <2> QED BY <2>1
<1>7. BaseTo(nw - 1) <= c.n
  BY OrderTopWord
<1> QED BY <1>3, <1>4, <1>5, <1>6, <1>7 DEF VlisOf

(* n is prime: it has no divisor in common with what is below it.          *)
LEMMA OrderCoprime ==
  ASSUME NEW c \in Curves, NEW x \in Nat, 0 < x, x < c.n
  PROVE  Coprime(x, c.n)
<1>1. c.n \in Nat /\ 2 < c.n /\ Prime(c.n)
  BY CurveFacts, CurveAssumption
<1> SUFFICES ASSUME NEW g \in Nat, Divides(g, x), Divides(g, c.n)
             PROVE  g = 1
  BY DEF Coprime
<1>2. PICK z \in Int : x = g * z
  BY DEF Divides
<1>3. PICK y \in Int : c.n = g * y
  BY DEF Divides
<1>4. g # 0 /\ 0 < z
  <2>1. g = 0 => g * z = 0
    BY <1>2
  <2>2. z <= 0 => g * z <= 0
    BY <1>2
  <2> QED BY <1>2, <2>1, <2>2
<1>5. g <= x
  <2>1. g * z = g + g * (z - 1)
    BY <1>2
  <2>2. 0 <= g * (z - 1) /\ g * (z - 1) \in Int
    BY <1>4
  <2> QED BY <1>2, <2>1, <2>2
<1>6. ASSUME g # 1 PROVE FALSE
  <2>1. g \in 2..(c.n - 1)
    BY <1>1, <1>4, <1>5, <1>6
  <2>2. c.n % g = 0
    <3>1. g \in Nat \ {0} /\ 0 \in 0..(g - 1) /\ y * g + 0 = c.n
      BY <1>3, <1>4
    <3>2. (y * g + 0) % g = 0
      BY <3>1, DivisionUnique
    <3> QED BY <3>1, <3>2
  <2> QED BY <1>1, <2>1, <2>2 DEF Prime
<1> QED BY <1>6

(* Anything in words, and what InRange() makes sure of.                    *)
LEMMA InWordsExact ==
  ASSUME NEW c \in Curves, NEW x \in Int
  PROVE  /\ ToWords(x, c) \in VlisOf(c)
         /\ x \in 0..(BaseTo(c.num_words) - 1) => Value(ToWords(x, c)) = x
  BY CurveFacts, WordsExact, WordsOfValue DEF VlisOf, ToWords

(* What uECC_verify() and the signers take for a scalar is one of 1..n-1   *)
(* (uECC.c:1270-1273, 1534-1543).                                          *)
LEMMA InRangeExact ==
  ASSUME NEW c \in Curves, NEW v \in VlisOf(c)
  PROVE  InRange(v, c) <=> Value(v) \in 1..(c.n - 1)
<1>1. c.num_words \in Nat /\ c.n \in Nat
  BY CurveFacts
<1>2. v \in Vlis(c.num_words) /\ Modulus(c.n, c) \in Vlis(c.num_words)
      /\ Value(Modulus(c.n, c)) = c.n
  BY OrderExact DEF VlisOf
<1>3. Value(v) \in Int /\ 0 <= Value(v)
  BY <1>1, <1>2, ValueBound
<1>4. vli_cmp_unsafe(Modulus(c.n, c), v) = 1 <=> Value(v) < c.n
  BY <1>1, <1>2, CmpUnsafeExact
<1>5. vli_isZero(v) <=> Value(v) = 0
  BY <1>1, <1>2, ZeroExact
<1> QED BY <1>1, <1>3, <1>4, <1>5 DEF InRange

-----------------------------------------------------------------------------
(* regularize_k() adds n or 2n to a scalar, and what the ladder takes of   *)
(* the sum, the bit of its first turn included, is all of it               *)
(* (uECC.c:910-922).                                                       *)
THEOREM RegularizeExact ==
  ASSUME NEW c \in Curves, NEW v \in VlisOf(c), Value(v) \in 1..(c.n - 1)
  PROVE  /\ regularize_k(v, c) \in VlisOf(c)
         /\ \E i \in {1, 2} :
              Pow2[c.num_n_bits] + (Value(regularize_k(v, c)) % Pow2[c.num_n_bits])
                = Value(v) + i * c.n
<1> DEFINE nw == c.num_words
           bits == c.num_n_bits
           all == nw * WordBits
           N == c.n
           K == Value(v)
           E == Pow2[bits]
           B == BaseTo(nw)
           mod == Modulus(c.n, c)
           first == vli_add(v, mod)
           second == vli_add(first.words, mod)
           carry == \/ first.out = 1
                    \/ bits < all /\ vli_testBit(first.words, bits)
           y == regularize_k(v, c)
           Good(w) == \E i \in {1, 2} : E + (w % E) = K + i * N
<1>1. /\ nw \in Nat \ {0} /\ nw \in Nat /\ N \in Nat /\ 2 < N /\ N < B /\ bits \in Nat /\ 1 < bits
      /\ bits <= all /\ B = Pow2[all] /\ B \in Nat \ {0} /\ all \in Nat
  <2>1. WordBits \in Nat
    BY BaseFacts
  <2> QED BY <2>1, CurveFacts
<1>2. mod \in Vlis(nw) /\ Value(mod) = N /\ v \in Vlis(nw)
  BY OrderExact DEF VlisOf
<1>3. K \in 1..(N - 1) /\ K \in Int
  OBVIOUS
<1>4. E \in Nat \ {0} /\ N < E /\ E <= 2 * N
  <2>1. bits - 1 \in Nat /\ (bits - 1) + 1 = bits
    BY <1>1
  <2>2. E = 2 * Pow2[bits - 1] /\ Pow2[bits - 1] \in Nat /\ E \in Nat \ {0}
    BY <1>1, <2>1, Pow2Defined
  <2>3. Pow2[bits - 1] <= N /\ N < E
    BY CurveAssumption
  <2> HIDE DEF E, bits, N
  <2> QED BY <1>1, <2>2, <2>3
<1>5. y = IF carry THEN first.words ELSE second.words
  BY DEF regularize_k
<1>6. /\ first.words \in Vlis(nw) /\ first.out \in {0, 1}
      /\ K + N < B => first.out = 0 /\ Value(first.words) = K + N
      /\ ~(K + N < B) => first.out = 1 /\ Value(first.words) = K + N - B
  BY <1>1, <1>2, AddExact, AddCases
<1> HIDE DEF first
<1>7. /\ second.words \in Vlis(nw)
      /\ Value(first.words) + N < B => Value(second.words) = Value(first.words) + N
      /\ ~(Value(first.words) + N < B) => Value(second.words) = Value(first.words) + N - B
  BY <1>1, <1>2, <1>6, AddExact, AddCases
<1>8. Value(first.words) \in Int /\ 0 <= Value(first.words)
      /\ Value(second.words) \in Int /\ 0 <= Value(second.words)
  BY <1>1, <1>6, <1>7, ValueBound
<1> HIDE DEF second, mod, y, K, N, E, B, bits, all, nw
<1>9. ASSUME NEW w \in Int, 0 <= w, w < E PROVE w % E = w
  <2>1. 0 \in Int /\ w \in 0..(E - 1) /\ 0 * E + w = w
    BY <1>4, <1>9
  <2> QED BY <1>4, <2>1, DivisionUnique
<1>10. ASSUME NEW w \in Int, E <= w, w < 2 * E PROVE w % E = w - E /\ w \div E = 1
  <2>1. 1 \in Int /\ w - E \in 0..(E - 1) /\ 1 * E + (w - E) = w
    BY <1>4, <1>10
  <2>2. (1 * E + (w - E)) % E = w - E /\ (1 * E + (w - E)) \div E = 1
    BY <1>4, <2>1, DivisionUnique
  <2> QED BY <2>1, <2>2
<1>11. ASSUME NEW w \in Int, 0 <= w, w < E PROVE w \div E = 0
  <2>1. 0 \in Int /\ w \in 0..(E - 1) /\ 0 * E + w = w
    BY <1>4, <1>11
  <2> QED BY <1>4, <2>1, DivisionUnique
<1>12. ASSUME NEW w \in Int, E + (w % E) = K + 1 * N \/ E + (w % E) = K + 2 * N PROVE Good(w)
  BY <1>12
<1> HIDE DEF Good
<1>13. ASSUME bits = all PROVE Good(Value(y))
  <2>1. E = B
    BY <1>1, <1>13 DEF E
  <2>2. carry <=> first.out = 1
    BY <1>1, <1>13
  <2>3. CASE K + N < B
    <3>1. y = second.words /\ Value(y) = K + 2 * N - E
      BY <1>1, <1>3, <1>4, <1>5, <1>6, <1>7, <2>1, <2>2, <2>3
    <3>2. 0 <= Value(y) /\ Value(y) < E /\ Value(y) \in Int
      BY <1>1, <1>3, <1>4, <2>1, <2>3, <3>1
    <3>3. E + (Value(y) % E) = K + 2 * N
      BY <1>1, <1>3, <1>4, <1>9, <3>1, <3>2
    <3> QED BY <1>12, <3>2, <3>3
  <2>4. CASE ~(K + N < B)
    <3>1. y = first.words /\ Value(y) = K + N - E
      BY <1>5, <1>6, <2>1, <2>2, <2>4
    <3>2. 0 <= Value(y) /\ Value(y) < E /\ Value(y) \in Int
      BY <1>1, <1>3, <1>4, <2>1, <2>4, <3>1
    <3>3. E + (Value(y) % E) = K + 1 * N
      BY <1>1, <1>3, <1>4, <1>9, <3>1, <3>2
    <3> QED BY <1>12, <3>2, <3>3
  <2> QED BY <2>3, <2>4
<1>14. ASSUME bits < all PROVE Good(Value(y))
  <2>1. 2 * E <= B
    BY <1>1, <1>14, Pow2Less DEF E
  <2>2. first.out = 0 /\ Value(first.words) = K + N /\ K + N < 2 * E /\ 0 <= K + N /\ K + N \in Int
    BY <1>1, <1>3, <1>4, <1>6, <2>1
  <2>3. vli_testBit(first.words, bits) <=> (Value(first.words) \div E) % 2 = 1
    <3>1. bits \in 0..(nw * WordBits - 1)
      BY <1>1, <1>14 DEF all
    <3> QED BY <1>1, <1>6, <3>1, TestBitExact DEF E
  <2>4. CASE K + N < E
    <3>1. ~carry
      BY <1>11, <2>2, <2>3, <2>4
    <3>2. y = second.words /\ Value(y) = K + 2 * N
      BY <1>1, <1>3, <1>4, <1>5, <1>7, <2>1, <2>2, <2>4, <3>1
    <3>3. E <= Value(y) /\ Value(y) < 2 * E /\ Value(y) \in Int
      BY <1>1, <1>3, <1>4, <2>4, <3>2
    <3>4. E + (Value(y) % E) = K + 2 * N
      BY <1>1, <1>3, <1>4, <1>10, <3>2, <3>3, SMTT(60)
    <3> QED BY <1>12, <3>3, <3>4
  <2>5. CASE ~(K + N < E)
    <3>1. carry
      <4>1. Value(first.words) \div E = 1
        BY <1>1, <1>3, <1>4, <1>10, <2>2, <2>5, SMTT(60)
      <4> QED BY <1>14, <2>3, <4>1
    <3>2. y = first.words /\ Value(y) = K + N
      BY <1>5, <2>2, <3>1
    <3>3. E <= Value(y) /\ Value(y) < 2 * E /\ Value(y) \in Int
      BY <1>1, <1>3, <1>4, <2>2, <2>5, <3>2
    <3>4. E + (Value(y) % E) = K + 1 * N
      BY <1>1, <1>3, <1>4, <1>10, <3>2, <3>3, SMTT(60)
    <3> QED BY <1>12, <3>3, <3>4
  <2> QED BY <2>4, <2>5
<1>15. Good(Value(y))
  BY <1>1, <1>13, <1>14
<1>16. y \in VlisOf(c)
  BY <1>5, <1>6, <1>7 DEF VlisOf, nw
<1> QED BY <1>15, <1>16 DEF Good, E, K, N, y, bits

-----------------------------------------------------------------------------
(* The point operations give points: pairs of coordinates below p, for any *)
(* integers, whatever the bits of the scalar are.                          *)
Ints2 == Int \X Int
Ints3 == Int \X Int \X Int

(* A pair of residues modulo p is a point.                                 *)
LEMMA ModuloP ==
  ASSUME NEW c \in Curves
  PROVE  /\ \A x \in Int : x % c.p \in 0..(c.p - 1) /\ x % c.p \in Int
         /\ \A A \in Points(c) : A \in Ints2 /\ A[1] \in Int /\ A[2] \in Int
         /\ \A x, y \in Int : <<x % c.p, y % c.p>> \in Points(c)
<1>1. c.p \in Nat \ {0}
  BY CurveFacts
<1>2. ASSUME NEW x \in Int PROVE x % c.p \in 0..(c.p - 1) /\ x % c.p \in Int
  BY <1>1
<1>3. ASSUME NEW A \in Points(c) PROVE A \in Ints2 /\ A[1] \in Int /\ A[2] \in Int
  <2>1. 0..(c.p - 1) \subseteq Int
    BY <1>1
  <2> QED BY <2>1 DEF Points, Ints2
<1>4. ASSUME NEW x \in Int, NEW y \in Int PROVE <<x % c.p, y % c.p>> \in Points(c)
  BY <1>2 DEF Points
<1> QED BY <1>2, <1>3, <1>4

(* What apply_z() gives is reduced, whatever it is given.                  *)
LEMMA ApplyZPoint ==
  ASSUME NEW c \in Curves, NEW A \in Ints2, NEW z \in Int
  PROVE  apply_z(A, z, c) \in Points(c)
<1> DEFINE z2 == (z * z) % c.p
           z3 == (z2 * z) % c.p
<1>1. z * z \in Int /\ A[1] \in Int /\ A[2] \in Int
  BY DEF Ints2
<1>2. z2 \in Int
  BY <1>1, ModuloP
<1>3. z2 * z \in Int
  BY <1>2
<1>4. z3 \in Int
  BY <1>3, ModuloP
<1>5. A[1] * z2 \in Int /\ A[2] * z3 \in Int
  BY <1>1, <1>2, <1>4
<1>6. apply_z(A, z, c) = <<(A[1] * z2) % c.p, (A[2] * z3) % c.p>>
  BY DEF apply_z
<1> HIDE DEF z2, z3
<1> QED BY <1>5, <1>6, ModuloP

(* Doubling gives integers.                                                *)
LEMMA DoubleInts ==
  ASSUME NEW c \in Curves, NEW J \in Ints3
  PROVE  double_jacobian(J, c) \in Ints3
<1> DEFINE y2 == (J[2] * J[2]) % c.p
           A == (J[1] * y2) % c.p
           z2 == (J[3] * J[3]) % c.p
           slope == ((J[1] + z2) * (J[1] - z2)) % c.p
           trebled == (3 * slope) % c.p
           B == (IF trebled % 2 = 1 THEN trebled + c.p ELSE trebled) \div 2
           x3 == (B * B - 2 * A) % c.p
           y3 == (B * (A - x3) - y2 * y2) % c.p
           z3 == (J[2] * J[3]) % c.p
<1>0. J[1] \in Int /\ J[2] \in Int /\ J[3] \in Int /\ c.p \in Int
  BY CurveFacts DEF Ints3
<1>1. J[2] * J[2] \in Int /\ J[3] * J[3] \in Int /\ J[2] * J[3] \in Int
  BY <1>0
<1>2. y2 \in Int /\ z2 \in Int /\ z3 \in Int
  BY <1>1, ModuloP
<1>3. double_jacobian(J, c) = IF J[3] = 0 THEN J ELSE <<x3, y3, z3>>
  BY DEF double_jacobian
<1> HIDE DEF y2, z2, z3
<1>4. J[1] * y2 \in Int /\ (J[1] + z2) * (J[1] - z2) \in Int
  BY <1>0, <1>2
<1>5. A \in Int /\ slope \in Int
  BY <1>4, ModuloP
<1> HIDE DEF A, slope
<1>6. 3 * slope \in Int
  BY <1>5
<1>7. trebled \in Int
  BY <1>6, ModuloP
<1> HIDE DEF trebled
<1>8. B \in Int
  BY <1>0, <1>7
<1> HIDE DEF B
<1>9. B * B - 2 * A \in Int
  BY <1>5, <1>8
<1>10. x3 \in Int
  BY <1>9, ModuloP
<1> HIDE DEF x3
<1>11. B * (A - x3) - y2 * y2 \in Int
  BY <1>2, <1>5, <1>8, <1>10
<1>12. y3 \in Int
  BY <1>11, ModuloP
<1> HIDE DEF y3
<1> QED BY <1>2, <1>3, <1>10, <1>12 DEF Ints3

(* What the co-Z addition gives is reduced.                                *)
LEMMA AddPoints ==
  ASSUME NEW c \in Curves, NEW A0 \in Ints2, NEW B0 \in Ints2
  PROVE  /\ XYcZ_add(A0, B0, c).same \in Points(c) /\ XYcZ_add(A0, B0, c).sum \in Points(c)
         /\ XYcZ_add(A0, B0, c).sub \in Int
<1> DEFINE A == ((B0[1] - A0[1]) * (B0[1] - A0[1])) % c.p
           B == (A0[1] * A) % c.p
           C == (B0[1] * A) % c.p
           dy == (B0[2] - A0[2]) % c.p
           x3 == (dy * dy - B - C) % c.p
           E == (A0[2] * (C - B)) % c.p
           sum == <<x3, (dy * (B - x3) - E) % c.p>>
<1>0. A0[1] \in Int /\ A0[2] \in Int /\ B0[1] \in Int /\ B0[2] \in Int
  BY DEF Ints2
<1>1. XYcZ_add(A0, B0, c) = [same |-> <<B, E>>, sum |-> sum, sub |-> (B - x3) % c.p]
  BY DEF XYcZ_add
<1>2. (B0[1] - A0[1]) * (B0[1] - A0[1]) \in Int /\ B0[2] - A0[2] \in Int
  BY <1>0
<1>3. A \in Int /\ dy \in Int
  BY <1>2, ModuloP
<1> HIDE DEF A, dy
<1>4. A0[1] * A \in Int /\ B0[1] * A \in Int
  BY <1>0, <1>3
<1>5. B \in Int /\ C \in Int /\ B \in 0..(c.p - 1)
  BY <1>4, ModuloP
<1> HIDE DEF B, C
<1>6. dy * dy - B - C \in Int /\ A0[2] * (C - B) \in Int
  BY <1>0, <1>3, <1>5
<1>7. x3 \in Int /\ E \in Int /\ x3 \in 0..(c.p - 1) /\ E \in 0..(c.p - 1)
  BY <1>6, ModuloP
<1> HIDE DEF x3, E
<1>8. dy * (B - x3) - E \in Int /\ B - x3 \in Int
  BY <1>3, <1>5, <1>7
<1>9. (dy * (B - x3) - E) % c.p \in 0..(c.p - 1) /\ (B - x3) % c.p \in Int
  BY <1>8, ModuloP
<1> QED BY <1>1, <1>5, <1>7, <1>9 DEF Points

(* And so is what the conjugate addition gives.                            *)
LEMMA AddCPoints ==
  ASSUME NEW c \in Curves, NEW A0 \in Ints2, NEW B0 \in Ints2, NEW sub \in Int
  PROVE  /\ XYcZ_addC(A0, B0, sub, c).difference \in Points(c)
         /\ XYcZ_addC(A0, B0, sub, c).sum \in Points(c)
<1> DEFINE A == (sub * sub) % c.p
           B == (A0[1] * A) % c.p
           C == (B0[1] * A) % c.p
           E == (A0[2] * (C - B)) % c.p
           dy == (B0[2] - A0[2]) % c.p
           sy == (B0[2] + A0[2]) % c.p
           x3 == (dy * dy - B - C) % c.p
           x4 == (sy * sy - B - C) % c.p
<1>0. A0[1] \in Int /\ A0[2] \in Int /\ B0[1] \in Int /\ B0[2] \in Int
  BY DEF Ints2
<1>1. XYcZ_addC(A0, B0, sub, c) =
        [difference |-> <<x4, (sy * (x4 - B) - E) % c.p>>,
         sum |-> <<x3, (dy * (B - x3) - E) % c.p>>]
  BY DEF XYcZ_addC
<1>2. sub * sub \in Int /\ B0[2] - A0[2] \in Int /\ B0[2] + A0[2] \in Int
  BY <1>0
<1>3. A \in Int /\ dy \in Int /\ sy \in Int
  BY <1>2, ModuloP
<1> HIDE DEF A, dy, sy
<1>4. A0[1] * A \in Int /\ B0[1] * A \in Int
  BY <1>0, <1>3
<1>5. B \in Int /\ C \in Int
  BY <1>4, ModuloP
<1> HIDE DEF B, C
<1>6. dy * dy - B - C \in Int /\ sy * sy - B - C \in Int /\ A0[2] * (C - B) \in Int
  BY <1>0, <1>3, <1>5
<1>7. x3 \in Int /\ x4 \in Int /\ E \in Int /\ x3 \in 0..(c.p - 1) /\ x4 \in 0..(c.p - 1)
  BY <1>6, ModuloP
<1> HIDE DEF x3, x4, E
<1>8. dy * (B - x3) - E \in Int /\ sy * (x4 - B) - E \in Int
  BY <1>3, <1>5, <1>7
<1>9. (dy * (B - x3) - E) % c.p \in 0..(c.p - 1) /\ (sy * (x4 - B) - E) % c.p \in 0..(c.p - 1)
  BY <1>8, ModuloP
<1> QED BY <1>1, <1>7, <1>9 DEF Points

(* The doubling that starts the ladder.                                    *)
LEMMA InitialDoublePoints ==
  ASSUME NEW c \in Curves, NEW A \in Ints2, NEW z \in Int
  PROVE  /\ XYcZ_initial_double(A, z, c).twice \in Ints2
         /\ XYcZ_initial_double(A, z, c).same \in Points(c)
<1> DEFINE first == apply_z(A, z, c)
           twice == double_jacobian(<<first[1], first[2], z>>, c)
<1>1. first \in Points(c)
  BY ApplyZPoint
<1>2. <<first[1], first[2], z>> \in Ints3
  BY <1>1, ModuloP DEF Ints3
<1>3. twice \in Ints3
  BY <1>2, DoubleInts
<1>4. XYcZ_initial_double(A, z, c) = [twice |-> <<twice[1], twice[2]>>, same |-> apply_z(A, twice[3], c)]
  BY DEF XYcZ_initial_double
<1> HIDE DEF twice
<1>5. <<twice[1], twice[2]>> \in Ints2 /\ twice[3] \in Int
  BY <1>3 DEF Ints2, Ints3
<1>6. apply_z(A, twice[3], c) \in Points(c)
  BY <1>5, ApplyZPoint
<1> QED BY <1>4, <1>5, <1>6

-----------------------------------------------------------------------------
(* The ladder.                                                             *)
LadderStates == [R : Ints2 \X Ints2, sub : Int]

(* The addition before a turn of the ladder, either way round.             *)
LEMMA CoZPoints ==
  ASSUME NEW c \in Curves, NEW R \in Ints2 \X Ints2, NEW sub \in Int, NEW bit
  PROVE  CoZ(R, sub, bit, c).difference \in Points(c) /\ CoZ(R, sub, bit, c).sum \in Points(c)
<1>1. R[1] \in Ints2 /\ R[2] \in Ints2
  OBVIOUS
<1> QED BY <1>1, AddCPoints DEF CoZ

(* The two points of a pair, whichever the bit puts first.                 *)
LEMMA PairTyped ==
  ASSUME NEW S, NEW x \in S, NEW y \in S, NEW bit
  PROVE  Pair(bit, x, y) \in S \X S /\ Pair(bit, x, y)[1] \in S /\ Pair(bit, x, y)[2] \in S
BY DEF Pair

LadderTurn(was, scalar, i, c) ==
  LET bit == vli_testBit(scalar, i)
      co == CoZ(was.R, was.sub, bit, c)
      next == XYcZ_add(co.sum, co.difference, c)
  IN [R |-> Pair(bit, next.same, next.sum), sub |-> next.sub]

(* One turn of the ladder.                                                 *)
LEMMA LadderTurnTyped ==
  ASSUME NEW c \in Curves, NEW was \in LadderStates, NEW scalar, NEW i
  PROVE  LadderTurn(was, scalar, i, c) \in LadderStates
<1> DEFINE bit == vli_testBit(scalar, i)
           co == CoZ(was.R, was.sub, bit, c)
           next == XYcZ_add(co.sum, co.difference, c)
<1>1. was.R \in Ints2 \X Ints2 /\ was.sub \in Int
  BY DEF LadderStates
<1>2. co.sum \in Ints2 /\ co.difference \in Ints2
  BY <1>1, CoZPoints, ModuloP
<1> HIDE DEF co
<1>3. next.same \in Ints2 /\ next.sum \in Ints2 /\ next.sub \in Int
  BY <1>2, AddPoints, ModuloP
<1> HIDE DEF next, bit
<1>4. Pair(bit, next.same, next.sum) \in Ints2 \X Ints2
  BY <1>3, PairTyped
<1>5. LadderTurn(was, scalar, i, c) = [R |-> Pair(bit, next.same, next.sum), sub |-> next.sub]
  BY DEF LadderTurn, bit, co, next
<1> QED BY <1>3, <1>4, <1>5 DEF LadderStates

(* What the ladder has after each of its turns, from turn N - 1 to 1.      *)
LadderRun(after, R, sub, scalar, N, c) ==
  /\ Ladder(R, sub, scalar, N + 1, c) = after[1]
  /\ after[N] = [R |-> R, sub |-> sub]
  /\ \A i \in 1..N : after[i] \in LadderStates
  /\ \A i \in 1..(N - 1) : after[i] = LadderTurn(after[i + 1], scalar, i, c)

(* The turns of the ladder: the recursion has a solution, and it stays in  *)
(* its states.                                                             *)
LEMMA LadderDefined ==
  ASSUME NEW c \in Curves, NEW R \in Ints2 \X Ints2, NEW sub \in Int, NEW scalar,
         NEW N \in Nat, 0 < N
  PROVE  \E after : LadderRun(after, R, sub, scalar, N, c)
<1> DEFINE A == LadderStates
           a == [R |-> R, sub |-> sub]
           step == [i \in 1..(N - 1) |-> [s \in A |-> LadderTurn(s, scalar, i, c)]]
           F(g) == [i \in 1..N |-> IF i = N THEN a ELSE LadderTurn(g[i + 1], scalar, i, c)]
           after == CHOOSE g : g = F(g)
<1>1. Ladder(R, sub, scalar, N + 1, c) = after[1]
  <2>1. (N + 1) - 1 = N
    OBVIOUS
  <2> QED BY <2>1 DEF Ladder, LadderTurn
<1>2. a \in A
  BY DEF LadderStates
<1>3. step \in [1..(N - 1) -> [A -> A]]
  <2> HIDE DEF A
  <2>1. ASSUME NEW i \in 1..(N - 1), NEW s \in A PROVE LadderTurn(s, scalar, i, c) \in A
    BY LadderTurnTyped DEF A
  <2> QED BY <2>1
<1>5. PICK f : FollowsDown(f, N, A, a, step)
  <2> HIDE DEF A, a, step
  <2> QED BY <1>2, <1>3, DescendingRecursionExists
<1>6. f = F(f)
  <2>1. ASSUME NEW i \in 1..N, i # N
        PROVE  step[i][f[i + 1]] = LadderTurn(f[i + 1], scalar, i, c)
    <3>1. i \in 1..(N - 1) /\ i + 1 \in 1..N
      BY <2>1
    <3>2. f[i + 1] \in A
      BY <1>5, <3>1 DEF FollowsDown
    <3> HIDE DEF A
    <3> QED BY <3>1, <3>2
  <2> HIDE DEF step, a
  <2>2. f = [i \in 1..N |-> IF i = N THEN a ELSE step[i][f[i + 1]]]
    BY <1>5 DEF FollowsDown
  <2> QED BY <2>1, <2>2
<1>7. after = F(after)
  <2> HIDE DEF F
  <2> QED BY <1>6
<1> HIDE DEF after, a, A
<1>8. \A i \in 1..N : after[i] = IF i = N THEN a ELSE LadderTurn(after[i + 1], scalar, i, c)
  BY <1>7
<1> DEFINE S == {j \in 0..(N - 1) : after[N - j] \in A}
<1>9. 0..(N - 1) \subseteq S
  <2>1. 0 \in S
    <3>1. N - 0 = N /\ N \in 1..N
      OBVIOUS
    <3> QED BY <1>2, <1>8, <3>1
  <2>2. ASSUME NEW j \in 0..((N - 1) - 1), j \in S PROVE j + 1 \in S
    <3>1. /\ N - (j + 1) \in 1..N /\ N - (j + 1) # N /\ N - (j + 1) + 1 = N - j
          /\ j + 1 \in 0..(N - 1)
      OBVIOUS
    <3>2. after[N - (j + 1)] = LadderTurn(after[N - j], scalar, N - (j + 1), c)
      BY <1>8, <3>1
    <3>3. LadderTurn(after[N - j], scalar, N - (j + 1), c) \in A
      BY <2>2, LadderTurnTyped DEF A
    <3> QED BY <3>1, <3>2, <3>3
  <2> HIDE DEF S
  <2>3. N - 1 \in Nat
    OBVIOUS
  <2> QED BY <2>1, <2>2, <2>3, IntervalInduction
<1>10. ASSUME NEW i \in 1..N PROVE after[i] \in LadderStates
  <2>1. N - i \in 0..(N - 1) /\ N - (N - i) = i
    OBVIOUS
  <2> QED BY <1>9, <2>1 DEF A
<1>11. \A i \in 1..(N - 1) : after[i] = LadderTurn(after[i + 1], scalar, i, c)
  BY <1>8
<1>12. after[N] = [R |-> R, sub |-> sub]
  <2>1. N \in 1..N
    OBVIOUS
  <2> QED BY <1>8, <2>1 DEF a
<1>13. LadderRun(after, R, sub, scalar, N, c)
  BY <1>1, <1>10, <1>11, <1>12 DEF LadderRun
<1> HIDE DEF after
<1> QED BY <1>13, Zenon

(* So it ends in one.                                                      *)
LEMMA LadderTyped ==
  ASSUME NEW c \in Curves, NEW R \in Ints2 \X Ints2, NEW sub \in Int, NEW scalar,
         NEW num_bits \in Nat, 1 < num_bits
  PROVE  Ladder(R, sub, scalar, num_bits, c) \in LadderStates
<1>1. ASSUME NEW N \in Nat, 0 < N
      PROVE  Ladder(R, sub, scalar, N + 1, c) \in LadderStates
  <2>1. PICK after : LadderRun(after, R, sub, scalar, N, c)
    BY <1>1, LadderDefined
  <2>2. 1 \in 1..N
    BY <1>1
  <2> QED BY <2>1, <2>2 DEF LadderRun
<1>2. num_bits - 1 \in Nat /\ 0 < num_bits - 1 /\ num_bits = (num_bits - 1) + 1
  OBVIOUS
<1> QED BY <1>1, <1>2

(* The inverse of a coordinate.                                            *)
LEMMA ModInvOfCoordinate ==
  ASSUME NEW c \in Curves, NEW z \in Int
  PROVE  modInv(z, c.p, c) \in Int
<1>1. c.num_words \in Nat \ {0} /\ c.num_words \in Nat /\ Modulus(c.p, c) \in Positive(c.num_words)
  BY CurveFacts, OrderExact
<1>2. ToWords(z, c) \in Vlis(c.num_words)
  BY InWordsExact DEF VlisOf
<1>3. vli_modInv(ToWords(z, c), Modulus(c.p, c)) \in Vlis(c.num_words)
  BY <1>1, <1>2, ModInvTyped
<1> QED BY <1>1, <1>3, ValueBound DEF modInv

(* A product modulo p.                                                     *)
LEMMA FastProduct ==
  ASSUME NEW c \in Curves, NEW x \in Int, NEW y \in Int
  PROVE  modMult_fast(x, y, c) \in Int
<1>1. x * y \in Int
  OBVIOUS
<1> QED BY <1>1, ModuloP DEF modMult_fast

(* The last turn gives a reduced point.                                    *)
LEMMA LastAdditionPoint ==
  ASSUME NEW c \in Curves, NEW co, co.sum \in Points(c), co.difference \in Points(c),
         NEW bit, NEW point \in Ints2
  PROVE  LastAddition(co, bit, point, c) \in Points(c)
<1> DEFINE R == Pair(bit, co.sum, co.difference)
           z1 == modMult_fast(R[2][1] - R[1][1], co.difference[2], c)
           z2 == modMult_fast(z1, point[1], c)
           last == XYcZ_add(co.sum, co.difference, c)
<1>1. /\ co.sum \in Ints2 /\ co.difference \in Ints2 /\ co.difference[1] \in Int
      /\ co.difference[2] \in Int /\ point[1] \in Int /\ point[2] \in Int
  BY ModuloP DEF Ints2
<1>2. R[1] \in Points(c) /\ R[2] \in Points(c)
  BY PairTyped
<1> HIDE DEF R
<1>3. R[2][1] - R[1][1] \in Int
  BY <1>2, ModuloP
<1>4. z1 \in Int
  BY <1>1, <1>3, FastProduct
<1> HIDE DEF z1
<1>5. z2 \in Int
  BY <1>1, <1>4, FastProduct
<1> HIDE DEF z2
<1>6. modInv(z2, c.p, c) \in Int
  BY <1>5, ModInvOfCoordinate
<1>7. modMult_fast(modInv(z2, c.p, c), point[2], c) \in Int
  BY <1>1, <1>6, FastProduct
<1>8. FinalZ(co, bit, point, c) \in Int
  <2>1. modMult_fast(modMult_fast(modInv(z2, c.p, c), point[2], c), co.difference[1], c) \in Int
    BY <1>1, <1>7, FastProduct
  <2> QED BY <2>1 DEF FinalZ, R, z1, z2
<1>9. last.same \in Ints2 /\ last.sum \in Ints2
  BY <1>1, AddPoints, ModuloP
<1> HIDE DEF last
<1>10. Pair(bit, last.same, last.sum)[1] \in Ints2
  BY <1>9, PairTyped
<1>11. apply_z(Pair(bit, last.same, last.sum)[1], FinalZ(co, bit, point, c), c) \in Points(c)
  BY <1>8, <1>10, ApplyZPoint
<1> QED BY <1>11 DEF LastAddition, last

(* The coordinates of what the ladder gives are reduced, whatever scalar   *)
(* and Z it is given.                                                      *)
LEMMA RegularMultPoint ==
  ASSUME NEW c \in Curves, NEW point \in Ints2, NEW v, NEW z \in Int
  PROVE  RegularMult(point, v, z, c) \in Points(c)
<1> DEFINE start == XYcZ_initial_double(point, z, c)
           scalar == regularize_k(v, c)
           num_bits == c.num_n_bits + 1
           bit == vli_testBit(scalar, 0)
<1>1. start.twice \in Ints2 /\ start.same \in Points(c)
  BY InitialDoublePoints
<1> HIDE DEF start
<1>2. start.same \in Ints2 /\ (start.same[1] - start.twice[1]) \in Int
  BY <1>1, ModuloP DEF Ints2
<1>3. (start.same[1] - start.twice[1]) % c.p \in Int
  BY <1>2, ModuloP
<1>4. <<start.same, start.twice>> \in Ints2 \X Ints2
  BY <1>1, <1>2
<1>5. num_bits \in Nat /\ 1 < num_bits
  BY CurveFacts
<1> HIDE DEF num_bits
<1> DEFINE up == Started(start, scalar, num_bits, c)
<1>6. up \in LadderStates
  BY <1>3, <1>4, <1>5, LadderTyped DEF Started
<1> HIDE DEF up, scalar
<1>7. up.R \in Ints2 \X Ints2 /\ up.sub \in Int
  BY <1>6 DEF LadderStates
<1> DEFINE co == CoZ(up.R, up.sub, bit, c)
<1>8. co.difference \in Points(c) /\ co.sum \in Points(c)
  BY <1>7, CoZPoints
<1> HIDE DEF co
<1>9. LastAddition(co, bit, point, c) \in Points(c)
  BY <1>8, LastAdditionPoint
<1> QED BY <1>9 DEF RegularMult, EccPoint_mult, LastBit, start, scalar, num_bits, up, co

-----------------------------------------------------------------------------
(* Bytes and words.                                                        *)
Bytes == 0..(ByteTo(1) - 1)

(* Powers of the size of a byte.                                           *)
LEMMA ByteFacts ==
  /\ ByteBits \in Nat \ {0} /\ WordBytes \in Nat \ {0}
  /\ ByteTo(0) = 1 /\ ByteTo(WordBytes) = Base
  /\ \A i \in Nat : ByteTo(i) \in Nat \ {0} /\ ByteTo(i + 1) = ByteTo(i) * ByteTo(1)
<1>1. ByteBits \in Nat \ {0} /\ WordBytes \in Nat \ {0}
  BY VliAssumption
<1>2. ByteTo(0) = 1
  BY <1>1, Pow2Defined DEF ByteTo
<1>3. ASSUME NEW i \in Nat PROVE ByteTo(i) \in Nat \ {0} /\ ByteTo(i + 1) = ByteTo(i) * ByteTo(1)
  <2>1. ByteBits * i \in Nat /\ ByteBits * 1 = ByteBits /\ ByteBits * (i + 1) = ByteBits * i + ByteBits
    BY <1>1
  <2> QED BY <1>1, <2>1, Pow2Plus, Pow2Defined DEF ByteTo
<1> QED BY <1>1, <1>2, <1>3 DEF ByteTo, Base, WordBits

(* The word that bytesToNative() fills with WordBytes bytes.               *)
LEMMA FilledWord ==
  ASSUME NEW byte \in [0..(WordBytes - 1) -> Bytes]
  PROVE  LET filled[j \in 0..WordBytes] ==
               IF j = 0 THEN 0 ELSE filled[j - 1] + byte[j - 1] * ByteTo(j - 1)
         IN filled[WordBytes] \in Word
<1> DEFINE N == WordBytes
           step == [j \in 0..(N - 1) |-> [x \in Int |-> x + byte[j] * ByteTo(j)]]
           F(g) == [j \in 0..N |-> IF j = 0 THEN 0 ELSE g[j - 1] + byte[j - 1] * ByteTo(j - 1)]
           filled == CHOOSE g : g = F(g)
<1>0. N \in Nat /\ N \in 0..N
  BY ByteFacts
<1>1. ASSUME NEW j \in 0..(N - 1)
      PROVE  /\ byte[j] \in Int /\ 0 <= byte[j] /\ byte[j] <= ByteTo(1) - 1
             /\ ByteTo(j) \in Nat /\ ByteTo(1) \in Nat
             /\ byte[j] * ByteTo(j) \in Int /\ 0 <= byte[j] * ByteTo(j)
             /\ byte[j] * ByteTo(j) <= ByteTo(j + 1) - ByteTo(j)
  <2>1. byte[j] \in 0..(ByteTo(1) - 1)
    BY DEF Bytes
  <2>2. ByteTo(j) \in Nat /\ ByteTo(1) \in Nat /\ ByteTo(j + 1) = ByteTo(j) * ByteTo(1)
    <3>1. j \in Nat /\ 1 \in Nat
      BY <1>0
    <3>2. \A i \in Nat : ByteTo(i) \in Nat /\ ByteTo(i + 1) = ByteTo(i) * ByteTo(1)
      BY ByteFacts
    <3> QED BY <3>1, <3>2
  <2>3. \A b \in Nat, w \in Nat : \A x \in 0..(w - 1) : 0 <= x * b /\ x * b <= b * w - b /\ x * b \in Int
    OBVIOUS
  <2>4. 0 <= byte[j] * ByteTo(j) /\ byte[j] * ByteTo(j) <= ByteTo(j) * ByteTo(1) - ByteTo(j)
        /\ byte[j] * ByteTo(j) \in Int
    BY <2>1, <2>2, <2>3
  <2> QED BY <2>1, <2>2, <2>4
<1>2. step \in [0..(N - 1) -> [Int -> Int]]
  BY <1>1
<1>3. PICK f : FollowsUpTo(f, N, Int, 0, step)
  <2> DEFINE A == Int
  <2>1. 0 \in A /\ step \in [0..(N - 1) -> [A -> A]]
    BY <1>2
  <2> HIDE DEF step, A, N
  <2>2. \E f : FollowsUpTo(f, N, A, 0, step)
    BY <1>0, <2>1, FiniteRecursionExists
  <2> QED BY <2>2 DEF A
<1>4. f = F(f)
  <2>1. ASSUME NEW j \in 0..N, j # 0
        PROVE  step[j - 1][f[j - 1]] = f[j - 1] + byte[j - 1] * ByteTo(j - 1)
    <3>1. j - 1 \in 0..(N - 1) /\ j - 1 \in 0..N
      BY <1>0, <2>1
    <3>2. f[j - 1] \in Int
      BY <1>3, <3>1 DEF FollowsUpTo
    <3> QED BY <3>1, <3>2
  <2> HIDE DEF step
  <2>2. f = [j \in 0..N |-> IF j = 0 THEN 0 ELSE step[j - 1][f[j - 1]]]
    BY <1>3 DEF FollowsUpTo
  <2> QED BY <2>1, <2>2
<1>5. filled = F(filled)
  <2> HIDE DEF F
  <2> QED BY <1>4
<1> HIDE DEF filled
<1>6. \A j \in 0..N : filled[j] = IF j = 0 THEN 0 ELSE filled[j - 1] + byte[j - 1] * ByteTo(j - 1)
  BY <1>5
<1> HIDE DEF N
<1> DEFINE S == {j \in 0..N : filled[j] \in 0..(ByteTo(j) - 1)}
<1>7. 0 \in S
  <2>1. 0 \in 0..N
    BY <1>0
  <2>2. filled[0] = 0
    BY <1>6, <2>1
  <2>3. ByteTo(0) = 1
    BY ByteFacts
  <2> QED BY <2>1, <2>2, <2>3
<1>8. ASSUME NEW j \in 0..(N - 1), j \in S PROVE j + 1 \in S
  <2>1. j + 1 \in 0..N /\ j + 1 # 0 /\ (j + 1) - 1 = j /\ j + 1 \in Nat
    BY <1>0
  <2>2. filled[j + 1] = filled[j] + byte[j] * ByteTo(j)
    BY <1>6, <2>1
  <2>3. filled[j] \in Int /\ 0 <= filled[j] /\ filled[j] <= ByteTo(j) - 1
    BY <1>1, <1>8
  <2>4. ByteTo(j + 1) \in Nat
    BY <2>1, ByteFacts
  <2>5. 0 <= filled[j + 1] /\ filled[j + 1] <= ByteTo(j + 1) - 1 /\ filled[j + 1] \in Int
    BY <1>1, <2>2, <2>3, <2>4, SMTT(60)
  <2> QED BY <2>1, <2>4, <2>5
<1> HIDE DEF S
<1>9. 0..N \subseteq S
  BY <1>0, <1>7, <1>8, IntervalInduction
<1>10. filled[N] \in 0..(ByteTo(N) - 1)
  BY <1>0, <1>9 DEF S
<1> QED BY <1>10, ByteFacts DEF filled, N, Word

(* What is read from bytes has as many words as the curve.                 *)
LEMMA BytesToNativeTyped ==
  ASSUME NEW c \in Curves, NEW bytes \in Seq(Bytes)
  PROVE  bytesToNative(bytes, c.num_words) \in VlisOf(c)
<1> DEFINE byte(b) == IF b < Len(bytes) THEN bytes[Len(bytes) - b] ELSE 0
           word(i) == LET filled[j \in 0..WordBytes] ==
                            IF j = 0 THEN 0
                            ELSE filled[j - 1] + byte(WordBytes * (i - 1) + j - 1) * ByteTo(j - 1)
                      IN filled[WordBytes]
<1>0. WordBytes \in Nat /\ ByteTo(1) \in Nat \ {0} /\ Len(bytes) \in Nat
  BY ByteFacts
<1>1. ASSUME NEW b \in Nat PROVE byte(b) \in Bytes
  <2>1. CASE b < Len(bytes)
    <3>1. Len(bytes) - b \in 1..Len(bytes)
      BY <1>0, <2>1
    <3> QED BY <2>1, <3>1
  <2>2. CASE ~(b < Len(bytes))
    BY <1>0, <2>2 DEF Bytes
  <2> QED BY <2>1, <2>2
<1>2. ASSUME NEW i \in 1..c.num_words PROVE word(i) \in Word
  <2> DEFINE given == [j \in 0..(WordBytes - 1) |-> byte(WordBytes * (i - 1) + (j + 1) - 1)]
  <2>1. ASSUME NEW j \in 0..(WordBytes - 1) PROVE byte(WordBytes * (i - 1) + (j + 1) - 1) \in Bytes
    <3>1. WordBytes * (i - 1) \in Nat
      BY <1>0
    <3>2. WordBytes * (i - 1) + (j + 1) - 1 \in Nat
      BY <3>1
    <3> HIDE DEF byte
    <3> QED BY <1>1, <3>2
  <2>2. given \in [0..(WordBytes - 1) -> Bytes]
    <3> HIDE DEF byte
    <3> QED BY <2>1
  <2>3. \A j \in 0..WordBytes : j # 0 => given[j - 1] = byte(WordBytes * (i - 1) + j - 1)
    <3>1. ASSUME NEW j \in 0..WordBytes, j # 0 PROVE given[j - 1] = byte(WordBytes * (i - 1) + j - 1)
      <4>1. j - 1 \in 0..(WordBytes - 1) /\ (j - 1) + 1 = j
        BY <1>0, <3>1
      <4> HIDE DEF byte
      <4> QED BY <4>1
    <3> QED BY <3>1
  <2> DEFINE F(g) == [j \in 0..WordBytes |-> IF j = 0 THEN 0
                       ELSE g[j - 1] + byte(WordBytes * (i - 1) + j - 1) * ByteTo(j - 1)]
             G(g) == [j \in 0..WordBytes |-> IF j = 0 THEN 0
                       ELSE g[j - 1] + given[j - 1] * ByteTo(j - 1)]
  <2>4. ASSUME NEW g PROVE F(g) = G(g)
    <3> HIDE DEF byte, given
    <3> QED BY <2>3
  <2>5. (CHOOSE g : g = F(g)) = (CHOOSE g : g = G(g))
    <3> HIDE DEF F, G
    <3>1. \A g : (g = F(g)) <=> (g = G(g))
      BY <2>4
    <3> QED BY <3>1
  <2>6. (CHOOSE g : g = G(g))[WordBytes] \in Word
    <3> HIDE DEF given
    <3> QED BY <2>2, FilledWord
  <2>7. word(i) = (CHOOSE g : g = F(g))[WordBytes]
    OBVIOUS
  <2> HIDE DEF F, G, word
  <2> QED BY <2>5, <2>6, <2>7
<1>3. bytesToNative(bytes, c.num_words) = [i \in 1..c.num_words |-> word(i)]
  BY DEF bytesToNative
<1> HIDE DEF word
<1> QED BY <1>2, <1>3 DEF VlisOf, Vlis

(* How many bytes n has, in num_words words.                               *)
LEMMA NBytesFacts ==
  ASSUME NEW c \in Curves
  PROVE  /\ n_bytes(c) \in Nat /\ n_bytes(c) <= c.num_words * WordBytes
         /\ n_bytes(c) * ByteBits - c.num_n_bits < ByteBits
<1> DEFINE q == n_bytes(c)
           bits == c.num_n_bits
           nw == c.num_words
           all == nw * WordBytes
<1>1. ByteBits \in Nat \ {0} /\ WordBytes \in Nat \ {0} /\ bits \in Nat /\ nw \in Nat
  BY ByteFacts, CurveFacts
<1>2. bits <= all * ByteBits /\ all \in Nat
  <2>1. bits <= nw * WordBits /\ WordBits = ByteBits * WordBytes
    BY CurveFacts DEF WordBits
  <2>2. nw * (ByteBits * WordBytes) = (nw * WordBytes) * ByteBits
    BY <1>1
  <2> QED BY <1>1, <2>1, <2>2
<1> DEFINE x == bits + ByteBits - 1
<1>3. q = x \div ByteBits
  BY DEF n_bytes
<1> HIDE DEF q, bits, nw, all
<1>4. x \in Nat
  BY <1>1
<1>5. q \in Nat /\ x = q * ByteBits + (x % ByteBits) /\ x % ByteBits \in 0..(ByteBits - 1)
  <2> HIDE DEF x
  <2>1. x \in Int
    BY <1>4
  <2>2. /\ x \div ByteBits \in Int /\ x % ByteBits \in 0..(ByteBits - 1)
        /\ x = (x \div ByteBits) * ByteBits + (x % ByteBits)
        /\ x \in Nat => x \div ByteBits \in Nat
    BY <1>1, <2>1, Division
  <2> QED BY <1>3, <1>4, <2>2
<1>6. q * ByteBits - bits < ByteBits
  <2>1. q * ByteBits \in Int
    BY <1>1, <1>5
  <2>2. x % ByteBits \in Int /\ 0 <= x % ByteBits
    BY <1>1, <1>5
  <2> DEFINE y == q * ByteBits
             r == x % ByteBits
  <2>3. x = y + r /\ y \in Int /\ r \in Int /\ 0 <= r
    BY <1>5, <2>1, <2>2
  <2> HIDE DEF y, r
  <2>4. y - bits < ByteBits
    BY <1>1, <2>3
  <2> QED BY <2>4 DEF y
<1>7. q <= all
  <2>1. ASSUME all < q PROVE FALSE
    <3>1. q * ByteBits = (all + 1) * ByteBits + (q - (all + 1)) * ByteBits
      BY <1>1, <1>2, <1>5
    <3>2. (all + 1) * ByteBits = all * ByteBits + ByteBits
      BY <1>1, <1>2
    <3>3. (q - (all + 1)) * ByteBits \in Nat
      <4>1. q - (all + 1) \in Nat
        BY <1>2, <1>5, <2>1
      <4> QED BY <1>1, <4>1
    <3>4. q * ByteBits \in Int /\ all * ByteBits \in Int
      BY <1>1, <1>2, <1>5
    <3> QED BY <1>1, <1>2, <1>6, <3>1, <3>2, <3>3, <3>4
  <2> QED BY <1>2, <1>5, <2>1
<1> QED BY <1>5, <1>6, <1>7 DEF q, bits, nw, all

(* The bits2int() shift gives words, and so does its one subtraction.      *)
LEMMA ShiftedDownTyped ==
  ASSUME NEW n \in Nat, NEW v \in Vlis(n), NEW shift \in 0..WordBits
  PROVE  ShiftedDown(v, shift) \in Vlis(n)
<1> DEFINE low == Pow2[shift]
           high == Pow2[WordBits - shift]
<1>1. WordBits \in Nat /\ shift \in Nat /\ WordBits - shift \in Nat /\ shift + (WordBits - shift) = WordBits
  BY BaseFacts
<1>2. low \in Nat \ {0} /\ high \in Nat \ {0} /\ Base = low * high
  BY <1>1, Pow2Defined, Pow2Plus DEF Base
<1>3. Len(v) = n
  BY LenOfVli DEF Vlis
<1> DEFINE in(i) == IF i = n THEN 0 ELSE v[i + 1] % low
<1>4. ASSUME NEW i \in 1..n PROVE v[i] \div low + in(i) * high \in Word
  <2>1. v[i] \in Int /\ 0 <= v[i] /\ v[i] < Base
    <3>1. v[i] \in 0..(Base - 1) /\ Base \in Nat
      BY VliOfInts, BaseFacts
    <3> QED BY <3>1
  <2>2. in(i) \in 0..(low - 1)
    <3>1. CASE i = n
      BY <1>2, <3>1
    <3>2. CASE i # n
      <4>1. i + 1 \in 1..n
        BY <3>2
      <4>2. v[i + 1] \in Int
        BY <4>1, VliOfInts
      <4> QED BY <1>2, <3>2, <4>2, Division
    <3> QED BY <3>1, <3>2
  <2> DEFINE x == v[i]
             q == x \div low
             r == x % low
             y == in(i)
  <2>3. x \in Int /\ 0 <= x /\ x < low * high /\ y \in 0..(low - 1)
    BY <1>2, <2>1, <2>2
  <2> HIDE DEF low, high, x, y
  <2>4. q \in Nat /\ r \in 0..(low - 1) /\ x = q * low + r
    <3>1. /\ q \in Int /\ r \in 0..(low - 1) /\ x = q * low + r
          /\ x \in Nat => q \in Nat
      BY <1>2, <2>3, Division
    <3>2. x \in Nat
      BY <2>3
    <3> QED BY <3>1, <3>2
  <2> HIDE DEF q, r
  <2>5. q < high
    <3>1. ASSUME high <= q PROVE FALSE
      <4>1. q * low = low * high + (q - high) * low
        BY <1>2, <2>4
      <4>2. (q - high) * low \in Nat
        <5>1. q - high \in Nat
          BY <1>2, <2>4, <3>1
        <5> QED BY <1>2, <5>1
      <4>3. q * low \in Int /\ low * high \in Int
        BY <1>2, <2>4
      <4> QED BY <1>2, <2>3, <2>4, <4>1, <4>2, <4>3
    <3> QED BY <1>2, <2>4, <3>1
  <2>6. 0 <= y * high /\ y * high <= low * high - high /\ y * high \in Int
    <3>1. \A b \in Nat, w \in Nat : \A z \in 0..(w - 1) : 0 <= z * b /\ z * b <= w * b - b /\ z * b \in Int
      OBVIOUS
    <3> QED BY <1>2, <2>3, <3>1
  <2>7. low * high \in Int
    BY <1>2
  <2>8. 0 <= q + y * high /\ q + y * high <= low * high - 1 /\ q + y * high \in Int
    BY <1>2, <2>4, <2>5, <2>6, <2>7
  <2> QED BY <1>2, <2>7, <2>8 DEF Word, q, x, y
<1>5. ShiftedDown(v, shift) = [i \in 1..n |-> v[i] \div low + in(i) * high]
  BY <1>3 DEF ShiftedDown
<1> HIDE DEF in, low, high
<1> QED BY <1>4, <1>5 DEF Vlis

(* The one subtraction after it leaves a vli of the same length.           *)
LEMMA OnceTyped ==
  ASSUME NEW c \in Curves, NEW v \in VlisOf(c)
  PROVE  Once(v, Modulus(c.n, c)) \in VlisOf(c)
<1>1. /\ Modulus(c.n, c) \in Vlis(c.num_words) /\ v \in Vlis(c.num_words)
      /\ c.num_words \in Nat
  BY OrderExact, CurveFacts DEF VlisOf
<1>2. vli_sub(v, Modulus(c.n, c)).words \in Vlis(c.num_words)
  BY <1>1, SubExact
<1> QED BY <1>1, <1>2 DEF Once, VlisOf

(* What is computed of a hash is in the words of the curve.                *)
LEMMA Bits2intTyped ==
  ASSUME NEW c \in Curves, NEW bits \in Seq(Bytes)
  PROVE  bits2int(bits, c) \in VlisOf(c)
<1> DEFINE kept == IF Len(bits) > n_bytes(c) THEN SubSeq(bits, 1, n_bytes(c)) ELSE bits
           native == bytesToNative(kept, c.num_words)
           excess == Len(kept) * ByteBits - c.num_n_bits
<1>1. /\ n_bytes(c) \in Nat /\ n_bytes(c) * ByteBits - c.num_n_bits < ByteBits
      /\ c.num_n_bits \in Nat /\ ByteBits \in Nat \ {0} /\ WordBytes \in Nat \ {0}
      /\ c.num_words \in Nat
  BY NBytesFacts, CurveFacts, ByteFacts
<1>2. kept \in Seq(Bytes) /\ Len(kept) \in Nat /\ Len(kept) <= n_bytes(c)
  <2>1. CASE Len(bits) > n_bytes(c)
    <3> DEFINE m == n_bytes(c)
    <3>1. kept = SubSeq(bits, 1, m) /\ m \in Nat /\ m < Len(bits) /\ Len(bits) \in Nat
      BY <1>1, <2>1
    <3> HIDE DEF m, kept
    <3>2. SubSeq(bits, 1, m) \in Seq(Bytes) /\ Len(SubSeq(bits, 1, m)) = m
      BY <3>1, SubSeqProperties
    <3> QED BY <3>1, <3>2 DEF m
  <2>2. CASE ~(Len(bits) > n_bytes(c))
    <3>1. kept = bits /\ Len(bits) \in Nat
      BY <2>2
    <3> QED BY <1>1, <2>2, <3>1
  <2> QED BY <2>1, <2>2
<1> HIDE DEF kept
<1>3. native \in VlisOf(c)
  BY <1>2, BytesToNativeTyped
<1>4. excess \in Int /\ excess < ByteBits
  <2> DEFINE x == Len(kept) * ByteBits
             y == n_bytes(c) * ByteBits
  <2>1. x <= y /\ x \in Int /\ y \in Int
    <3>1. \A i, j \in Nat : \A b \in Nat : i <= j => i * b <= j * b /\ i * b \in Int /\ j * b \in Int
      OBVIOUS
    <3> QED BY <1>1, <1>2, <3>1
  <2>2. y - c.num_n_bits < ByteBits
    BY <1>1
  <2> HIDE DEF x, y
  <2>3. x - c.num_n_bits \in Int /\ x - c.num_n_bits < ByteBits
    BY <1>1, <2>1, <2>2
  <2> QED BY <2>3 DEF x
<1>5. ByteBits <= WordBits /\ WordBits \in Nat
  <2>1. WordBits = ByteBits + ByteBits * (WordBytes - 1)
    BY <1>1 DEF WordBits
  <2>2. ByteBits * (WordBytes - 1) \in Nat
    <3>1. WordBytes - 1 \in Nat
      BY <1>1
    <3> QED BY <1>1, <3>1
  <2> QED BY <1>1, <2>1, <2>2
<1>6. bits2int(bits, c) = IF excess <= 0 THEN native
                         ELSE Once(ShiftedDown(native, excess), Modulus(c.n, c))
  BY DEF bits2int, kept
<1> HIDE DEF native, excess
<1>7. CASE excess <= 0
  BY <1>3, <1>6, <1>7
<1>8. CASE ~(excess <= 0)
  <2>1. excess \in 0..WordBits
    BY <1>1, <1>4, <1>5, <1>8
  <2>2. ShiftedDown(native, excess) \in VlisOf(c)
    BY <1>1, <1>3, <2>1, ShiftedDownTyped DEF VlisOf
  <2> QED BY <1>6, <1>8, <2>2, OnceTyped
<1> QED BY <1>7, <1>8

(* And what uECC_sign_with_k() is given comes out as bytes.                *)
LEMMA NativeToBytesTyped ==
  ASSUME NEW c \in Curves, NEW v \in VlisOf(c)
  PROVE  nativeToBytes(n_bytes(c), v) \in Seq(Bytes)
<1>1. /\ n_bytes(c) \in Nat /\ n_bytes(c) <= c.num_words * WordBytes
      /\ WordBytes \in Nat \ {0} /\ c.num_words \in Nat
      /\ v \in Vlis(c.num_words)
  BY NBytesFacts, CurveFacts, ByteFacts DEF VlisOf
<1>2. ASSUME NEW b \in 0..(n_bytes(c) - 1)
      PROVE  (v[1 + b \div WordBytes] \div ByteTo(b % WordBytes)) % ByteTo(1) \in Bytes
  <2> DEFINE q == b \div WordBytes
             r == b % WordBytes
  <2>1. q \in Nat /\ r \in 0..(WordBytes - 1) /\ b = q * WordBytes + r
    <3>1. b \in Nat /\ b \in Int
      BY <1>1
    <3> QED BY <1>1, <3>1, Division
  <2>2. b < c.num_words * WordBytes /\ c.num_words * WordBytes \in Int
    BY <1>1
  <2> HIDE DEF q, r
  <2>3. q < c.num_words
    <3>1. ASSUME c.num_words <= q PROVE FALSE
      <4>1. \A i, j \in Nat : \A w \in Nat : j <= i => j * w <= i * w
        OBVIOUS
      <4>2. c.num_words * WordBytes <= q * WordBytes /\ q * WordBytes \in Int
        BY <1>1, <2>1, <3>1, <4>1
      <4> QED BY <1>1, <2>1, <2>2, <4>2
    <3> QED BY <1>1, <2>1, <3>1
  <2>4. v[1 + q] \in Int
    <3>1. 1 + q \in 1..c.num_words
      BY <1>1, <2>1, <2>3
    <3> QED BY <1>1, <3>1, VliOfInts
  <2>5. ByteTo(r) \in Nat \ {0} /\ ByteTo(1) \in Nat \ {0}
    BY <1>1, <2>1, ByteFacts
  <2>6. v[1 + q] \div ByteTo(r) \in Int
    BY <2>4, <2>5, Division
  <2>7. (v[1 + q] \div ByteTo(r)) % ByteTo(1) \in 0..(ByteTo(1) - 1)
    BY <2>5, <2>6, Division
  <2> QED BY <2>7 DEF Bytes, q, r
<1> DEFINE m == n_bytes(c)
           at(b) == (v[1 + b \div WordBytes] \div ByteTo(b % WordBytes)) % ByteTo(1)
<1>3. nativeToBytes(m, v) = [i \in 1..m |-> at(m - i)]
  BY DEF nativeToBytes
<1> HIDE DEF at
<1>4. ASSUME NEW i \in 1..m PROVE at(m - i) \in Bytes
  <2>1. m - i \in 0..(m - 1)
    BY <1>1
  <2> QED BY <1>2, <2>1 DEF at
<1>5. nativeToBytes(m, v) \in [1..m -> Bytes]
  BY <1>3, <1>4
<1> QED BY <1>1, <1>5, LenOfVli

-----------------------------------------------------------------------------
(* Reckoning modulo m.                                                     *)
LEMMA CongruentFacts ==
  ASSUME NEW m \in Nat \ {0}
  PROVE  /\ \A x \in Int : Congruent(x % m, x, m)
         /\ \A x, y \in Int : Congruent(x, y, m) => (x - y) % m = 0
         /\ \A x, y, z \in Int :
              /\ Congruent(x, y, m) /\ Congruent(y, z, m) => Congruent(x, z, m)
              /\ Congruent(x, y, m) => Congruent(x + z, y + z, m)
              /\ Congruent(x, y, m) => Congruent(x * z, y * z, m)
<1>1. ASSUME NEW x \in Int PROVE Congruent(x % m, x, m)
  <2>1. x % m \in Int /\ x \div m \in Int /\ x = (x \div m) * m + (x % m)
    BY Division
  <2> DEFINE q == x \div m
             r == x % m
  <2>2. q \in Int /\ r \in Int /\ x = q * m + r
    BY <2>1
  <2> HIDE DEF q, r
  <2>3. r = x + (-q) * m /\ -q \in Int
    BY <2>2
  <2>4. Congruent(r, x, m)
    BY <2>3 DEF Congruent
  <2> QED BY <2>4 DEF r
<1>2. ASSUME NEW x \in Int, NEW y \in Int, Congruent(x, y, m) PROVE (x - y) % m = 0
  <2>1. PICK q \in Int : x = y + q * m
    BY <1>2 DEF Congruent
  <2>2. x - y = q * m + 0 /\ 0 \in 0..(m - 1)
    BY <2>1
  <2>3. (q * m + 0) % m = 0
    BY <2>2, DivisionUnique
  <2> QED BY <2>2, <2>3
<1>3. ASSUME NEW x \in Int, NEW y \in Int, NEW z \in Int, Congruent(x, y, m), Congruent(y, z, m)
      PROVE  Congruent(x, z, m)
  <2>1. PICK q \in Int : x = y + q * m
    BY <1>3 DEF Congruent
  <2>2. PICK p \in Int : y = z + p * m
    BY <1>3 DEF Congruent
  <2>3. x = z + (p + q) * m /\ p + q \in Int
    BY <2>1, <2>2
  <2> QED BY <2>3 DEF Congruent
<1>4. ASSUME NEW x \in Int, NEW y \in Int, NEW z \in Int, Congruent(x, y, m)
      PROVE  Congruent(x + z, y + z, m) /\ Congruent(x * z, y * z, m)
  <2>1. PICK q \in Int : x = y + q * m
    BY <1>4 DEF Congruent
  <2>2. x + z = (y + z) + q * m
    BY <2>1
  <2>3. x * z = y * z + (q * z) * m /\ q * z \in Int
    <3>1. x * z = y * z + (q * m) * z
      BY <2>1
    <3>2. (q * m) * z = (q * z) * m /\ q * z \in Int
      BY <2>1
    <3> QED BY <3>1, <3>2
  <2> QED BY <2>2, <2>3 DEF Congruent
<1> QED BY <1>1, <1>2, <1>3, <1>4

(* The inverse of the nonce, that was hidden behind a factor, is one.      *)
LEMMA InvertedExact ==
  ASSUME NEW c \in Curves, NEW mod, mod = Modulus(c.n, c),
         NEW v \in VlisOf(c), Value(v) \in 1..(c.n - 1),
         NEW w \in VlisOf(c), Value(w) \in 1..(c.n - 1),
         NEW inv, inv = vli_modMult(vli_modInv(vli_modMult(v, w, mod), mod), w, mod)
  PROVE  inv \in VlisOf(c) /\ Congruent(Value(inv) * Value(v), 1, c.n)
<1> DEFINE nw == c.num_words
           N == c.n
           K == Value(v)
           b == Value(w)
           kb == vli_modMult(v, w, mod)
           V == Value(kb)
           i == vli_modInv(kb, mod)
           I == Value(i)
           R == Value(inv)
<1>1. /\ nw \in Nat \ {0} /\ nw \in Nat /\ nw <= Base /\ N \in Nat \ {0} /\ N \in Nat /\ 2 < N
      /\ v \in Vlis(nw) /\ w \in Vlis(nw)
  BY CurveFacts DEF VlisOf
<1>2. /\ mod \in Vlis(nw) /\ Value(mod) = N /\ ~Even(mod) /\ 1 < Value(mod) /\ 0 < Value(mod)
      /\ BaseTo(nw - 1) <= Value(mod)
  BY <1>1, OrderExact DEF VlisOf
<1>3. K \in Int /\ b \in Int /\ K \in Nat /\ 0 < K /\ K < N /\ 0 < b /\ b < N /\ K * b \in Int
  BY <1>1
<1>4. kb \in Vlis(nw) /\ V = (K * b) % N
  BY <1>1, <1>2, ModMultExact
<1>5. V \in Int /\ 0 <= V /\ V < N
  <2>1. (K * b) % N \in 0..(N - 1)
    BY <1>1, <1>3, Division
  <2> HIDE DEF V, K, b, N
  <2> QED BY <1>1, <1>4, <2>1
<1>6. V # 0
  <2> HIDE DEF V, K, b, N, kb, nw
  <2>1. ASSUME V = 0 PROVE FALSE
    <3> DEFINE j == vli_modInv(v, mod)
               J == Value(j)
    <3>1. Coprime(K, N)
      BY <1>3, OrderCoprime DEF N
    <3>2. j \in Vlis(nw) /\ Congruent(J * K, 1, N)
      BY <1>1, <1>2, <1>3, <3>1, ModInvExact DEF K
    <3>3. J \in Int
      BY <1>1, <3>2, ValueBound
    <3> HIDE DEF j, J
    <3>4. PICK q \in Int : J * K = 1 + q * N
      BY <3>2 DEF Congruent
    <3>5. PICK p \in Int : K * b = p * N
      <4>1. K * b = ((K * b) \div N) * N + ((K * b) % N) /\ (K * b) \div N \in Int
        BY <1>1, <1>3, Division
      <4>2. K * b = ((K * b) \div N) * N
        <5> DEFINE y == (K * b) \div N
        <5>1. K * b = y * N + 0 /\ y * N \in Int
          BY <1>1, <1>4, <2>1, <4>1
        <5> HIDE DEF y
        <5> QED BY <5>1 DEF y
      <4> QED BY <4>1, <4>2
    <3>6. (J * K) * b = J * (K * b) /\ (1 + q * N) * b = b + (q * b) * N /\ J * (p * N) = (J * p) * N
      BY <1>1, <1>3, <3>3, <3>4, <3>5
    <3>7. b = (J * p - q * b) * N
      <4>1. J * p \in Int /\ q * b \in Int
        BY <1>3, <3>3, <3>4, <3>5
      <4>2. (J * p) * N = b + (q * b) * N
        BY <3>4, <3>5, <3>6
      <4>3. (J * p - q * b) * N = (J * p) * N - (q * b) * N /\ (J * p) * N \in Int /\ (q * b) * N \in Int
        BY <1>1, <4>1
      <4> QED BY <1>3, <4>2, <4>3
    <3> DEFINE z == J * p - q * b
    <3>8. z \in Int /\ b = z * N
      BY <1>3, <3>3, <3>4, <3>5, <3>7
    <3> HIDE DEF z
    <3>9. CASE z <= 0
      <4>1. z * N <= 0
        BY <1>1, <3>8, <3>9
      <4> QED BY <1>3, <3>8, <4>1
    <3>10. CASE 0 < z
      <4>1. z * N = N + (z - 1) * N /\ (z - 1) * N \in Nat
        <5>1. z - 1 \in Nat
          BY <3>8, <3>10
        <5> QED BY <1>1, <3>8, <5>1
      <4> QED BY <1>1, <1>3, <3>8, <4>1
    <3> QED BY <3>8, <3>9, <3>10
  <2> QED BY <2>1
<1> HIDE DEF K, b
<1>7. i \in Vlis(nw) /\ Congruent(I * V, 1, N)
  <2>1. Coprime(V, N)
    <3>1. V \in Nat /\ 0 < V
      BY <1>5, <1>6
    <3> QED BY <1>5, <3>1, OrderCoprime
  <2>2. 0 < Value(kb) /\ Value(kb) < Value(mod) /\ Coprime(Value(kb), Value(mod))
    BY <1>2, <1>5, <1>6, <2>1
  <2> HIDE DEF kb, nw, N
  <2> QED BY <1>1, <1>2, <1>4, <2>2, ModInvExact
<1> HIDE DEF V, kb
<1>8. inv \in Vlis(nw) /\ R = (I * b) % N
  <2> HIDE DEF nw, N
  <2> QED BY <1>1, <1>2, <1>7, ModMultExact DEF b, i, kb
<1>9. I \in Int /\ R \in Int /\ I * b \in Int /\ I * V \in Int /\ I * (K * b) \in Int /\ R * K \in Int
  <2>1. I \in Int /\ R \in Int
    BY <1>1, <1>7, <1>8, ValueBound
  <2> HIDE DEF I, R
  <2> QED BY <1>3, <1>5, <2>1
<1> HIDE DEF I, i, R, N
<1>10. Congruent(R * K, (I * b) * K, N)
  <2>1. Congruent((I * b) % N, I * b, N)
    BY <1>1, <1>9, CongruentFacts
  <2>2. Congruent(R, I * b, N)
    BY <1>8, <2>1
  <2> QED BY <1>1, <1>3, <1>9, <2>2, CongruentFacts
<1>11. Congruent((K * b) * I, V * I, N)
  <2> SUFFICES Congruent((K * b) * I, ((K * b) % N) * I, N)
    BY <1>4
  <2> DEFINE x == K * b
  <2>1. x \in Int /\ x % N \in Int
    BY <1>1, <1>3, Division
  <2> HIDE DEF x
  <2>2. Congruent(x, x % N, N)
    <3>1. x = (x \div N) * N + (x % N) /\ x \div N \in Int
      BY <1>1, <2>1, Division
    <3> DEFINE q == x \div N
               r == x % N
    <3>2. x = q * N + r /\ q \in Int /\ r \in Int /\ q * N \in Int
      BY <1>1, <2>1, <3>1
    <3> HIDE DEF q, r
    <3>3. x = r + q * N
      BY <3>2
    <3>4. Congruent(x, r, N)
      BY <3>2, <3>3 DEF Congruent
    <3> QED BY <3>4 DEF r
  <2>3. Congruent(x * I, (x % N) * I, N)
    BY <1>1, <1>9, <2>1, <2>2, CongruentFacts
  <2> QED BY <2>3 DEF x
<1>12. (I * b) * K = (K * b) * I /\ V * I = I * V
  BY <1>3, <1>5, <1>9
<1>13. Congruent(R * K, I * V, N)
  <2>1. (K * b) * I \in Int
    BY <1>3, <1>9
  <2> QED BY <1>1, <1>9, <1>10, <1>11, <1>12, <2>1, CongruentFacts, ZenonT(60)
<1>14. Congruent(R * K, 1, N)
  BY <1>1, <1>7, <1>9, <1>13, CongruentFacts
<1> QED BY <1>8, <1>14 DEF VlisOf, nw, R, K, N

(* The arithmetic of a signature: s k = e + r d modulo n, with the nonce   *)
(* hidden behind any factor (uECC.c:1284-1330).                            *)
THEOREM SignatureExact ==
  ASSUME NEW c \in Curves, NEW mod, mod = Modulus(c.n, c),
         NEW v \in VlisOf(c), Value(v) \in 1..(c.n - 1),
         NEW w \in VlisOf(c), Value(w) \in 1..(c.n - 1),
         NEW private \in VlisOf(c), NEW x \in VlisOf(c), NEW e \in VlisOf(c),
         NEW inv, inv = vli_modMult(vli_modInv(vli_modMult(v, w, mod), mod), w, mod),
         NEW s, s = vli_modMult(vli_modAdd(e, vli_modMult(private, x, mod), mod), inv, mod)
  PROVE  /\ s \in VlisOf(c) /\ Value(s) < c.n
         /\ (Value(s) * Value(v) - Value(e) - Value(x) * Value(private)) % c.n = 0
<1> DEFINE nw == c.num_words
           N == c.n
           rd == vli_modMult(private, x, mod)
           sum == vli_modAdd(e, rd, mod)
           D == Value(private)
           X == Value(x)
           E == Value(e)
           K == Value(v)
           T == Value(sum)
           I == Value(inv)
           S == Value(s)
<1>1. /\ nw \in Nat \ {0} /\ nw \in Nat /\ nw <= Base /\ N \in Nat \ {0}
      /\ private \in Vlis(nw) /\ x \in Vlis(nw) /\ e \in Vlis(nw) /\ v \in Vlis(nw)
  BY CurveFacts DEF VlisOf
<1>2. mod \in Vlis(nw) /\ Value(mod) = N /\ BaseTo(nw - 1) <= Value(mod)
  BY <1>1, OrderExact DEF VlisOf
<1>3. D \in Int /\ X \in Int /\ E \in Int /\ K \in Int /\ D * X \in Int
  <2>1. D \in Int /\ X \in Int /\ E \in Int /\ K \in Int
    BY <1>1, ValueBound
  <2> HIDE DEF D, X, E, K
  <2> QED BY <2>1
<1>4. rd \in Vlis(nw) /\ Value(rd) = (D * X) % N
  BY <1>1, <1>2, ModMultExact
<1>5. Value(rd) \in Int /\ 0 <= Value(rd) /\ Value(rd) < N
  <2>1. (D * X) % N \in 0..(N - 1)
    BY <1>1, <1>3, Division
  <2> HIDE DEF rd, D, X, N
  <2> QED BY <1>1, <1>4, <2>1
<1>6. sum \in Vlis(nw) /\ Congruent(T, E + Value(rd), N)
  BY <1>1, <1>2, <1>4, <1>5, ModAddCongruent
<1>7. inv \in Vlis(nw) /\ Congruent(I * K, 1, N)
  BY InvertedExact DEF VlisOf
<1>8. s \in Vlis(nw) /\ S = (T * I) % N
  BY <1>1, <1>2, <1>6, <1>7, ModMultExact
<1>9. T \in Int /\ I \in Int /\ S \in Int
  BY <1>1, <1>6, <1>7, <1>8, ValueBound
<1> DEFINE R == Value(rd)
<1>10. R \in Int /\ R = (D * X) % N /\ Congruent(T, E + R, N)
  BY <1>4, <1>5, <1>6
<1> HIDE DEF D, X, E, K, T, I, S, R, N, rd, sum
<1>11. S < N
  <2>1. T * I \in Int
    BY <1>9
  <2>2. (T * I) % N \in 0..(N - 1)
    BY <1>1, <2>1, Division
  <2> QED BY <1>1, <1>8, <1>9, <2>2
<1>12. Congruent(S * K, (T * I) * K, N)
  <2>1. T * I \in Int
    BY <1>9
  <2>2. Congruent(S, T * I, N)
    BY <1>1, <1>8, <2>1, CongruentFacts
  <2> QED BY <1>1, <1>3, <1>9, <2>1, <2>2, CongruentFacts
<1>13. Congruent((I * K) * T, 1 * T, N)
  <2>1. I * K \in Int /\ 1 \in Int
    BY <1>3, <1>9
  <2> QED BY <1>1, <1>7, <1>9, <2>1, CongruentFacts
<1>14. (T * I) * K = (I * K) * T /\ 1 * T = T /\ S * K \in Int /\ (I * K) * T \in Int
  BY <1>3, <1>9
<1>15. Congruent(S * K, T, N)
  <2>1. Congruent(S * K, (I * K) * T, N) /\ Congruent((I * K) * T, T, N)
    BY <1>12, <1>13, <1>14
  <2>2. \A i, j, l \in Int : Congruent(i, j, N) /\ Congruent(j, l, N) => Congruent(i, l, N)
    BY <1>1, CongruentFacts
  <2> QED BY <1>9, <1>14, <2>1, <2>2
<1>16. Congruent(E + R, E + D * X, N)
  <2>1. Congruent(R, D * X, N)
    BY <1>1, <1>3, <1>10, CongruentFacts
  <2>2. Congruent(R + E, D * X + E, N)
    BY <1>1, <1>3, <1>10, <2>1, CongruentFacts
  <2>3. R + E = E + R /\ D * X + E = E + D * X
    BY <1>3, <1>10
  <2> QED BY <2>2, <2>3
<1>17. Congruent(S * K, E + D * X, N)
  <2>1. E + R \in Int /\ E + D * X \in Int
    BY <1>3, <1>10
  <2>2. Congruent(S * K, E + R, N)
    BY <1>1, <1>9, <1>10, <1>14, <1>15, <2>1, CongruentFacts
  <2> QED BY <1>1, <1>14, <1>16, <2>1, <2>2, CongruentFacts
<1>18. (S * K - E - X * D) % N = 0
  <2>1. E + D * X \in Int
    BY <1>3
  <2>2. (S * K - (E + D * X)) % N = 0
    BY <1>1, <1>14, <1>17, <2>1, CongruentFacts
  <2>3. S * K - (E + D * X) = S * K - E - X * D
    BY <1>3, <1>14
  <2> QED BY <2>2, <2>3
<1> QED BY <1>8, <1>11, <1>18 DEF VlisOf, nw, N, S, K, E, X, D

-----------------------------------------------------------------------------
(* Congruence is an equivalence that sums, differences and products keep.  *)
LEMMA Reckoning ==
  ASSUME NEW m \in Nat \ {0}
  PROVE  /\ \A x \in Int : x % m \in 0..(m - 1) /\ x % m \in Int /\ Congruent(x % m, x, m)
         /\ \A x \in Int : Congruent(x, x, m)
         /\ \A x, y \in Int : Congruent(x, y, m) => Congruent(y, x, m)
         /\ \A x, y, z \in Int : Congruent(x, y, m) /\ Congruent(y, z, m) => Congruent(x, z, m)
<1>1. ASSUME NEW x \in Int PROVE x % m \in 0..(m - 1) /\ x % m \in Int /\ Congruent(x % m, x, m)
  <2>1. x % m \in 0..(m - 1) /\ 0..(m - 1) \subseteq Int
    BY Division
  <2> QED BY <2>1, CongruentFacts
<1>2. ASSUME NEW x \in Int PROVE Congruent(x, x, m)
  <2>1. x = x + 0 * m
    OBVIOUS
  <2> QED BY <2>1 DEF Congruent
<1>3. ASSUME NEW x \in Int, NEW y \in Int, Congruent(x, y, m) PROVE Congruent(y, x, m)
  <2>1. PICK q \in Int : x = y + q * m
    BY <1>3 DEF Congruent
  <2>2. y = x + (-q) * m /\ -q \in Int
    BY <2>1
  <2> QED BY <2>2 DEF Congruent
<1> QED BY <1>1, <1>2, <1>3, CongruentFacts

(* Equal remainders.                                                       *)
LEMMA SameRemainder ==
  ASSUME NEW m \in Nat \ {0}, NEW x \in Int, NEW y \in Int
  PROVE  /\ Congruent(x, y, m) <=> x % m = y % m
         /\ x \in 0..(m - 1) /\ y \in 0..(m - 1) /\ Congruent(x, y, m) => x = y
         /\ x \in 0..(m - 1) => x % m = x
<1>1. ASSUME Congruent(x, y, m) PROVE x % m = y % m
  <2>1. PICK q \in Int : x = y + q * m
    BY <1>1 DEF Congruent
  <2>2. y = (y \div m) * m + (y % m) /\ y \div m \in Int /\ y % m \in 0..(m - 1)
    BY Division
  <2> DEFINE dq == y \div m
             r == y % m
  <2>3. dq \in Int /\ r \in 0..(m - 1) /\ y = dq * m + r
    BY <2>2
  <2> HIDE DEF dq, r
  <2>4. x = (dq + q) * m + r /\ dq + q \in Int
    <3>1. (dq + q) * m = dq * m + q * m /\ dq * m \in Int /\ q * m \in Int
      BY <2>1, <2>3
    <3> QED BY <2>1, <2>3, <3>1
  <2>5. ((dq + q) * m + r) % m = r
    BY <2>3, <2>4, DivisionUnique
  <2> QED BY <2>4, <2>5 DEF r
<1>2. ASSUME x % m = y % m PROVE Congruent(x, y, m)
  <2>1. Congruent(x, x % m, m) /\ Congruent(y % m, y, m) /\ x % m \in Int
    BY Reckoning
  <2> QED BY <1>2, <2>1, Reckoning
<1>3. ASSUME NEW z \in 0..(m - 1) PROVE z % m = z
  <2>1. 0 \in Int /\ 0 * m + z = z
    OBVIOUS
  <2>2. (0 * m + z) % m = z
    BY DivisionUnique
  <2> QED BY <2>1, <2>2
<1> QED BY <1>1, <1>2, <1>3

(* What is computed modulo m of things congruent to others is congruent to *)
(* what is computed of these.                                              *)
LEMMA Product ==
  ASSUME NEW m \in Nat \ {0}, NEW x \in Int, NEW y \in Int, NEW u \in Int, NEW v \in Int,
         Congruent(x, u, m), Congruent(y, v, m)
  PROVE  /\ Congruent(x * y, u * v, m)
         /\ (x * y) % m \in Int /\ Congruent((x * y) % m, u * v, m)
<1>1. x * y \in Int /\ u * y \in Int /\ u * v \in Int /\ y * u \in Int /\ v * u \in Int
      /\ y * u = u * y /\ v * u = u * v
  OBVIOUS
<1>2. Congruent(x * y, u * y, m) /\ Congruent(y * u, v * u, m)
  BY CongruentFacts
<1>3. Congruent(x * y, u * v, m)
  BY <1>1, <1>2, Reckoning
<1>4. (x * y) % m \in Int /\ Congruent((x * y) % m, x * y, m)
  BY <1>1, Reckoning
<1> QED BY <1>1, <1>3, <1>4, Reckoning

(* And of numbers congruent to them: differences and sums, reduced or not. *)
LEMMA Difference ==
  ASSUME NEW m \in Nat \ {0}, NEW x \in Int, NEW y \in Int, NEW u \in Int, NEW v \in Int,
         Congruent(x, u, m), Congruent(y, v, m)
  PROVE  /\ Congruent(x - y, u - v, m)
         /\ (x - y) % m \in Int /\ Congruent((x - y) % m, u - v, m)
         /\ Congruent(x + y, u + v, m)
         /\ (x + y) % m \in Int /\ Congruent((x + y) % m, u + v, m)
<1>1. PICK s \in Int : x = u + s * m
  BY DEF Congruent
<1>2. PICK t \in Int : y = v + t * m
  BY DEF Congruent
<1>3. x - y = (u - v) + (s - t) * m /\ x + y = (u + v) + (s + t) * m /\ s - t \in Int /\ s + t \in Int
  <2>1. s * m \in Int /\ t * m \in Int /\ (s - t) * m = s * m - t * m /\ (s + t) * m = s * m + t * m
    OBVIOUS
  <2> QED BY <1>1, <1>2, <2>1
<1>4. Congruent(x - y, u - v, m) /\ Congruent(x + y, u + v, m)
  BY <1>3 DEF Congruent
<1>5. ASSUME NEW z \in Int, NEW w \in Int, Congruent(z, w, m)
      PROVE  z % m \in Int /\ Congruent(z % m, w, m)
  BY <1>5, Reckoning
<1>6. x - y \in Int /\ u - v \in Int /\ x + y \in Int /\ u + v \in Int
  OBVIOUS
<1> QED BY <1>4, <1>5, <1>6

-----------------------------------------------------------------------------
(* A prime has no divisor in common with what is below it.                 *)
LEMMA PrimeCoprime ==
  ASSUME NEW n, Prime(n), NEW x \in Nat, 0 < x, x < n
  PROVE  Coprime(x, n)
<1>1. n \in Nat /\ 1 < n
  BY DEF Prime
<1> SUFFICES ASSUME NEW g \in Nat, Divides(g, x), Divides(g, n)
             PROVE  g = 1
  BY DEF Coprime
<1>2. PICK z \in Int : x = g * z
  BY DEF Divides
<1>3. PICK y \in Int : n = g * y
  BY DEF Divides
<1>4. g # 0 /\ 0 < z
  <2>1. g = 0 => g * z = 0
    BY <1>2
  <2>2. z <= 0 => g * z <= 0
    BY <1>2
  <2> QED BY <1>2, <2>1, <2>2
<1>5. g <= x
  <2>1. g * z = g + g * (z - 1)
    BY <1>2
  <2>2. 0 <= g * (z - 1) /\ g * (z - 1) \in Int
    BY <1>4
  <2> QED BY <1>2, <2>1, <2>2
<1>6. ASSUME g # 1 PROVE FALSE
  <2>1. g \in 2..(n - 1)
    BY <1>1, <1>4, <1>5, <1>6
  <2>2. n % g = 0
    <3>1. g \in Nat \ {0} /\ 0 \in 0..(g - 1) /\ y * g + 0 = n
      BY <1>3, <1>4
    <3>2. (y * g + 0) % g = 0
      BY <3>1, DivisionUnique
    <3> QED BY <3>1, <3>2
  <2> QED BY <2>1, <2>2 DEF Prime
<1> QED BY <1>6

(* p is odd.                                                               *)
LEMMA FieldFacts ==
  ASSUME NEW c \in Curves
  PROVE  /\ c.p \in Nat \ {0} /\ c.p \in Nat /\ 2 < c.p /\ Prime(c.p)
         /\ \E h \in Nat : c.p = 2 * h + 1
<1>1. Prime(c.p) /\ c.p # 2
  BY GroupAssumption
<1>2. c.p \in Nat \ {0} /\ 2 < c.p
  BY <1>1 DEF Prime
<1>3. c.p % 2 # 0
  BY <1>1, <1>2 DEF Prime
<1>4. \E h \in Nat : c.p = 2 * h + 1
  <2> DEFINE p == c.p
  <2>1. p \in Nat /\ p % 2 # 0
    BY <1>2, <1>3
  <2> HIDE DEF p
  <2>2. p = 2 * (p \div 2) + 1 /\ p \div 2 \in Nat
    BY <2>1
  <2> QED BY <2>2 DEF p
<1> QED BY <1>1, <1>2, <1>4

(* What modInv() computes is the inverse modulo p, and 0 of 0.             *)
LEMMA FieldInverse ==
  ASSUME NEW c \in Curves, NEW x \in 0..(c.p - 1)
  PROVE  /\ modInv(x, c.p, c) \in 0..(c.p - 1)
         /\ x # 0 => Congruent(modInv(x, c.p, c) * x, 1, c.p)
         /\ x = 0 => modInv(x, c.p, c) = 0
<1> DEFINE nw == c.num_words
           mod == Modulus(c.p, c)
           in == ToWords(x, c)
           i == vli_modInv(in, mod)
<1>1. /\ nw \in Nat \ {0} /\ nw \in Nat /\ c.p \in Nat \ {0} /\ 2 < c.p /\ c.p < BaseTo(nw)
      /\ BaseTo(nw) \in Nat /\ x \in Int
  BY CurveFacts, FieldFacts
<1>2. mod \in Vlis(nw) /\ Value(mod) = c.p
  <2>1. mod \in VlisOf(c) /\ Value(mod) = c.p
    BY OrderExact DEF Positive, VlisOf
  <2> QED BY <2>1 DEF VlisOf
<1>3. in \in Vlis(nw) /\ Value(in) = x
  <2>1. x \in 0..(BaseTo(nw) - 1)
    BY <1>1
  <2> QED BY <1>1, <2>1, InWordsExact DEF VlisOf
<1>4. ~Even(mod)
  <2>1. ASSUME Even(mod) PROVE FALSE
    <3>1. \E h \in Nat : Value(mod) = 2 * h + (mod[1] % 2)
      BY <1>1, <1>2, EvenExact
    <3>2. PICK h \in Nat : c.p = 2 * h + 0
      BY <1>2, <2>1, <3>1 DEF Even
    <3>3. PICK g \in Nat : c.p = 2 * g + 1
      BY FieldFacts
    <3> QED BY <3>2, <3>3
  <2> QED BY <2>1
<1>5. modInv(x, c.p, c) = Value(i)
  BY DEF modInv
<1>6. CASE x = 0
  <2>1. vli_isZero(in)
    BY <1>1, <1>3, <1>6, ZeroExact
  <2>2. Len(mod) = nw
    BY <1>1, <1>2, LenOfVli DEF Vlis
  <2>3. i = vli_clear(nw)
    BY <2>1, <2>2 DEF vli_modInv
  <2>4. Value(i) = 0
    <3>1. nw \in Nat
      BY <1>1
    <3>2. vli_clear(nw) \in Vlis(nw) /\ Value(vli_clear(nw)) = 0
      BY <1>2, <3>1, ZeroExact
    <3> QED BY <2>3, <3>2
  <2> QED BY <1>1, <1>5, <1>6, <2>4
<1>7. CASE x # 0
  <2>1. Coprime(x, c.p)
    BY <1>1, <1>7, FieldFacts, PrimeCoprime
  <2>2. i \in Vlis(nw) /\ Value(i) < c.p /\ Congruent(Value(i) * x, 1, c.p)
    <3> HIDE DEF in, mod, nw
    <3>1. 1 < Value(mod) /\ 0 < Value(in) /\ Value(in) < Value(mod) /\ Coprime(Value(in), Value(mod))
      BY <1>1, <1>2, <1>3, <1>7, <2>1
    <3> QED BY <1>1, <1>2, <1>3, <1>4, <3>1, ModInvExact
  <2>3. Value(i) \in Int /\ 0 <= Value(i)
    BY <1>1, <2>2, ValueBound
  <2> HIDE DEF i
  <2> QED BY <1>1, <1>5, <1>7, <2>2, <2>3
<1> QED BY <1>6, <1>7

(* Anything not congruent to 0 modulo p has an inverse, and factors that   *)
(* are not may be cancelled.                                               *)
LEMMA HasInverse ==
  ASSUME NEW c \in Curves, NEW x \in Int, ~Congruent(x, 0, c.p)
  PROVE  \E i \in 0..(c.p - 1) : Congruent(i * x, 1, c.p)
<1> DEFINE r == x % c.p
           i == modInv(r, c.p, c)
<1>1. c.p \in Nat \ {0}
  BY FieldFacts
<1>2. r \in 0..(c.p - 1) /\ r \in Int /\ Congruent(r, x, c.p)
  BY <1>1, Reckoning
<1>3. r # 0
  BY <1>1, <1>2, Reckoning
<1>4. i \in 0..(c.p - 1) /\ Congruent(i * r, 1, c.p)
  BY <1>2, <1>3, FieldInverse
<1>5. i \in Int
  BY <1>1, <1>4
<1> HIDE DEF i, r
<1>6. Congruent(i * r, i * x, c.p)
  BY <1>1, <1>2, <1>5, Product, Reckoning
<1>7. Congruent(i * x, 1, c.p)
  <2>1. i * r \in Int /\ i * x \in Int
    BY <1>2, <1>5
  <2>2. Congruent(i * x, i * r, c.p)
    BY <1>1, <1>6, <2>1, Reckoning
  <2> QED BY <1>1, <1>4, <2>1, <2>2, Reckoning
<1> QED BY <1>4, <1>7

(* A factor that is not 0 modulo p can be cancelled.                       *)
LEMMA Cancelled ==
  ASSUME NEW c \in Curves, NEW x \in Int, NEW y \in Int, NEW z \in Int, ~Congruent(z, 0, c.p),
         Congruent(z * x, z * y, c.p)
  PROVE  Congruent(x, y, c.p)
<1>1. c.p \in Nat \ {0}
  BY FieldFacts
<1>2. PICK i \in 0..(c.p - 1) : Congruent(i * z, 1, c.p)
  BY HasInverse
<1>3. i \in Int /\ i * z \in Int /\ z * x \in Int /\ z * y \in Int
  BY <1>1, <1>2
<1>4. Congruent(i * (z * x), i * (z * y), c.p)
  BY <1>1, <1>3, Product, Reckoning
<1>5. ASSUME NEW w \in Int PROVE Congruent(i * (z * w), w, c.p)
  <2>0. Congruent(w, w, c.p) /\ 1 \in Int
    BY <1>1, Reckoning
  <2>1. Congruent((i * z) * w, 1 * w, c.p)
    BY <1>1, <1>2, <1>3, <2>0, Product
  <2>2. (i * z) * w = i * (z * w) /\ 1 * w = w
    BY <1>3
  <2> QED BY <2>1, <2>2
<1>6. i * (z * x) \in Int /\ i * (z * y) \in Int
  BY <1>3
<1>7. Congruent(x, i * (z * x), c.p)
  BY <1>1, <1>5, <1>6, Reckoning
<1>8. Congruent(x, i * (z * y), c.p)
  BY <1>1, <1>4, <1>6, <1>7, Reckoning
<1> QED BY <1>1, <1>5, <1>6, <1>8, Reckoning

(* p is prime: a product is 0 modulo p only if a factor is.                *)
LEMMA NotZero ==
  ASSUME NEW c \in Curves, NEW x \in Int, NEW y \in Int
  PROVE  Congruent(x * y, 0, c.p) <=> Congruent(x, 0, c.p) \/ Congruent(y, 0, c.p)
<1>1. c.p \in Nat \ {0} /\ 0 \in Int
  BY FieldFacts
<1>2. ASSUME Congruent(x * y, 0, c.p), ~Congruent(x, 0, c.p) PROVE Congruent(y, 0, c.p)
  <2>1. x * 0 = 0
    OBVIOUS
  <2>2. Congruent(x * y, x * 0, c.p)
    BY <1>2, <2>1
  <2> QED BY <1>1, <1>2, <2>2, Cancelled
<1>3. ASSUME Congruent(x, 0, c.p) PROVE Congruent(x * y, 0, c.p)
  <2>0. Congruent(y, y, c.p) /\ 0 * y = 0
    BY <1>1, Reckoning
  <2>1. Congruent(x * y, 0 * y, c.p) /\ 0 * y = 0
    BY <1>1, <1>3, <2>0, Product
  <2> QED BY <2>1
<1>4. ASSUME Congruent(y, 0, c.p) PROVE Congruent(x * y, 0, c.p)
  <2>0. Congruent(x, x, c.p) /\ x * 0 = 0
    BY <1>1, Reckoning
  <2>1. Congruent(x * y, x * 0, c.p) /\ x * 0 = 0
    BY <1>1, <1>4, <2>0, Product
  <2> QED BY <2>1
<1> QED BY <1>2, <1>3, <1>4

-----------------------------------------------------------------------------
(* Points to a common z, as the formulas see them: polynomials modulo p,   *)
(* on chords and tangents.                                                 *)

(* <<X, Y>> is A scaled by z: to the common denominator z.                 *)
Scaled(J, A, z, c) ==
  Congruent(J[1], A[1] * (z * z), c.p) /\ Congruent(J[2], A[2] * (z * z * z), c.p)

(* C is the sum of A and B, on the line of slope l.                        *)
Chord(A, B, C, l, c) ==
  /\ Congruent(B[2] - A[2], l * (B[1] - A[1]), c.p)
  /\ Congruent(C[1], l * l - A[1] - B[1], c.p)
  /\ Congruent(C[2], l * (A[1] - C[1]) - A[2], c.p)

(* What XYcZ_add() computes, as polynomials.                               *)
LEMMA AddCongruent ==
  ASSUME NEW c \in Curves, NEW A0 \in Ints2, NEW B0 \in Ints2,
         NEW x \in Int, NEW y \in Int, NEW D \in Int, NEW W \in Int,
         Congruent(A0[1], x, c.p), Congruent(A0[2], y, c.p),
         Congruent(B0[1], x + D, c.p), Congruent(B0[2] - A0[2], W, c.p)
  PROVE  LET r == XYcZ_add(A0, B0, c)
             X == W * W - x * (D * D) - (x + D) * (D * D)
         IN /\ Congruent(r.same[1], x * (D * D), c.p)
            /\ Congruent(r.same[2], y * (D * (D * D)), c.p)
            /\ Congruent(r.sum[1], X, c.p)
            /\ Congruent(r.sum[2], W * (x * (D * D) - X) - y * (D * (D * D)), c.p)
            /\ Congruent(r.sub, r.same[1] - r.sum[1], c.p)
<1> DEFINE p == c.p
           a1 == A0[1]
           a2 == A0[2]
           b1 == B0[1]
           b2 == B0[2]
           A == ((b1 - a1) * (b1 - a1)) % p
           B == (a1 * A) % p
           C == (b1 * A) % p
           dy == (b2 - a2) % p
           x3 == (dy * dy - B - C) % p
           E == (a2 * (C - B)) % p
           y3 == (dy * (B - x3) - E) % p
           D2 == D * D
           X == W * W - x * D2 - (x + D) * D2
<1>0. a1 \in Int /\ a2 \in Int /\ b1 \in Int /\ b2 \in Int
  BY DEF Ints2
<1>1. XYcZ_add(A0, B0, c) = [same |-> <<B, E>>, sum |-> <<x3, y3>>, sub |-> (B - x3) % p]
  BY DEF XYcZ_add
<1>2. p \in Nat \ {0}
  BY FieldFacts
<1>3. Congruent(a1, x, p) /\ Congruent(a2, y, p) /\ Congruent(b1, x + D, p) /\ Congruent(b2 - a2, W, p)
  OBVIOUS
<1>4. D2 \in Int /\ D2 = D * D
  OBVIOUS
<1> HIDE DEF a1, a2, b1, b2, p, D2
<1>5. Congruent(b1 - a1, (x + D) - x, p) /\ (x + D) - x = D
  BY <1>0, <1>2, <1>3, Difference
<1>6. A \in Int /\ Congruent(A, D2, p)
  BY <1>0, <1>2, <1>4, <1>5, Product
<1> HIDE DEF A
<1>7. B \in Int /\ Congruent(B, x * D2, p)
  BY <1>0, <1>2, <1>3, <1>4, <1>6, Product
<1>8. C \in Int /\ Congruent(C, (x + D) * D2, p)
  BY <1>0, <1>2, <1>3, <1>4, <1>6, Product
<1>9. dy \in Int /\ Congruent(dy, W, p)
  BY <1>0, <1>2, <1>3, Reckoning
<1> HIDE DEF B, C, dy
<1>10. x * D2 \in Int /\ (x + D) * D2 \in Int /\ W * W \in Int
  BY <1>4
<1>11. Congruent(dy * dy, W * W, p) /\ dy * dy \in Int
  BY <1>2, <1>9, Product
<1>12. Congruent(dy * dy - B, W * W - x * D2, p)
  BY <1>2, <1>7, <1>10, <1>11, Difference
<1>13. x3 \in Int /\ Congruent(x3, X, p) /\ X \in Int
  <2> DEFINE V == (x + D) * D2
             lhs == dy * dy - B
             rhs == W * W - x * D2
  <2>1. lhs \in Int /\ rhs \in Int /\ V \in Int /\ Congruent(C, V, p) /\ Congruent(lhs, rhs, p)
    BY <1>7, <1>8, <1>10, <1>11, <1>12
  <2>2. X = rhs - V /\ x3 = (lhs - C) % p
    OBVIOUS
  <2> HIDE DEF V, lhs, rhs
  <2>3. rhs - V \in Int
    BY <2>1
  <2> QED BY <1>2, <1>8, <2>1, <2>2, <2>3, Difference
<1>14. Congruent(C - B, (x + D) * D2 - x * D2, p) /\ (x + D) * D2 - x * D2 = D * D2
  BY <1>2, <1>4, <1>7, <1>8, <1>10, Difference
<1>15. E \in Int /\ Congruent(E, y * (D * D2), p)
  BY <1>0, <1>2, <1>3, <1>4, <1>7, <1>8, <1>14, Product
<1> HIDE DEF x3, E, X
<1>16. B - x3 \in Int /\ x * D2 - X \in Int /\ Congruent(B - x3, x * D2 - X, p)
       /\ (B - x3) % p \in Int /\ Congruent((B - x3) % p, B - x3, p)
  <2> DEFINE U == x * D2
  <2>1. U \in Int /\ Congruent(B, U, p)
    BY <1>7, <1>10
  <2> HIDE DEF U
  <2>2. B - x3 \in Int /\ U - X \in Int /\ Congruent(B - x3, U - X, p)
    BY <1>2, <1>7, <1>13, <2>1, Difference
  <2>3. (B - x3) % p \in Int /\ Congruent((B - x3) % p, B - x3, p)
    BY <1>2, <2>2, Reckoning
  <2> QED BY <2>2, <2>3 DEF U
<1>17. Congruent(dy * (B - x3), W * (x * D2 - X), p)
  BY <1>2, <1>9, <1>16, Product
<1>18. y3 \in Int /\ Congruent(y3, W * (x * D2 - X) - y * (D * D2), p)
  <2>1. dy * (B - x3) \in Int /\ W * (x * D2 - X) \in Int /\ y * (D * D2) \in Int
    BY <1>4, <1>9, <1>16
  <2> QED BY <1>2, <1>15, <1>17, <2>1, Difference
<1> HIDE DEF y3
<1> QED BY <1>1, <1>7, <1>13, <1>15, <1>16, <1>18 DEF X, D2, p

(* A factor may be replaced by another that is congruent to it, and what   *)
(* is scaled by what is congruent.                                         *)
LEMMA ScaledSame ==
  ASSUME NEW c \in Curves, NEW J \in Ints2, NEW A \in Ints2, NEW A0 \in Ints2, NEW z \in Int, NEW z0 \in Int,
         Scaled(J, A0, z0, c), Congruent(z0, z, c.p),
         Congruent(A0[1], A[1], c.p), Congruent(A0[2], A[2], c.p)
  PROVE  Scaled(J, A, z, c)
<1> DEFINE p == c.p
           a1 == A[1]
           a2 == A[2]
           b1 == A0[1]
           b2 == A0[2]
           j1 == J[1]
           j2 == J[2]
<1>0. a1 \in Int /\ a2 \in Int /\ b1 \in Int /\ b2 \in Int /\ j1 \in Int /\ j2 \in Int
  BY DEF Ints2
<1>1. p \in Nat \ {0}
  BY FieldFacts
<1>2. Congruent(j1, b1 * (z0 * z0), p) /\ Congruent(j2, b2 * (z0 * z0 * z0), p)
      /\ Congruent(b1, a1, p) /\ Congruent(b2, a2, p) /\ Congruent(z0, z, p)
  BY DEF Scaled
<1> SUFFICES Congruent(j1, a1 * (z * z), p) /\ Congruent(j2, a2 * (z * z * z), p)
  BY DEF Scaled
<1> HIDE DEF p, a1, a2, b1, b2, j1, j2
<1>3. Congruent(z0 * z0, z * z, p) /\ z0 * z0 \in Int /\ z * z \in Int
  BY <1>1, <1>2, Product
<1>4. Congruent(z0 * z0 * z0, z * z * z, p) /\ z0 * z0 * z0 \in Int /\ z * z * z \in Int
  BY <1>1, <1>2, <1>3, Product
<1>5. Congruent(b1 * (z0 * z0), a1 * (z * z), p) /\ b1 * (z0 * z0) \in Int /\ a1 * (z * z) \in Int
  BY <1>0, <1>1, <1>2, <1>3, Product
<1>6. Congruent(b2 * (z0 * z0 * z0), a2 * (z * z * z), p) /\ b2 * (z0 * z0 * z0) \in Int
      /\ a2 * (z * z * z) \in Int
  BY <1>0, <1>1, <1>2, <1>4, Product
<1> DEFINE f1 == b1 * (z0 * z0)
           f2 == b2 * (z0 * z0 * z0)
           g1 == a1 * (z * z)
           g2 == a2 * (z * z * z)
<1> HIDE DEF f1, f2, g1, g2
<1>7. /\ f1 \in Int /\ f2 \in Int /\ g1 \in Int /\ g2 \in Int /\ Congruent(j1, f1, p) /\ Congruent(j2, f2, p)
      /\ Congruent(f1, g1, p) /\ Congruent(f2, g2, p)
  BY <1>2, <1>5, <1>6 DEF f1, f2, g1, g2
<1>8. Congruent(j1, g1, p) /\ Congruent(j2, g2, p)
  BY <1>0, <1>1, <1>7, Reckoning
<1> QED BY <1>8 DEF g1, g2

(* XYcZ_add() of two points with the common z is their sum with the common *)
(* z that is z (x2 - x1), and P again with it (uECC.c:864-905).            *)
LEMMA AddScaled ==
  ASSUME NEW c \in Curves, NEW P0 \in Ints2, NEW Q0 \in Ints2, NEW A \in Ints2, NEW B \in Ints2,
         NEW S \in Ints2, NEW l \in Int, NEW z \in Int,
         Scaled(P0, A, z, c), Scaled(Q0, B, z, c), Chord(A, B, S, l, c)
  PROVE  /\ Scaled(XYcZ_add(P0, Q0, c).same, A, z * (Q0[1] - P0[1]), c)
         /\ Scaled(XYcZ_add(P0, Q0, c).sum, S, z * (Q0[1] - P0[1]), c)
<1> DEFINE p == c.p
           a1 == A[1]
           a2 == A[2]
           b1 == B[1]
           b2 == B[2]
           s1 == S[1]
           s2 == S[2]
           p1 == P0[1]
           p2 == P0[2]
           q1 == Q0[1]
           q2 == Q0[2]
           dx == b1 - a1
           r == XYcZ_add(P0, Q0, c)
           z2 == z * z
           z3 == z * z * z
           x == a1 * z2
           y == a2 * z3
           D == dx * z2
           W == (l * dx) * z3
           X == W * W - x * (D * D) - (x + D) * (D * D)
           Y == W * (x * (D * D) - X) - y * (D * (D * D))
           f == z * D
<1>0. /\ a1 \in Int /\ a2 \in Int /\ b1 \in Int /\ b2 \in Int /\ s1 \in Int /\ s2 \in Int
      /\ p1 \in Int /\ p2 \in Int /\ q1 \in Int /\ q2 \in Int
  BY DEF Ints2
<1>1. p \in Nat \ {0}
  BY FieldFacts
<1>2. /\ Congruent(p1, x, p) /\ Congruent(p2, y, p)
      /\ Congruent(q1, b1 * z2, p) /\ Congruent(q2, b2 * z3, p)
      /\ Congruent(b2 - a2, l * dx, p)
      /\ Congruent(s1, l * l - a1 - b1, p) /\ Congruent(s2, l * (a1 - s1) - a2, p)
  BY DEF Scaled, Chord
<1>3. z2 \in Int /\ z3 \in Int /\ dx \in Int /\ x \in Int /\ y \in Int /\ D \in Int /\ W \in Int /\ f \in Int
  <2>1. z2 \in Int /\ z3 \in Int /\ dx \in Int
    BY <1>0
  <2> HIDE DEF z2, z3, dx
  <2> QED BY <1>0, <2>1
<1>4. /\ XYcZ_add(P0, Q0, c).same \in Ints2 /\ XYcZ_add(P0, Q0, c).sum \in Ints2
  BY AddPoints, ModuloP
<1>5. b1 * z2 = x + D
  <2> HIDE DEF a1, b1, z2
  <2> QED BY <1>0, <1>3
<1>6. Congruent(q2 - p2, W, p)
  <2> HIDE DEF p1, p2, q1, q2, a1, a2, b1, b2, z2, z3, dx, p
  <2>0. b2 * z3 \in Int /\ b2 - a2 \in Int /\ l * dx \in Int
    BY <1>0, <1>3
  <2>1. Congruent(q2 - p2, b2 * z3 - y, p) /\ b2 * z3 - y = (b2 - a2) * z3
    BY <1>0, <1>1, <1>2, <1>3, <2>0, Difference
  <2>2. Congruent(z3, z3, p)
    BY <1>1, <1>3, Reckoning
  <2>3. Congruent((b2 - a2) * z3, W, p)
    BY <1>0, <1>1, <1>2, <1>3, <2>0, <2>2, Product
  <2>4. q2 - p2 \in Int /\ (b2 - a2) * z3 \in Int
    BY <1>0, <1>3, <2>0
  <2> QED BY <1>1, <1>3, <2>1, <2>3, <2>4, Reckoning
<1>7. /\ Congruent(r.same[1], x * (D * D), p) /\ Congruent(r.same[2], y * (D * (D * D)), p)
      /\ Congruent(r.sum[1], X, p) /\ Congruent(r.sum[2], Y, p)
  <2> HIDE DEF x, y, D, W, z2, z3
  <2>1. Congruent(q1, x + D, p)
    BY <1>2, <1>5
  <2> QED BY <1>2, <1>3, <1>6, <2>1, AddCongruent
<1>8. Congruent(f, z * (q1 - p1), p) /\ z * (q1 - p1) \in Int
  <2> HIDE DEF x, y, D, W, z2, z3, p, q1, p1
  <2>1. Congruent(q1 - p1, (x + D) - x, p) /\ (x + D) - x = D /\ q1 - p1 \in Int
    BY <1>0, <1>1, <1>2, <1>3, <1>5, Difference
  <2>2. Congruent(D, q1 - p1, p) /\ Congruent(z, z, p)
    <3> DEFINE e == q1 - p1
    <3>1. e \in Int /\ Congruent(e, D, p)
      BY <2>1
    <3> HIDE DEF e
    <3>2. Congruent(D, e, p) /\ Congruent(z, z, p)
      BY <1>1, <1>3, <3>1, Reckoning
    <3> QED BY <3>2 DEF e
  <2> QED BY <1>0, <1>1, <1>3, <2>1, <2>2, Product
<1>9. x * (D * D) = a1 * (f * f) /\ y * (D * (D * D)) = a2 * (f * f * f)
  <2> HIDE DEF a1, a2, b1, b2, dx
  <2> QED BY <1>0, <1>3
<1>10. X = (l * l - a1 - b1) * (f * f)
  <2>1. \A t1, t2, t3, t4 \in Int :
          LET tD == (t2 - t1) * (t3 * t3)
              tW == (t4 * (t2 - t1)) * (t3 * t3 * t3)
              tx == t1 * (t3 * t3)
              tf == t3 * tD
          IN tW * tW - tx * (tD * tD) - (tx + tD) * (tD * tD) = (t4 * t4 - t1 - t2) * (tf * tf)
    OBVIOUS
  <2> HIDE DEF a1, a2, b1, b2
  <2> QED BY <1>0, <2>1
<1>11. Congruent(X, s1 * (f * f), p) /\ s1 * (f * f) \in Int /\ X \in Int
  <2> HIDE DEF f, s1, a1, b1, X, p
  <2>1. Congruent(l * l - a1 - b1, s1, p) /\ f * f \in Int /\ Congruent(f * f, f * f, p)
        /\ l * l - a1 - b1 \in Int
    <3> DEFINE e == l * l - a1 - b1
               g == f * f
    <3>1. e \in Int /\ g \in Int /\ Congruent(s1, e, p)
      BY <1>0, <1>2, <1>3
    <3> HIDE DEF e, g
    <3>2. Congruent(e, s1, p) /\ Congruent(g, g, p)
      BY <1>0, <1>1, <3>1, Reckoning
    <3> QED BY <3>1, <3>2 DEF e, g
  <2> QED BY <1>0, <1>1, <1>3, <1>10, <2>1, Product
<1>12. Congruent(Y, s2 * (f * f * f), p) /\ s2 * (f * f * f) \in Int /\ Y \in Int
  <2>1. \A t \in Int : W * (x * (D * D) - t * (f * f)) - y * (D * (D * D)) = (l * (a1 - t) - a2) * (f * f * f)
    <3>1. \A t1, t2, t3, t4, t5, t \in Int :
            LET tD == t2 * (t3 * t3)
                tW == (t4 * t2) * (t3 * t3 * t3)
                tx == t1 * (t3 * t3)
                ty == t5 * (t3 * t3 * t3)
                tf == t3 * tD
            IN tW * (tx * (tD * tD) - t * (tf * tf)) - ty * (tD * (tD * tD)) = (t4 * (t1 - t) - t5) * (tf * tf * tf)
      OBVIOUS
    <3> HIDE DEF a1, a2, dx
    <3> QED BY <1>0, <1>3, <3>1
  <2> HIDE DEF f, s1, s2, a1, a2, b1, X, W, D, x, y, p
  <2>2. x * (D * D) \in Int /\ y * (D * (D * D)) \in Int /\ f * f \in Int /\ f * f * f \in Int
    BY <1>3
  <2>3. Congruent(x * (D * D) - X, x * (D * D) - s1 * (f * f), p)
        /\ x * (D * D) - X \in Int /\ x * (D * D) - s1 * (f * f) \in Int
    <3>1. Congruent(x * (D * D), x * (D * D), p)
      BY <1>1, <2>2, Reckoning
    <3> DEFINE u == x * (D * D)
               g == s1 * (f * f)
    <3>2. u \in Int /\ g \in Int /\ Congruent(u, u, p) /\ Congruent(X, g, p)
      BY <1>11, <2>2, <3>1
    <3> HIDE DEF u, g
    <3>3. Congruent(u - X, u - g, p) /\ u - X \in Int /\ u - g \in Int
      BY <1>1, <1>11, <3>2, Difference
    <3> QED BY <3>3 DEF u, g
  <2>4. Congruent(W * (x * (D * D) - X), W * (x * (D * D) - s1 * (f * f)), p)
        /\ W * (x * (D * D) - X) \in Int /\ W * (x * (D * D) - s1 * (f * f)) \in Int
    <3>1. Congruent(W, W, p)
      BY <1>1, <1>3, Reckoning
    <3> DEFINE u == x * (D * D) - X
               g == x * (D * D) - s1 * (f * f)
    <3>2. u \in Int /\ g \in Int /\ Congruent(u, g, p)
      BY <2>3
    <3> HIDE DEF u, g
    <3>3. Congruent(W * u, W * g, p) /\ W * u \in Int /\ W * g \in Int
      BY <1>1, <1>3, <3>1, <3>2, Product
    <3> QED BY <3>3 DEF u, g
  <2>5. Congruent(Y, W * (x * (D * D) - s1 * (f * f)) - y * (D * (D * D)), p)
    <3>1. Congruent(y * (D * (D * D)), y * (D * (D * D)), p)
      BY <1>1, <2>2, Reckoning
    <3> QED BY <1>1, <2>2, <2>4, <3>1, Difference
  <2>6. Congruent(Y, (l * (a1 - s1) - a2) * (f * f * f), p)
    BY <1>0, <2>1, <2>5
  <2>7. l * (a1 - s1) - a2 \in Int /\ Congruent(l * (a1 - s1) - a2, s2, p)
    <3> DEFINE e == l * (a1 - s1) - a2
    <3>1. e \in Int /\ Congruent(s2, e, p)
      BY <1>0, <1>2
    <3> HIDE DEF e
    <3>2. Congruent(e, s2, p)
      BY <1>0, <1>1, <3>1, Reckoning
    <3> QED BY <3>1, <3>2 DEF e
  <2>8. Congruent((l * (a1 - s1) - a2) * (f * f * f), s2 * (f * f * f), p)
    <3>1. Congruent(f * f * f, f * f * f, p)
      BY <1>1, <2>2, Reckoning
    <3> QED BY <1>0, <1>1, <2>2, <2>7, <3>1, Product
  <2>9. s2 * (f * f * f) \in Int /\ Y \in Int /\ (l * (a1 - s1) - a2) * (f * f * f) \in Int
    BY <1>0, <2>2, <2>4, <2>7
  <2> QED BY <1>1, <2>6, <2>8, <2>9, Reckoning
<1>13. r.same[1] \in Int /\ r.same[2] \in Int /\ r.sum[1] \in Int /\ r.sum[2] \in Int
  BY <1>4 DEF Ints2
<1>14. Scaled(r.same, A, f, c)
  BY <1>7, <1>9 DEF Scaled
<1>15. Scaled(r.sum, S, f, c)
  <2> HIDE DEF X, Y, f, r
  <2>1. Congruent(r.sum[1], s1 * (f * f), p) /\ Congruent(r.sum[2], s2 * (f * f * f), p)
    BY <1>1, <1>7, <1>11, <1>12, <1>13, Reckoning, ZenonT(60)
  <2> QED BY <2>1 DEF Scaled
<1> HIDE DEF f, r
<1>16. \A i \in {1, 2} : Congruent(A[i], A[i], c.p) /\ Congruent(S[i], S[i], c.p)
  BY <1>0, <1>1, Reckoning
<1> QED BY <1>3, <1>4, <1>8, <1>14, <1>15, <1>16, ScaledSame DEF r

(* Every coordinate that XYcZ_addC() gives is one that XYcZ_add() gives,   *)
(* of P and Q or of P and -Q, if it is told the difference of their x      *)
(* coordinates (uECC.c:922-976).                                           *)
LEMMA AddCIsAdd ==
  ASSUME NEW c \in Curves, NEW P0 \in Ints2, NEW Q0 \in Ints2, NEW sub \in Int,
         Congruent(sub * sub, (Q0[1] - P0[1]) * (Q0[1] - P0[1]), c.p)
  PROVE  LET r == XYcZ_addC(P0, Q0, sub, c)
             minus == <<Q0[1], -Q0[2]>>
         IN /\ r.sum = XYcZ_add(P0, Q0, c).sum
            /\ minus \in Ints2 /\ r.difference = XYcZ_add(P0, minus, c).sum
<1> DEFINE p == c.p
           p1 == P0[1]
           p2 == P0[2]
           q1 == Q0[1]
           q2 == Q0[2]
           minus == <<q1, -q2>>
           A == (sub * sub) % p
           B == (p1 * A) % p
           C == (q1 * A) % p
           E == (p2 * (C - B)) % p
           dy == (q2 - p2) % p
           sy == (q2 + p2) % p
           x3 == (dy * dy - B - C) % p
           x4 == (sy * sy - B - C) % p
           A0 == ((q1 - p1) * (q1 - p1)) % p
           my == (-q2 - p2) % p
           x5 == (my * my - B - C) % p
<1>0. p1 \in Int /\ p2 \in Int /\ q1 \in Int /\ q2 \in Int /\ minus \in Ints2
  BY DEF Ints2
<1>1. p \in Nat \ {0}
  BY FieldFacts
<1>2. A = A0
  <2> DEFINE u == sub * sub
             v == (q1 - p1) * (q1 - p1)
  <2>1. u \in Int /\ v \in Int /\ Congruent(u, v, p)
    BY <1>0
  <2> HIDE DEF u, v, p
  <2>2. u % p = v % p
    BY <1>1, <2>1, SameRemainder
  <2> QED BY <2>2 DEF u, v
<1>3. XYcZ_addC(P0, Q0, sub, c) = [difference |-> <<x4, (sy * (x4 - B) - E) % p>>,
                                   sum |-> <<x3, (dy * (B - x3) - E) % p>>]
  BY DEF XYcZ_addC
<1>4. XYcZ_add(P0, Q0, c).sum = <<x3, (dy * (B - x3) - E) % p>>
  BY <1>2 DEF XYcZ_add
<1>5. XYcZ_add(P0, minus, c).sum = <<x5, (my * (B - x5) - E) % p>>
  <2>1. minus[1] = q1 /\ minus[2] = -q2
    OBVIOUS
  <2> HIDE DEF minus
  <2> QED BY <1>2, <2>1 DEF XYcZ_add
<1>6. B \in Int /\ C \in Int /\ E \in Int /\ sy \in Int /\ my \in Int /\ Congruent(my, -sy, p)
  <2> HIDE DEF p1, p2, q1, q2, p
  <2>1. sub * sub \in Int
    OBVIOUS
  <2>2. A \in Int
    BY <1>1, <2>1, Reckoning
  <2> HIDE DEF A
  <2>3. p1 * A \in Int /\ q1 * A \in Int
    BY <1>0, <2>2
  <2>4. B \in Int /\ C \in Int
    BY <1>1, <2>3, Reckoning
  <2> HIDE DEF B, C
  <2>5. p2 * (C - B) \in Int
    BY <1>0, <2>4
  <2>6. E \in Int
    BY <1>1, <2>5, Reckoning
  <2> DEFINE s == q2 + p2
  <2>7. s \in Int /\ -q2 - p2 = 0 - s /\ 0 \in Int
    BY <1>0
  <2> HIDE DEF s
  <2>8. s % p \in Int /\ Congruent(s % p, s, p) /\ Congruent(0, 0, p)
    BY <1>1, <2>7, Reckoning
  <2>9. 0 - s \in Int /\ 0 - (s % p) \in Int
    BY <2>7, <2>8
  <2>10. (0 - s) % p \in Int /\ Congruent((0 - s) % p, 0 - s, p)
    BY <1>1, <2>9, Reckoning
  <2>11. Congruent(0 - (s % p), 0 - s, p)
    BY <1>1, <2>7, <2>8, Difference
  <2>12. Congruent((0 - s) % p, 0 - (s % p), p)
    BY <1>1, <2>9, <2>10, <2>11, Reckoning
  <2>13. sy = s % p /\ my = (0 - s) % p
    BY <2>7 DEF s
  <2>14. 0 - (s % p) = -(s % p)
    BY <2>8
  <2> QED BY <2>4, <2>6, <2>8, <2>10, <2>12, <2>13, <2>14
<1> HIDE DEF A, A0, B, C, E, sy, my, p1, p2, q1, q2, p, minus
<1>7. my * my \in Int /\ sy * sy \in Int /\ Congruent(my * my, sy * sy, p)
  <2>1. -sy \in Int /\ (-sy) * (-sy) = sy * sy
    BY <1>6
  <2>2. Congruent(my * my, (-sy) * (-sy), p) /\ my * my \in Int /\ sy * sy \in Int
    BY <1>1, <1>6, <2>1, Product
  <2> QED BY <2>1, <2>2
<1>8. x4 \in Int /\ x5 = x4
  <2> DEFINE u == my * my
             v == sy * sy
             e == B + C
  <2>1. u \in Int /\ v \in Int /\ e \in Int /\ Congruent(u, v, p)
        /\ my * my - B - C = u - e /\ sy * sy - B - C = v - e
    BY <1>6, <1>7
  <2> HIDE DEF u, v, e
  <2>2. Congruent(e, e, p) /\ u - e \in Int /\ v - e \in Int
    BY <1>1, <2>1, Reckoning
  <2>3. Congruent(u - e, v - e, p)
    BY <1>1, <2>1, <2>2, Difference
  <2>4. (u - e) % p = (v - e) % p /\ (v - e) % p \in Int
    BY <1>1, <2>2, <2>3, SameRemainder, Reckoning
  <2> QED BY <2>1, <2>4
<1> HIDE DEF x4, x5
<1>9. (my * (B - x5) - E) % p = (sy * (x4 - B) - E) % p
  <2> DEFINE b == B - x4
             u == my * b
             v == sy * (x4 - B)
  <2>1. b \in Int /\ -sy \in Int /\ (-sy) * b = v /\ v \in Int /\ u \in Int
    <3>1. b \in Int /\ x4 - B \in Int /\ x4 - B = 0 - b
      BY <1>6, <1>8
    <3> HIDE DEF b
    <3> QED BY <1>6, <3>1
  <2>2. Congruent(b, b, p)
    BY <1>1, <2>1, Reckoning
  <2> HIDE DEF b
  <2>3. Congruent(my * b, (-sy) * b, p)
    BY <1>1, <1>6, <2>1, <2>2, Product
  <2>4. Congruent(u, v, p)
    BY <2>1, <2>3
  <2> HIDE DEF u, v
  <2>5. Congruent(E, E, p) /\ u - E \in Int /\ v - E \in Int
    BY <1>1, <1>6, <2>1, Reckoning
  <2>6. Congruent(u - E, v - E, p)
    BY <1>1, <1>6, <2>1, <2>4, <2>5, Difference
  <2>7. (u - E) % p = (v - E) % p
    BY <1>1, <2>5, <2>6, SameRemainder
  <2> QED BY <1>8, <2>7 DEF u, v, b
<1>10. XYcZ_addC(P0, Q0, sub, c).sum = XYcZ_add(P0, Q0, c).sum
  BY <1>3, <1>4
<1>11. XYcZ_addC(P0, Q0, sub, c).difference = XYcZ_add(P0, minus, c).sum
  BY <1>3, <1>5, <1>8, <1>9
<1> QED BY <1>0, <1>10, <1>11 DEF minus, q1, q2

(* Doubling A, by the tangent of slope l, scales by y z.                   *)
Tangent(A, S, l, c) ==
  /\ Congruent(2 * (A[2] * l), 3 * (A[1] * A[1] - 1), c.p)
  /\ Congruent(S[1], l * l - 2 * A[1], c.p)
  /\ Congruent(S[2], l * (A[1] - S[1]) - A[2], c.p)

(* double_jacobian_default() doubles (uECC.c:719-771).                     *)
LEMMA DoubleScaled ==
  ASSUME NEW c \in Curves, NEW J \in Ints3, NEW A \in Ints2, NEW S \in Ints2, NEW l \in Int,
         J[3] # 0, Scaled(<<J[1], J[2]>>, A, J[3], c), Tangent(A, S, l, c)
  PROVE  LET twice == double_jacobian(J, c)
         IN /\ Scaled(<<twice[1], twice[2]>>, S, twice[3], c)
            /\ twice[3] = (J[2] * J[3]) % c.p
<1> DEFINE p == c.p
           a1 == A[1]
           a2 == A[2]
           s1 == S[1]
           s2 == S[2]
           X == J[1]
           Y == J[2]
           z == J[3]
           y2 == (Y * Y) % p
           K == (X * y2) % p
           z2 == (z * z) % p
           slope == ((X + z2) * (X - z2)) % p
           trebled == (3 * slope) % p
           B == (IF trebled % 2 = 1 THEN trebled + p ELSE trebled) \div 2
           x3 == (B * B - 2 * K) % p
           y3 == (B * (K - x3) - y2 * y2) % p
           z3 == (Y * z) % p
           t2 == z * z
           t3 == z * z * z
           t4 == t2 * t2
           u == a1 * t2
           v == a2 * t3
           f == v * z
           L == (a2 * l) * t4
<1>0. /\ a1 \in Int /\ a2 \in Int /\ s1 \in Int /\ s2 \in Int /\ X \in Int /\ Y \in Int /\ z \in Int
      /\ J[1] = X /\ J[2] = Y /\ J[3] = z
  BY DEF Ints2, Ints3
<1>1. p \in Nat \ {0}
  BY FieldFacts
<1>2. /\ Congruent(X, u, p) /\ Congruent(Y, v, p)
      /\ Congruent(2 * (a2 * l), 3 * (a1 * a1 - 1), p)
      /\ Congruent(s1, l * l - 2 * a1, p) /\ Congruent(s2, l * (a1 - s1) - a2, p)
  BY <1>0 DEF Scaled, Tangent
<1>3. double_jacobian(J, c) = <<x3, y3, z3>>
  BY DEF double_jacobian
<1> HIDE DEF a1, a2, s1, s2, X, Y, z, p
<1>4. t2 \in Int /\ t3 \in Int /\ t4 \in Int
  <2>1. t2 \in Int /\ t3 \in Int
    BY <1>0
  <2> HIDE DEF t2, t3
  <2> QED BY <2>1
<1>5. u \in Int /\ v \in Int /\ f \in Int /\ L \in Int
  <2> HIDE DEF t2, t3, t4
  <2>1. u \in Int /\ v \in Int /\ a2 * l \in Int
    BY <1>0, <1>4
  <2> HIDE DEF u, v
  <2> QED BY <1>0, <1>4, <2>1
<1> HIDE DEF t2, t3, t4, u, v, f, L
<1>6. y2 \in Int /\ Congruent(y2, v * v, p) /\ v * v \in Int
  BY <1>0, <1>1, <1>2, <1>5, Product
<1> HIDE DEF y2
<1>7. K \in Int /\ Congruent(K, u * (v * v), p) /\ u * (v * v) \in Int
  <2> DEFINE w == v * v
  <2>1. w \in Int /\ Congruent(y2, w, p)
    BY <1>6
  <2> HIDE DEF w
  <2>2. K \in Int /\ Congruent(K, u * w, p) /\ u * w \in Int
    BY <1>0, <1>1, <1>2, <1>5, <1>6, <2>1, Product
  <2> QED BY <2>2 DEF w
<1> HIDE DEF K
<1>8. z2 \in Int /\ Congruent(z2, t2, p)
  BY <1>0, <1>1, <1>4, Reckoning DEF t2
<1> HIDE DEF z2
<1>9. slope \in Int /\ Congruent(slope, (u + t2) * (u - t2), p) /\ (u + t2) * (u - t2) \in Int
  <2> DEFINE e1 == X + z2
             e2 == X - z2
             g1 == u + t2
             g2 == u - t2
  <2>1. /\ Congruent(e1, g1, p) /\ Congruent(e2, g2, p)
        /\ e1 \in Int /\ e2 \in Int /\ g1 \in Int /\ g2 \in Int
    BY <1>0, <1>1, <1>2, <1>4, <1>5, <1>8, Difference
  <2> HIDE DEF e1, e2, g1, g2
  <2>2. (e1 * e2) % p \in Int /\ Congruent((e1 * e2) % p, g1 * g2, p) /\ g1 * g2 \in Int
    BY <1>1, <2>1, Product
  <2> QED BY <2>2 DEF e1, e2, g1, g2
<1> HIDE DEF slope
<1>10. trebled \in Int /\ trebled >= 0 /\ Congruent(trebled, 2 * L, p)
  <2> DEFINE e == (u + t2) * (u - t2)
  <2>1. e \in Int /\ Congruent(slope, e, p) /\ 3 \in Int /\ Congruent(3, 3, p)
    BY <1>1, <1>9, Reckoning
  <2> HIDE DEF e
  <2>2. trebled \in Int /\ Congruent(trebled, 3 * e, p) /\ 3 * e \in Int
    BY <1>1, <1>9, <2>1, Product
  <2>3. trebled >= 0
    <3>1. 3 * slope \in Int
      BY <1>9
    <3>2. trebled \in 0..(p - 1)
      BY <1>1, <3>1, Reckoning
    <3> QED BY <3>2
  <2> DEFINE g == 3 * (a1 * a1 - 1)
             h == 2 * (a2 * l)
  <2>4. g \in Int /\ h \in Int /\ Congruent(h, g, p)
    BY <1>0, <1>2
  <2>5. 3 * e = g * t4 /\ 2 * L = h * t4
    <3>1. e = (a1 * t2 + t2) * (a1 * t2 - t2)
      BY DEF e, u
    <3>2. t4 = t2 * t2
      BY DEF t4
    <3> QED BY <1>0, <1>4, <3>1, <3>2 DEF L
  <2> HIDE DEF g, h, trebled
  <2>6. Congruent(t4, t4, p) /\ h * t4 \in Int /\ g * t4 \in Int
    BY <1>1, <1>4, <2>4, Reckoning
  <2>7. Congruent(h * t4, g * t4, p)
    BY <1>1, <1>4, <2>4, <2>6, Product
  <2>8. Congruent(trebled, h * t4, p)
    <3> DEFINE i == h * t4
               j == g * t4
    <3>1. i \in Int /\ j \in Int /\ Congruent(i, j, p) /\ Congruent(trebled, j, p)
      BY <2>2, <2>5, <2>6, <2>7
    <3> HIDE DEF i, j
    <3>2. Congruent(trebled, i, p)
      BY <1>1, <2>2, <3>1, Reckoning
    <3> QED BY <3>2 DEF i
  <2> QED BY <2>2, <2>3, <2>5, <2>8
<1> HIDE DEF trebled
<1>11. B \in Int /\ Congruent(B, L, p)
  <2>1. PICK h \in Nat : p = 2 * h + 1
    BY FieldFacts DEF p
  <2>2. B \in Int /\ (2 * B = trebled \/ 2 * B = trebled + p)
    BY <1>10, <2>1
  <2> HIDE DEF B
  <2>3. Congruent(2 * B, trebled, p) /\ 2 * B \in Int
    <3>1. 2 * B = trebled + 0 * p \/ 2 * B = trebled + 1 * p
      BY <1>1, <1>10, <2>2
    <3> QED BY <2>2, <3>1 DEF Congruent
  <2>4. Congruent(2 * B, 2 * L, p) /\ 2 * L \in Int
    <3> DEFINE i == 2 * B
               j == 2 * L
    <3>1. i \in Int /\ j \in Int /\ Congruent(i, trebled, p) /\ Congruent(trebled, j, p)
      BY <1>5, <1>10, <2>3
    <3> HIDE DEF i, j
    <3>2. Congruent(i, j, p)
      BY <1>1, <1>10, <3>1, Reckoning
    <3> QED BY <3>1, <3>2 DEF i, j
  <2>5. ~Congruent(2, 0, p)
    <3>1. 2 < p
      BY FieldFacts DEF p
    <3> DEFINE two == 2
               none == 0
    <3>2. two \in 0..(p - 1) /\ none \in 0..(p - 1) /\ two \in Int /\ none \in Int /\ two # none
      BY <1>1, <3>1
    <3> HIDE DEF two, none
    <3>3. ~Congruent(two, none, p)
      BY <1>1, <3>2, SameRemainder
    <3> QED BY <3>3 DEF two, none
  <2> QED BY <1>5, <2>2, <2>4, <2>5, Cancelled DEF p
<1> HIDE DEF B
<1>12. B * B \in Int /\ Congruent(B * B, L * L, p) /\ L * L \in Int
  BY <1>1, <1>5, <1>11, Product
<1>13. x3 \in Int /\ Congruent(x3, s1 * (f * f), p) /\ s1 * (f * f) \in Int
  <2> DEFINE e1 == B * B
             e2 == 2 * K
             g1 == L * L
             g2 == 2 * (u * (v * v))
             ff == f * f
             m == l * l - 2 * a1
  <2>1. e1 \in Int /\ g1 \in Int /\ Congruent(e1, g1, p)
    BY <1>12
  <2>2. e2 \in Int /\ g2 \in Int /\ Congruent(e2, g2, p)
    <3> DEFINE i == u * (v * v)
    <3>1. i \in Int /\ Congruent(K, i, p)
      BY <1>7
    <3> HIDE DEF i
    <3>2. 2 \in Int /\ Congruent(2, 2, p)
      BY <1>1, Reckoning
    <3>3. Congruent(2 * K, 2 * i, p) /\ 2 * K \in Int /\ 2 * i \in Int
      BY <1>1, <1>7, <3>1, <3>2, Product
    <3> QED BY <3>3 DEF i
  <2>3. g1 - g2 = m * ff
    <3>1. \A i1, i2, i3, i4 \in Int :
            LET j2 == i3 * i3
                j3 == i3 * i3 * i3
                jv == i2 * j3
                jL == (i2 * i4) * (j2 * j2)
                jf == jv * i3
            IN jL * jL - 2 * ((i1 * j2) * (jv * jv)) = (i4 * i4 - 2 * i1) * (jf * jf)
      OBVIOUS
    <3> QED BY <1>0, <3>1 DEF L, u, v, f, t2, t3, t4
  <2>4. m \in Int /\ ff \in Int /\ Congruent(s1, m, p) /\ Congruent(ff, ff, p)
    <3>1. m \in Int /\ ff \in Int /\ Congruent(s1, m, p)
      BY <1>0, <1>2, <1>5
    <3> HIDE DEF m, ff
    <3> QED BY <1>1, <3>1, Reckoning
  <2>5. B * B - 2 * K = e1 - e2
    OBVIOUS
  <2> HIDE DEF e1, e2, g1, g2, ff, m
  <2>6. (e1 - e2) % p \in Int /\ Congruent((e1 - e2) % p, g1 - g2, p)
    BY <1>1, <2>1, <2>2, Difference
  <2>7. Congruent(s1 * ff, m * ff, p) /\ s1 * ff \in Int /\ m * ff \in Int
    BY <1>0, <1>1, <2>4, Product
  <2> DEFINE w == s1 * ff
             w0 == m * ff
             e == (e1 - e2) % p
  <2>8. w \in Int /\ w0 \in Int /\ e \in Int /\ Congruent(w, w0, p) /\ Congruent(e, w0, p)
    BY <2>3, <2>6, <2>7
  <2> HIDE DEF w, w0, e
  <2>9. Congruent(e, w, p)
    BY <1>1, <2>8, Reckoning
  <2> QED BY <2>5, <2>8, <2>9 DEF w, e, ff
<1> HIDE DEF x3
<1>14. y3 \in Int /\ Congruent(y3, s2 * (f * f * f), p)
  <2> DEFINE i == u * (v * v)
             ff == f * f
             fff == f * f * f
             j == s1 * ff
             y4 == y2 * y2
             m == l * (a1 - s1) - a2
             dx == K - x3
             g == i - j
  <2>1. i \in Int /\ j \in Int /\ Congruent(K, i, p) /\ Congruent(x3, j, p)
    BY <1>7, <1>13
  <2> HIDE DEF i, j
  <2>2. dx \in Int /\ g \in Int /\ Congruent(dx, g, p)
    BY <1>1, <1>7, <1>13, <2>1, Difference
  <2> HIDE DEF dx, g
  <2>3. B * dx \in Int /\ L * g \in Int /\ Congruent(B * dx, L * g, p)
    <3>1. B \in Int /\ L \in Int /\ Congruent(B, L, p)
      BY <1>5, <1>11
    <3>2. B * dx \in Int /\ L * g \in Int
      BY <2>2, <3>1
    <3> QED BY <1>1, <2>2, <3>1, <3>2, Product
  <2> DEFINE w == v * v
             w2 == w * w
  <2>4. w \in Int /\ Congruent(y2, w, p)
    BY <1>6
  <2> HIDE DEF w
  <2>5. y4 \in Int /\ w2 \in Int /\ Congruent(y4, w2, p)
    BY <1>1, <1>6, <2>4, Product
  <2>6. (L * g) - w2 = m * fff
    <3>1. \A i1, i2, i3, i4, k1 \in Int :
            LET j2 == i3 * i3
                j3 == i3 * i3 * i3
                jv == i2 * j3
                jL == (i2 * i4) * (j2 * j2)
                jf == jv * i3
            IN jL * (((i1 * j2) * (jv * jv)) - (k1 * (jf * jf))) - ((jv * jv) * (jv * jv))
                 = (i4 * (i1 - k1) - i2) * (jf * jf * jf)
      OBVIOUS
    <3> QED BY <1>0, <3>1 DEF L, u, v, f, t2, t3, t4, g, i, j, w
  <2>7. m \in Int /\ fff \in Int /\ Congruent(s2, m, p) /\ Congruent(fff, fff, p)
    <3>1. m \in Int /\ fff \in Int /\ Congruent(s2, m, p)
      BY <1>0, <1>2, <1>5
    <3> HIDE DEF m, fff
    <3> QED BY <1>1, <3>1, Reckoning
  <2>8. B * (K - x3) - y2 * y2 = B * dx - y4
    BY DEF dx
  <2> HIDE DEF y4, w2, m, fff
  <2>9. Congruent(s2 * fff, m * fff, p) /\ s2 * fff \in Int /\ m * fff \in Int
    BY <1>0, <1>1, <2>7, Product
  <2> DEFINE e == B * dx
             h == L * g
             o == m * fff
             o1 == s2 * fff
  <2>10. e \in Int /\ h \in Int /\ o \in Int /\ o1 \in Int /\ Congruent(e, h, p)
         /\ Congruent(o1, o, p) /\ h - w2 = o
    BY <2>3, <2>6, <2>9
  <2> HIDE DEF e, h, o, o1
  <2>11. (e - y4) % p \in Int /\ Congruent((e - y4) % p, o, p)
    BY <1>1, <2>5, <2>10, Difference
  <2> DEFINE y5 == (e - y4) % p
  <2>12. y5 \in Int /\ Congruent(y5, o, p) /\ y5 = y3
    BY <2>8, <2>11 DEF e
  <2> HIDE DEF y5
  <2>13. Congruent(y5, o1, p)
    BY <1>1, <2>10, <2>12, Reckoning
  <2> QED BY <2>12, <2>13 DEF o1, fff
<1> HIDE DEF y3
<1>15. z3 \in Int /\ Congruent(z3, f, p)
  <2>1. Congruent(z, z, p)
    BY <1>0, <1>1, Reckoning
  <2> QED BY <1>0, <1>1, <1>2, <1>5, <2>1, Product DEF f
<1>16. Scaled(<<x3, y3>>, S, f, c) /\ <<x3, y3>> \in Ints2
  BY <1>13, <1>14 DEF Scaled, p, s1, s2, Ints2
<1>17. Congruent(f, z3, p) /\ \A i \in {1, 2} : Congruent(S[i], S[i], p)
  <2> HIDE DEF z3
  <2> QED BY <1>0, <1>1, <1>5, <1>15, Reckoning DEF s1, s2
<1>18. Scaled(<<x3, y3>>, S, z3, c)
  <2> HIDE DEF z3
  <2> QED BY <1>5, <1>15, <1>16, <1>17, ScaledSame DEF p
<1> QED BY <1>0, <1>3, <1>18 DEF p

-----------------------------------------------------------------------------
(* The group. By GroupAssumption the multiples of G add up as their        *)
(* factors do modulo n, and from that follows which of them are opposite,  *)
(* have the same x, or lie on one chord.                                   *)

(* The recursion of Multiple() has a solution.                             *)
LEMMA MultipleDefined ==
  ASSUME NEW A, NEW c
  PROVE  /\ Multiple(0, A, c) = Zero
         /\ \A j \in Nat \ {0} :
              Multiple(j, A, c)
                = LET even == Plus(Multiple(j \div 2, A, c), Multiple(j \div 2, A, c), c)
                  IN IF j % 2 = 1 THEN Plus(A, even, c) ELSE even
<1> DEFINE Body(j, half) ==
             IF j = 0 THEN Zero
             ELSE IF j % 2 = 1 THEN Plus(A, Plus(half, half, c), c) ELSE Plus(half, half, c)
           Good(n, g) == g = [j \in 0..n |-> Body(j, g[j \div 2])]
           S == {n \in Nat : \E g : Good(n, g)}
<1>1. ASSUME NEW j \in Nat PROVE j \div 2 \in 0..j /\ (j # 0 => j \div 2 \in 0..(j - 1))
  OBVIOUS
<1> HIDE DEF Body
<1>2. S = Nat
  <2>1. 0 \in S
    <3> DEFINE g == [j \in 0..0 |-> Body(0, 0)]
    <3>1. Good(0, g)
      <4>1. \A j \in 0..0 : Body(j, g[j \div 2]) = Body(0, 0)
        BY DEF Body
      <4> QED BY <4>1
    <3> QED BY <3>1
  <2>2. ASSUME NEW n \in S PROVE n + 1 \in S
    <3>1. PICK g : Good(n, g)
      OBVIOUS
    <3> DEFINE h == [j \in 0..(n + 1) |-> Body(j, g[j \div 2])]
    <3>2. \A j \in 0..n : h[j] = g[j]
      <4>1. \A j \in 0..n : j \in 0..(n + 1)
        OBVIOUS
      <4>2. \A j \in 0..n : g[j] = Body(j, g[j \div 2])
        BY <3>1
      <4>3. \A j \in 0..n : h[j] = Body(j, g[j \div 2])
        BY <4>1
      <4> QED BY <4>2, <4>3
    <3>3. \A j \in 0..(n + 1) : Body(j, h[j \div 2]) = Body(j, g[j \div 2])
      <4> SUFFICES ASSUME NEW j \in 0..(n + 1) PROVE Body(j, h[j \div 2]) = Body(j, g[j \div 2])
        OBVIOUS
      <4>1. CASE j = 0
        BY <4>1 DEF Body
      <4>2. CASE j # 0
        <5>1. j \div 2 \in 0..n
          BY <1>1, <4>2
        <5> QED BY <3>2, <5>1
      <4> QED BY <4>1, <4>2
    <3>4. Good(n + 1, h)
      <4> HIDE DEF h
      <4>1. h = [j \in 0..(n + 1) |-> Body(j, g[j \div 2])]
        BY DEF h
      <4> QED BY <3>3, <4>1
    <3>5. n + 1 \in Nat /\ \E g1 : Good(n + 1, g1)
      <4> HIDE DEF h
      <4> QED BY <3>4
    <3> HIDE DEF Good
    <3> QED BY <3>5
  <2> HIDE DEF S
  <2>3. S \in SUBSET Nat
    BY DEF S
  <2> QED BY <2>1, <2>2, <2>3, SetInduction
<1>3. ASSUME NEW n \in Nat PROVE \E g : Good(n, g)
  BY <1>2
<1> DEFINE of == [n \in Nat |-> CHOOSE g : Good(n, g)]
<1>4. ASSUME NEW n \in Nat PROVE Good(n, of[n])
  <2>1. Good(n, CHOOSE g : Good(n, g))
    BY <1>3
  <2>2. of[n] = CHOOSE g : Good(n, g)
    BY DEF of
  <2> QED BY <2>1, <2>2
<1> HIDE DEF of
<1>5. ASSUME NEW n \in Nat, NEW m \in Nat, n <= m PROVE \A j \in 0..n : of[n][j] = of[m][j]
  <2> DEFINE T == {i \in Nat : \A j \in 0..n : j <= i => of[n][j] = of[m][j]}
  <2>0. ASSUME NEW j \in 0..n
        PROVE of[n][j] = Body(j, of[n][j \div 2]) /\ of[m][j] = Body(j, of[m][j \div 2])
    <3>1. j \in 0..m
      BY <1>5
    <3> QED BY <1>4, <3>1
  <2>1. 0 \in T
    <3>1. of[n][0] = Zero /\ of[m][0] = Zero
      BY <2>0 DEF Body
    <3> QED BY <3>1
  <2>2. ASSUME NEW i \in T PROVE i + 1 \in T
    <3> SUFFICES ASSUME NEW j \in 0..n, j <= i + 1, j # 0 PROVE of[n][j] = of[m][j]
      BY <2>1
    <3>1. j \div 2 \in 0..n /\ j \div 2 <= i
      BY <1>1
    <3>2. of[n][j \div 2] = of[m][j \div 2]
      BY <3>1
    <3> QED BY <2>0, <3>2
  <2> HIDE DEF T
  <2>3. T \in SUBSET Nat
    BY DEF T
  <2>4. T = Nat
    BY <2>1, <2>2, <2>3, SetInduction
  <2> SUFFICES ASSUME NEW j \in 0..n PROVE of[n][j] = of[m][j]
    OBVIOUS
  <2>5. n \in T
    BY <2>4
  <2> QED BY <2>5 DEF T
<1> DEFINE all == [j \in Nat |-> of[j][j]]
<1>6. all = [j \in Nat |-> Body(j, all[j \div 2])]
  <2> SUFFICES ASSUME NEW j \in Nat PROVE of[j][j] = Body(j, all[j \div 2])
    OBVIOUS
  <2>1. of[j][j] = Body(j, of[j][j \div 2])
    <3>1. j \in 0..j /\ Good(j, of[j])
      BY <1>4
    <3> DEFINE o == of[j]
    <3>2. o = [i \in 0..j |-> Body(i, o[i \div 2])]
      BY <3>1
    <3> HIDE DEF o
    <3>3. o[j] = Body(j, o[j \div 2])
      BY <3>1, <3>2
    <3> QED BY <3>3 DEF o
  <2>2. j \div 2 \in Nat /\ j \div 2 <= j
    BY <1>1
  <2>3. of[j \div 2][j \div 2] = of[j][j \div 2]
    BY <1>5, <2>2
  <2> QED BY <2>1, <2>2, <2>3
<1> DEFINE F(g) == [j \in Nat |-> Body(j, g[j \div 2])]
           f == CHOOSE g : g = F(g)
<1>7. f = F(f)
  <2> HIDE DEF all
  <2>1. all = F(all)
    BY <1>6
  <2> HIDE DEF F
  <2> QED BY <2>1
<1>8. \A j \in Nat : Multiple(j, A, c) = f[j]
  BY DEF Multiple, Body
<1> HIDE DEF f
<1>9. \A j \in Nat : f[j] = Body(j, f[j \div 2])
  BY <1>7
<1>10. f[0] = Zero
  BY <1>9 DEF Body
<1>11. ASSUME NEW j \in Nat \ {0}
       PROVE  Multiple(j, A, c)
                = LET even == Plus(Multiple(j \div 2, A, c), Multiple(j \div 2, A, c), c)
                  IN IF j % 2 = 1 THEN Plus(A, even, c) ELSE even
  <2>1. j \div 2 \in Nat /\ j \in Nat /\ j # 0
    BY <1>1
  <2>2. Multiple(j, A, c) = Body(j, Multiple(j \div 2, A, c))
    BY <1>8, <1>9, <2>1
  <2> QED BY <2>1, <2>2 DEF Body
<1> QED BY <1>8, <1>10, <1>11

(* The multiples of G, by any factor.                                      *)
Mul(i, c) == Multiple(i % c.n, c.G, c)

(* They are points of the curve, but for Zero, and add up as the factors   *)
(* do.                                                                     *)
LEMMA MulFacts ==
  ASSUME NEW c \in Curves
  PROVE  /\ \A i \in Int : /\ Mul(i, c) \in Points(c) /\ Mul(i, c) \in Ints2
                           /\ Mul(i, c) = Zero <=> Congruent(i, 0, c.n)
                           /\ ~Congruent(i, 0, c.n) => uECC_valid_point(Mul(i, c), c)
         /\ \A i, j \in Int : /\ Plus(Mul(i, c), Mul(j, c), c) = Mul(i + j, c)
                              /\ Mul(i, c) = Mul(j, c) <=> Congruent(i, j, c.n)
         /\ Mul(1, c) = c.G
<1> DEFINE n == c.n
           p == c.p
           multiple == [i \in 0..(n - 1) |-> Multiple(i, c.G, c)]
<1>1. n \in Nat \ {0} /\ 2 < n /\ c.p \in Nat \ {0} /\ 2 < p
  BY CurveFacts, FieldFacts
<1>2. /\ \A i \in 1..(n - 1) : multiple[i] \in Points(c) /\ uECC_valid_point(multiple[i], c)
      /\ \A i, j \in 0..(n - 1) : Plus(multiple[i], multiple[j], c) = multiple[(i + j) % n]
  BY GroupAssumption
<1>3. \A i \in Int : i % n \in 0..(n - 1) /\ i % n \in Int /\ Mul(i, c) = multiple[i % n]
                     /\ (i % n = 0 <=> Congruent(i, 0, n))
  <2> SUFFICES ASSUME NEW i \in Int
               PROVE  i % n \in 0..(n - 1) /\ i % n \in Int /\ Mul(i, c) = multiple[i % n]
                      /\ (i % n = 0 <=> Congruent(i, 0, n))
    OBVIOUS
  <2>1. i % n \in 0..(n - 1)
    BY <1>1, Reckoning
  <2> DEFINE none == 0
  <2>2. none \in 0..(n - 1) /\ none \in Int
    BY <1>1
  <2> HIDE DEF none, n
  <2>3. Congruent(i, none, n) <=> i % n = none
    BY <1>1, <2>2, SameRemainder
  <2> QED BY <1>1, <2>1, <2>3 DEF Mul, none, n
<1>4. multiple[0] = Zero
  BY <1>1, MultipleDefined
<1>5. multiple[1] = c.G
  <2>1. Multiple(0, c.G, c) = Zero
    BY MultipleDefined
  <2>2. 1 \in Nat \ {0} /\ 1 \div 2 = 0 /\ 1 % 2 = 1
    OBVIOUS
  <2>3. Multiple(1, c.G, c) = Plus(c.G, Plus(Zero, Zero, c), c)
    BY <2>1, <2>2, MultipleDefined
  <2>4. \A A : Plus(A, Zero, c) = A
    BY DEF Plus
  <2>5. 1 \in 0..(n - 1)
    BY <1>1
  <2> QED BY <2>3, <2>4, <2>5
<1> HIDE DEF multiple, n, p
<1>6. ASSUME NEW i \in Int
      PROVE  /\ Mul(i, c) \in Points(c) /\ Mul(i, c) \in Ints2
             /\ Mul(i, c) = Zero <=> Congruent(i, 0, n)
             /\ ~Congruent(i, 0, n) => uECC_valid_point(Mul(i, c), c)
  <2>1. Zero \in Points(c)
    BY <1>1 DEF Zero, Points
  <2>2. CASE i % n = 0
    BY <1>3, <1>4, <2>1, <2>2, ModuloP
  <2>3. CASE i % n # 0
    <3>1. i % n \in 1..(n - 1)
      BY <1>1, <1>3, <2>3
    <3>2. Mul(i, c) \in Points(c) /\ uECC_valid_point(Mul(i, c), c)
      BY <1>2, <1>3, <3>1
    <3>3. Mul(i, c) # Zero
      BY <3>2 DEF uECC_valid_point, EccPoint_isZero, Infinity, Zero
    <3> QED BY <1>3, <2>3, <3>2, <3>3, ModuloP
  <2> QED BY <2>2, <2>3
<1>7. ASSUME NEW i \in Int, NEW j \in Int PROVE Plus(Mul(i, c), Mul(j, c), c) = Mul(i + j, c)
  <2> DEFINE a == i % n
             b == j % n
             e == (a + b) % n
  <2>1. a \in 0..(n - 1) /\ b \in 0..(n - 1) /\ Mul(i, c) = multiple[a] /\ Mul(j, c) = multiple[b]
        /\ a \in Int /\ b \in Int /\ Congruent(a, i, n) /\ Congruent(b, j, n)
    BY <1>1, <1>3, Reckoning
  <2> HIDE DEF a, b
  <2>2. Plus(Mul(i, c), Mul(j, c), c) = multiple[(a + b) % n]
    BY <1>2, <2>1
  <2>3. Congruent(a + b, i + j, n) /\ a + b \in Int /\ i + j \in Int
    BY <1>1, <2>1, Difference
  <2>4. (a + b) % n = (i + j) % n
    BY <1>1, <2>3, SameRemainder
  <2> QED BY <1>3, <2>2, <2>3, <2>4
<1>8. ASSUME NEW i \in Int, NEW j \in Int, Congruent(i, j, n) PROVE Mul(i, c) = Mul(j, c)
  <2>1. i % n = j % n
    BY <1>1, <1>8, SameRemainder
  <2> QED BY <1>3, <2>1
<1>9. ASSUME NEW i \in Int, NEW j \in Int, Mul(i, c) = Mul(j, c) PROVE Congruent(i, j, n)
  <2> DEFINE m == 0 - j
  <2>1. m \in Int /\ i + m \in Int /\ j + m = 0 /\ (i + m) + j = i /\ 0 + j = j /\ 0 \in Int
    OBVIOUS
  <2> HIDE DEF m
  <2>2. Mul(i + m, c) = Mul(0, c)
    <3>1. Mul(i + m, c) = Plus(Mul(i, c), Mul(m, c), c) /\ Mul(j + m, c) = Plus(Mul(j, c), Mul(m, c), c)
      BY <1>7, <2>1
    <3> QED BY <1>9, <2>1, <3>1
  <2>3. Congruent(0, 0, n) /\ Congruent(j, j, n)
    BY <1>1, <2>1, Reckoning
  <2>4. Congruent(i + m, 0, n)
    BY <1>6, <2>1, <2>2, <2>3
  <2> DEFINE im == i + m
             none == 0
  <2>5. im \in Int /\ none \in Int /\ Congruent(im, none, n) /\ im + j = i /\ none + j = j
    BY <2>1, <2>4
  <2> HIDE DEF im, none
  <2>6. Congruent(im + j, none + j, n)
    BY <1>1, <2>3, <2>5, Difference
  <2> QED BY <2>5, <2>6
<1>10. Mul(1, c) = c.G
  <2>1. 1 \in 0..(n - 1) /\ 1 \in Int
    BY <1>1
  <2>2. 1 % n = 1
    BY <1>1, <2>1, SameRemainder
  <2> QED BY <1>3, <1>5, <2>1, <2>2
<1> QED BY <1>6, <1>7, <1>8, <1>9, <1>10 DEF n

(* The inverse of the textbook.                                            *)
LEMMA InverseModExact ==
  ASSUME NEW c \in Curves, NEW x \in Int, ~Congruent(x, 0, c.p)
  PROVE  InverseMod(x, c.p) \in Int /\ Congruent(InverseMod(x, c.p) * x, 1, c.p)
<1> DEFINE p == c.p
           one == 1
<1>1. p \in Nat \ {0} /\ 2 < p
  BY FieldFacts
<1>2. PICK i \in 0..(p - 1) : Congruent(i * x, 1, p)
  BY HasInverse
<1>3. one \in 0..(p - 1) /\ one \in Int
  BY <1>1
<1> HIDE DEF one, p
<1>4. \A j \in 0..(p - 1) : (j * x) % p = one <=> Congruent(j * x, one, p)
  <2> SUFFICES ASSUME NEW j \in 0..(p - 1) PROVE (j * x) % p = one <=> Congruent(j * x, one, p)
    OBVIOUS
  <2> DEFINE e == j * x
  <2>1. e \in Int
    BY <1>1
  <2> HIDE DEF e
  <2>2. Congruent(e, one, p) <=> e % p = one
    BY <1>1, <1>3, <2>1, SameRemainder
  <2> QED BY <2>2 DEF e
<1>5. InverseMod(x, p) \in 0..(p - 1) /\ (InverseMod(x, p) * x) % p = 1
  <2>1. \E j \in 0..(p - 1) : (j * x) % p = 1
    BY <1>2, <1>4 DEF one
  <2> QED BY <2>1 DEF InverseMod
<1>6. InverseMod(x, p) \in Int
  BY <1>1, <1>5
<1> QED BY <1>4, <1>5, <1>6 DEF one, p

(* Coordinates below p are equal where they are congruent.                 *)
LEMMA Coordinates ==
  ASSUME NEW c \in Curves, NEW A \in Points(c), NEW B \in Points(c)
  PROVE  /\ A[1] \in 0..(c.p - 1) /\ A[2] \in 0..(c.p - 1) /\ A[1] \in Int /\ A[2] \in Int
         /\ A = <<A[1], A[2]>> /\ A \in Ints2
         /\ Congruent(A[1], B[1], c.p) <=> A[1] = B[1]
         /\ Congruent(B[1] - A[1], 0, c.p) <=> A[1] = B[1]
         /\ Congruent(A[2], B[2], c.p) <=> A[2] = B[2]
         /\ Congruent(A[2], 0, c.p) <=> A[2] = 0
         /\ Congruent(A[1], 0, c.p) <=> A[1] = 0
<1> DEFINE p == c.p
           none == 0
<1>1. p \in Nat \ {0}
  BY FieldFacts
<1>2. /\ A[1] \in 0..(p - 1) /\ A[2] \in 0..(p - 1) /\ A = <<A[1], A[2]>>
      /\ B[1] \in 0..(p - 1) /\ B[2] \in 0..(p - 1)
  BY DEF Points
<1>3. none \in 0..(p - 1) /\ none \in Int
  BY <1>1
<1>4. A[1] \in Int /\ A[2] \in Int /\ B[1] \in Int /\ B[2] \in Int /\ A \in Ints2
  BY <1>1, <1>2 DEF Ints2
<1> HIDE DEF p, none
<1>5. ASSUME NEW x \in 0..(p - 1), NEW y \in 0..(p - 1) PROVE Congruent(x, y, p) <=> x = y
  <2>1. x \in Int /\ y \in Int
    BY <1>1
  <2> QED BY <1>1, <2>1, SameRemainder, Reckoning
<1>6. Congruent(B[1] - A[1], none, p) <=> A[1] = B[1]
  <2> DEFINE a == A[1]
             b == B[1]
             e == b - a
  <2>1. a \in Int /\ b \in Int /\ e \in Int /\ e + a = b /\ none + a = a /\ (a = b => e = none)
    BY <1>4 DEF none
  <2>2. a \in 0..(p - 1) /\ b \in 0..(p - 1)
    BY <1>2
  <2> HIDE DEF a, b, e
  <2>3. Congruent(a, a, p) /\ Congruent(e, e, p)
    BY <1>1, <2>1, Reckoning
  <2>4. Congruent(e, none, p) => Congruent(e + a, none + a, p)
    BY <1>1, <1>3, <2>1, <2>3, Difference
  <2>5. Congruent(b, a, p) <=> b = a
    BY <1>5, <2>2
  <2>6. Congruent(e, none, p) <=> a = b
    BY <2>1, <2>3, <2>4, <2>5
  <2> QED BY <2>6 DEF e, a, b
<1>7. /\ Congruent(A[1], B[1], p) <=> A[1] = B[1]
      /\ Congruent(A[2], B[2], p) <=> A[2] = B[2]
      /\ Congruent(A[2], none, p) <=> A[2] = none
      /\ Congruent(A[1], none, p) <=> A[1] = none
  BY <1>2, <1>3, <1>5
<1> QED BY <1>2, <1>4, <1>6, <1>7 DEF none, p

(* Reducing the coordinates of the sum changes nothing.                    *)
LEMMA PlusChord ==
  ASSUME NEW c \in Curves, NEW A \in Points(c), NEW B \in Points(c),
         A # Zero, B # Zero, A[1] # B[1]
  PROVE  \E l \in Int : Chord(A, B, Plus(A, B, c), l, c)
<1> DEFINE p == c.p
           a1 == A[1]
           a2 == A[2]
           b1 == B[1]
           b2 == B[2]
           e == (b1 - a1) % p
           inv == InverseMod(e, p)
           slope == (b2 - a2) * inv
           l == slope % p
           x == (l * l - a1 - b1) % p
           y == (l * (a1 - x) - a2) % p
<1>1. p \in Nat \ {0} /\ a1 \in Int /\ a2 \in Int /\ b1 \in Int /\ b2 \in Int
  BY FieldFacts, Coordinates
<1>2. Plus(A, B, c) = <<x, y>>
  BY DEF Plus
<1>3. ~Congruent(b1 - a1, 0, p)
  BY Coordinates
<1> DEFINE w == b1 - a1
           v == b2 - a2
           none == 0
<1>4. w \in Int /\ v \in Int /\ e = w % p /\ slope = v * inv /\ none \in Int /\ ~Congruent(w, none, p)
  BY <1>1, <1>3
<1> HIDE DEF a1, a2, b1, b2, p, e, w, v, none
<1>5. e \in Int /\ Congruent(e, w, p) /\ Congruent(w, e, p) /\ Congruent(w, w, p) /\ Congruent(v, v, p)
  BY <1>1, <1>4, Reckoning
<1>6. ~Congruent(e, none, p)
  BY <1>1, <1>4, <1>5, Reckoning
<1>7. inv \in Int /\ Congruent(inv * e, 1, p)
  BY <1>4, <1>5, <1>6, InverseModExact DEF none, p
<1> HIDE DEF inv
<1>8. l \in Int /\ Congruent(l, v * inv, p) /\ v * inv \in Int
  <2> DEFINE s == v * inv
  <2>1. s \in Int
    BY <1>4, <1>7
  <2> HIDE DEF s
  <2>2. s % p \in Int /\ Congruent(s % p, s, p)
    BY <1>1, <2>1, Reckoning
  <2> QED BY <1>4, <2>1, <2>2 DEF s
<1> HIDE DEF l
<1>9. Congruent(v, l * w, p)
  <2> DEFINE s == v * inv
             t == inv * e
             lw == l * w
             one == 1
  <2>1. s \in Int /\ Congruent(l, s, p) /\ t \in Int /\ Congruent(t, one, p) /\ one \in Int
    BY <1>5, <1>7, <1>8
  <2>2. s * e = v * t /\ v * one = v
    BY <1>4, <1>5, <1>7
  <2> HIDE DEF s, t, one
  <2>3. Congruent(l * w, s * e, p) /\ l * w \in Int /\ s * e \in Int
    BY <1>1, <1>4, <1>5, <1>8, <2>1, Product
  <2>4. Congruent(v * t, v * one, p)
    BY <1>1, <1>4, <1>5, <2>1, Product
  <2>5. Congruent(lw, v, p) /\ lw \in Int
    <3> DEFINE i == s * e
    <3>1. lw \in Int /\ i \in Int /\ Congruent(lw, i, p) /\ Congruent(i, v, p)
      BY <2>2, <2>3, <2>4
    <3> HIDE DEF lw, i
    <3> QED BY <1>1, <1>4, <3>1, Reckoning
  <2> HIDE DEF lw
  <2>6. Congruent(v, lw, p)
    BY <1>1, <1>4, <2>5, Reckoning
  <2> QED BY <2>6 DEF lw
<1>10. x \in Int /\ Congruent(x, l * l - a1 - b1, p)
  <2> DEFINE i == l * l - a1 - b1
  <2>1. i \in Int
    BY <1>1, <1>8
  <2> HIDE DEF i
  <2>2. i % p \in Int /\ Congruent(i % p, i, p)
    BY <1>1, <2>1, Reckoning
  <2> QED BY <2>2 DEF i
<1> HIDE DEF x
<1>11. Congruent(y, l * (a1 - x) - a2, p)
  <2> DEFINE i == l * (a1 - x) - a2
  <2>1. i \in Int
    BY <1>1, <1>8, <1>10
  <2> HIDE DEF i
  <2>2. i % p \in Int /\ Congruent(i % p, i, p)
    BY <1>1, <2>1, Reckoning
  <2> QED BY <2>2 DEF i
<1>12. Chord(A, B, <<x, y>>, l, c)
  BY <1>9, <1>10, <1>11 DEF Chord, v, w, a1, a2, b1, b2, p
<1> QED BY <1>2, <1>8, <1>12

(* The tangent at a point whose y is not 0.                                *)
LEMMA PlusTangent ==
  ASSUME NEW c \in Curves, NEW A \in Points(c), A[2] # 0
  PROVE  \E l \in Int : Tangent(A, Plus(A, A, c), l, c)
<1> DEFINE p == c.p
           a1 == A[1]
           a2 == A[2]
           e == 2 * a2
           inv == InverseMod(e, p)
           v == 3 * a1 * a1 - 3
           slope == v * inv
           l == slope % p
           x == (l * l - a1 - a1) % p
           y == (l * (a1 - x) - a2) % p
           none == 0
           two == 2
<1>1. p \in Nat \ {0} /\ a1 \in Int /\ a2 \in Int /\ none \in Int /\ two \in Int
  BY FieldFacts, Coordinates
<1>2. ~Congruent(e, none, p)
  <2>1. two \in 0..(p - 1) /\ none \in 0..(p - 1) /\ two # none
    BY FieldFacts
  <2>2. ~Congruent(a2, none, p)
    BY Coordinates
  <2> HIDE DEF two, none, p, a2
  <2>3. ~Congruent(two, none, p)
    BY <1>1, <2>1, SameRemainder
  <2>4. ~Congruent(two * a2, none, p)
    BY <1>1, <2>2, <2>3, NotZero DEF p, none
  <2> QED BY <2>4 DEF two
<1>3. A # Zero /\ (a2 + a2) % p # 0
  <2>1. A # Zero
    BY DEF Zero
  <2>2. e \in Int /\ a2 + a2 = e /\ none \in 0..(p - 1)
    BY <1>1
  <2> HIDE DEF none, p, e
  <2>3. none % p = none
    BY <1>1, <2>2, SameRemainder
  <2>4. e % p # none
    <3>1. Congruent(e, none, p) <=> e % p = none % p
      BY <1>1, <2>2, SameRemainder
    <3> QED BY <1>2, <2>3, <3>1
  <2> QED BY <2>1, <2>2, <2>4 DEF none
<1>4. Plus(A, A, c) = <<x, y>>
  BY <1>3 DEF Plus
<1>5. e \in Int /\ v \in Int
  BY <1>1
<1> HIDE DEF a1, a2, p, e, v, none, two
<1>6. inv \in Int /\ Congruent(inv * e, 1, p)
  BY <1>1, <1>2, <1>5, InverseModExact DEF none, p
<1> HIDE DEF inv
<1>7. l \in Int /\ Congruent(l, v * inv, p) /\ v * inv \in Int
  <2> DEFINE s == v * inv
  <2>1. s \in Int
    BY <1>5, <1>6
  <2> HIDE DEF s
  <2>2. s % p \in Int /\ Congruent(s % p, s, p)
    BY <1>1, <2>1, Reckoning
  <2> QED BY <2>1, <2>2 DEF s
<1> HIDE DEF l
<1>8. Congruent(2 * (a2 * l), 3 * (a1 * a1 - 1), p)
  <2> DEFINE s == v * inv
             t == inv * e
             le == l * e
             one == 1
  <2>1. s \in Int /\ Congruent(l, s, p) /\ t \in Int /\ Congruent(t, one, p) /\ one \in Int
    BY <1>5, <1>6, <1>7
  <2>2. s * e = v * t /\ v * one = v
    BY <1>5, <1>6
  <2> HIDE DEF s, t, one
  <2>0. Congruent(v, v, p) /\ Congruent(e, e, p)
    BY <1>1, <1>5, Reckoning
  <2>3. Congruent(l * e, s * e, p) /\ l * e \in Int /\ s * e \in Int
    BY <1>1, <1>5, <1>7, <2>0, <2>1, Product
  <2>4. Congruent(v * t, v * one, p)
    BY <1>1, <1>5, <2>0, <2>1, Product
  <2>5. Congruent(le, v, p)
    <3> DEFINE i == s * e
    <3>1. le \in Int /\ i \in Int /\ Congruent(le, i, p) /\ Congruent(i, v, p)
      BY <2>2, <2>3, <2>4
    <3> HIDE DEF le, i
    <3> QED BY <1>1, <1>5, <3>1, Reckoning
  <2>6. le = 2 * (a2 * l) /\ v = 3 * (a1 * a1 - 1)
    BY <1>1, <1>7 DEF e, v
  <2> QED BY <2>5, <2>6
<1>9. x \in Int /\ Congruent(x, l * l - 2 * a1, p)
  <2> DEFINE i == l * l - a1 - a1
  <2>1. i \in Int /\ i = l * l - 2 * a1
    BY <1>1, <1>7
  <2> HIDE DEF i
  <2>2. i % p \in Int /\ Congruent(i % p, i, p)
    BY <1>1, <2>1, Reckoning
  <2>3. x = i % p
    BY DEF i
  <2> QED BY <2>1, <2>2, <2>3
<1> HIDE DEF x
<1>10. Congruent(y, l * (a1 - x) - a2, p)
  <2> DEFINE i == l * (a1 - x) - a2
  <2>1. i \in Int
    BY <1>1, <1>7, <1>9
  <2> HIDE DEF i
  <2>2. i % p \in Int /\ Congruent(i % p, i, p)
    BY <1>1, <2>1, Reckoning
  <2> QED BY <2>2 DEF i
<1>11. Tangent(A, <<x, y>>, l, c)
  BY <1>8, <1>9, <1>10 DEF Tangent, a1, a2, p
<1> QED BY <1>4, <1>7, <1>11

(* n is prime: a product is congruent to 0 modulo n only if a factor is.   *)
LEMMA OrderNotZero ==
  ASSUME NEW c \in Curves, NEW x \in Int, NEW y \in Int
  PROVE  Congruent(x * y, 0, c.n) <=> Congruent(x, 0, c.n) \/ Congruent(y, 0, c.n)
<1> DEFINE n == c.n
           none == 0
           xy == x * y
<1>1. n \in Nat \ {0} /\ 2 < n /\ none \in Int /\ xy \in Int /\ c.num_words \in Nat /\ c.num_words \in Nat \ {0}
      /\ n < BaseTo(c.num_words) /\ BaseTo(c.num_words) \in Nat
  BY CurveFacts
<1>2. ASSUME Congruent(xy, none, n), ~Congruent(x, none, n) PROVE Congruent(y, none, n)
  <2> DEFINE r == x % n
             in == ToWords(r, c)
             mod == Modulus(n, c)
             i == Value(vli_modInv(in, mod))
             one == 1
  <2>1. r \in 0..(n - 1) /\ r \in Int /\ Congruent(r, x, n) /\ Congruent(x, r, n)
    <3>1. r \in 0..(n - 1) /\ r \in Int /\ Congruent(r, x, n)
      BY <1>1, Reckoning
    <3> QED BY <1>1, <3>1, Reckoning
  <2> HIDE DEF none, r
  <2>2. r # none
    <3>1. r = none => Congruent(x, none, n)
      BY <2>1
    <3> QED BY <1>2, <3>1
  <2>3. 0 < r /\ r < n /\ r \in Nat
    BY <1>1, <2>1, <2>2 DEF none
  <2>4. Coprime(r, n)
    BY <2>3, OrderCoprime
  <2>5. in \in Vlis(c.num_words) /\ Value(in) = r
    <3>1. r \in 0..(BaseTo(c.num_words) - 1)
      BY <1>1, <2>3
    <3> QED BY <2>1, <3>1, InWordsExact DEF VlisOf
  <2>6. mod \in Vlis(c.num_words) /\ Value(mod) = n /\ ~Even(mod)
    BY OrderExact DEF VlisOf
  <2>7. vli_modInv(in, mod) \in Vlis(c.num_words) /\ Congruent(i * r, one, n)
    <3> HIDE DEF in, mod
    <3>1. 1 < Value(mod) /\ 0 < Value(in) /\ Value(in) < Value(mod) /\ Coprime(Value(in), Value(mod))
      BY <1>1, <2>3, <2>4, <2>5, <2>6
    <3> QED BY <1>1, <2>5, <2>6, <3>1, ModInvExact
  <2>8. i \in Int
    BY <1>1, <2>7, ValueBound
  <2> HIDE DEF i, n
  <2>9. Congruent(i, i, n) /\ Congruent(y, y, n) /\ one \in Int
    <3>1. n \in Nat \ {0}
      BY <1>1
    <3> QED BY <2>8, <3>1, Reckoning
  <2> DEFINE ir == i * r
             ix == i * x
             ry == r * y
  <2>10. Congruent(i * r, i * x, n) /\ ir \in Int /\ ix \in Int
    BY <1>1, <2>1, <2>8, <2>9, Product
  <2>11. Congruent(ix, one, n)
    <3>1. Congruent(ir, ix, n) /\ Congruent(ir, one, n)
      BY <2>7, <2>10
    <3> HIDE DEF ir, ix, one
    <3>2. Congruent(ix, ir, n)
      BY <1>1, <2>10, <3>1, Reckoning
    <3> QED BY <1>1, <2>9, <2>10, <3>1, <3>2, Reckoning
  <2>12. Congruent(ix * y, one * y, n) /\ ix * y \in Int
    <3> HIDE DEF ix, one
    <3> QED BY <1>1, <2>9, <2>10, <2>11, Product
  <2>13. Congruent(i * xy, i * none, n) /\ i * xy \in Int
    <3> HIDE DEF xy
    <3> QED BY <1>1, <1>2, <2>8, <2>9, Product
  <2>14. ix * y = i * xy /\ one * y = y /\ i * none = none
    BY <2>8 DEF none
  <2> DEFINE e == i * xy
  <2>15. e \in Int /\ Congruent(e, y, n) /\ Congruent(e, none, n)
    BY <2>12, <2>13, <2>14
  <2> HIDE DEF e
  <2>16. Congruent(y, e, n)
    BY <1>1, <2>15, Reckoning
  <2> QED BY <1>1, <2>15, <2>16, Reckoning
<1>3. ASSUME Congruent(x, none, n) \/ Congruent(y, none, n) PROVE Congruent(xy, none, n)
  <2>1. none * y = none /\ x * none = none
    OBVIOUS
  <2> HIDE DEF none, n
  <2>2. Congruent(x, x, n) /\ Congruent(y, y, n)
    BY <1>1, Reckoning
  <2>3. CASE Congruent(x, none, n)
    <3>1. Congruent(x * y, none * y, n)
      BY <1>1, <2>2, <2>3, Product
    <3> QED BY <2>1, <3>1
  <2>4. CASE Congruent(y, none, n)
    <3>1. Congruent(x * y, x * none, n)
      BY <1>1, <2>2, <2>4, Product
    <3> QED BY <2>1, <3>1
  <2> QED BY <1>3, <2>3, <2>4
<1> QED BY <1>2, <1>3 DEF none, n, xy

(* n is odd and more than 2.                                               *)
LEMMA OrderSmall ==
  ASSUME NEW c \in Curves
  PROVE  /\ ~Congruent(1, 0, c.n) /\ ~Congruent(2, 0, c.n)
         /\ \E h \in Nat : c.n = 2 * h + 1
<1> DEFINE n == c.n
           none == 0
           one == 1
           two == 2
<1>1. n \in Nat \ {0} /\ 2 < n
  BY CurveFacts
<1>2. none \in 0..(n - 1) /\ one \in 0..(n - 1) /\ two \in 0..(n - 1)
      /\ none \in Int /\ one \in Int /\ two \in Int /\ one # none /\ two # none
  BY <1>1
<1>3. ~Congruent(one, none, n) /\ ~Congruent(two, none, n)
  <2> HIDE DEF none, one, two, n
  <2> QED BY <1>1, <1>2, SameRemainder
<1>4. \E h \in Nat : n = 2 * h + 1
  <2>1. Prime(n)
    BY CurveAssumption
  <2>2. n % 2 # 0
    BY <1>1, <2>1 DEF Prime
  <2> HIDE DEF n
  <2>3. n = 2 * (n \div 2) + 1 /\ n \div 2 \in Nat
    BY <1>1, <2>2
  <2> QED BY <2>3
<1> QED BY <1>3, <1>4

(* The equation of the curve.                                              *)
LEMMA OnCurve ==
  ASSUME NEW c \in Curves, NEW A \in Points(c), uECC_valid_point(A, c)
  PROVE  /\ Congruent(A[2] * A[2], (A[1] * A[1] - 3) * A[1] + c.b, c.p)
         /\ A # Zero
<1> DEFINE p == c.p
           l2 == A[2] * A[2]
           r2 == (A[1] * A[1] - 3) * A[1] + c.b
<1>1. p \in Nat \ {0} /\ A[1] \in Int /\ A[2] \in Int /\ c.b \in Int
  BY FieldFacts, Coordinates, CurveFacts
<1>2. l2 % p = r2 % p /\ A # Zero
  BY DEF uECC_valid_point, x_side, EccPoint_isZero, Infinity, Zero
<1>3. l2 \in Int /\ r2 \in Int
  BY <1>1
<1> HIDE DEF l2, r2, p
<1>4. Congruent(l2, r2, p)
  BY <1>1, <1>2, <1>3, SameRemainder
<1> QED BY <1>2, <1>4 DEF l2, r2, p

(* Points of the curve with the same x are equal or opposite.              *)
LEMMA SameSquare ==
  ASSUME NEW c \in Curves, NEW A \in Points(c), NEW B \in Points(c),
         uECC_valid_point(A, c), uECC_valid_point(B, c), A[1] = B[1]
  PROVE  A = B \/ Congruent(B[2], -A[2], c.p)
<1> DEFINE p == c.p
           u == A[2]
           v == B[2]
           r == (A[1] * A[1] - 3) * A[1] + c.b
           none == 0
<1>1. p \in Nat \ {0} /\ u \in Int /\ v \in Int /\ r \in Int /\ none \in Int
  <2>1. p \in Nat \ {0} /\ A[1] \in Int /\ A[2] \in Int /\ B[2] \in Int /\ c.b \in Int
    BY FieldFacts, Coordinates, CurveFacts
  <2> QED BY <2>1
<1>2. Congruent(u * u, r, p) /\ Congruent(v * v, r, p)
  BY OnCurve
<1>3. A = <<A[1], u>> /\ B = <<B[1], v>> /\ (Congruent(u, v, p) <=> u = v)
  BY Coordinates
<1> HIDE DEF u, v, r, p, none
<1>4. Congruent((v - u) * (v + u), none, p)
  <2> DEFINE uu == u * u
             vv == v * v
  <2>1. uu \in Int /\ vv \in Int /\ Congruent(uu, r, p) /\ Congruent(vv, r, p)
        /\ (v - u) * (v + u) = vv - uu
    BY <1>1, <1>2
  <2> HIDE DEF uu, vv
  <2>2. Congruent(vv - uu, r - r, p) /\ r - r = none
    BY <1>1, <2>1, Difference DEF none
  <2> QED BY <2>1, <2>2
<1> DEFINE s == v - u
           t == v + u
<1>5. s \in Int /\ t \in Int /\ s + u = v /\ none + u = u /\ t - u = v /\ none - u = -u
  BY <1>1 DEF none
<1>6. Congruent(s, none, p) \/ Congruent(t, none, p)
  <2> HIDE DEF s, t
  <2> QED BY <1>1, <1>4, <1>5, NotZero DEF none, p, s, t
<1> HIDE DEF s, t
<1>7. Congruent(u, u, p)
  BY <1>1, Reckoning
<1>8. CASE Congruent(s, none, p)
  <2>1. Congruent(s + u, none + u, p)
    BY <1>1, <1>5, <1>7, <1>8, Difference
  <2>2. Congruent(u, v, p)
    BY <1>1, <1>5, <2>1, Reckoning, ZenonT(60)
  <2> QED BY <1>3, <2>2
<1>9. CASE Congruent(t, none, p)
  <2>1. Congruent(t - u, none - u, p)
    BY <1>1, <1>5, <1>7, <1>9, Difference
  <2> QED BY <1>5, <2>1 DEF u, v, p
<1> QED BY <1>6, <1>8, <1>9

(* The case of the group law for A + B = Zero that leaves A and -B with    *)
(* different x does not happen: their sum would be <<0, 0>> computed.      *)
LEMMA NoFalseZero ==
  ASSUME NEW c \in Curves, NEW A \in Points(c), NEW B \in Points(c),
         uECC_valid_point(A, c), uECC_valid_point(B, c), A[1] # B[1]
  PROVE  Plus(A, B, c) # Zero
<1> DEFINE p == c.p
           x == A[1]
           y == A[2]
           u == B[1]
           v == B[2]
           b == c.b
           none == 0
<1>1. p \in Nat \ {0} /\ x \in Int /\ y \in Int /\ u \in Int /\ v \in Int /\ b \in Int /\ none \in Int
  BY FieldFacts, Coordinates, CurveFacts
<1> SUFFICES ASSUME Plus(A, B, c) = Zero PROVE FALSE
  OBVIOUS
<1>2. PICK l \in Int : Chord(A, B, Plus(A, B, c), l, c)
  BY OnCurve, PlusChord
<1>3. /\ Congruent(v - y, l * (u - x), p)
      /\ Congruent(0, l * l - x - u, p)
      /\ Congruent(0, l * (x - 0) - y, p)
  BY <1>2 DEF Chord, Zero
<1>4. /\ Congruent(y * y, (x * x - 3) * x + b, p)
      /\ Congruent(v * v, (u * u - 3) * u + b, p)
  BY OnCurve
<1>5. ~Congruent(u - x, none, p)
  BY Coordinates
<1> HIDE DEF p, x, y, u, v, b
(* The congruences above as equations over the integers.                   *)
<1>6. PICK q1 \in Int : v - y = l * (u - x) + q1 * p
  BY <1>3 DEF Congruent
<1>7. PICK q2 \in Int : l * l = x + u - q2 * p
  <2>1. PICK q \in Int : 0 = l * l - x - u + q * p
    BY <1>3 DEF Congruent
  <2>2. l * l \in Int /\ q * p \in Int
    BY <1>1
  <2>3. l * l = x + u - q * p
    BY <1>1, <2>1, <2>2
  <2> QED BY <2>3
<1>8. PICK q3 \in Int : y = l * x + q3 * p
  <2>1. PICK q \in Int : 0 = l * (x - 0) - y + q * p
    BY <1>3 DEF Congruent
  <2>2. l * (x - 0) = l * x /\ l * x \in Int /\ q * p \in Int
    BY <1>1
  <2>3. y = l * x + q * p
    BY <1>1, <2>1, <2>2
  <2> QED BY <2>3
<1>9. PICK q4 \in Int : y * y = (x * x - 3) * x + b + q4 * p
  BY <1>4 DEF Congruent
<1>10. PICK q5 \in Int : v * v = (u * u - 3) * u + b + q5 * p
  BY <1>4 DEF Congruent
<1>11. v = l * u + (q1 + q3) * p
  <2>1. l * (u - x) = l * u - l * x /\ l * u \in Int /\ l * x \in Int
    BY <1>1
  <2>2. q1 * p \in Int /\ q3 * p \in Int /\ (q1 + q3) * p = q1 * p + q3 * p
    BY <1>1
  <2> QED BY <1>1, <1>6, <1>8, <2>1, <2>2
(* y^2 = l^2 x^2 = (x + u) x^2, and so for v; what is left is b.           *)
<1>12. \A i1, i2, i3, i4, i5, i6, i7 \in Int :
         i4 * i4 = i1 + i2 - i5 * i6 =>
           (i4 * i1 + i7 * i6) * (i4 * i1 + i7 * i6)
             = (i1 + i2) * (i1 * i1) + (2 * (i4 * i1 * i7) + i7 * i7 * i6 - i5 * (i1 * i1)) * i6
  <2> SUFFICES ASSUME NEW i1 \in Int, NEW i2 \in Int, NEW i4 \in Int, NEW i5 \in Int, NEW i6 \in Int, NEW i7 \in Int,
                      i4 * i4 = i1 + i2 - i5 * i6
               PROVE  (i4 * i1 + i7 * i6) * (i4 * i1 + i7 * i6)
                        = (i1 + i2) * (i1 * i1) + (2 * (i4 * i1 * i7) + i7 * i7 * i6 - i5 * (i1 * i1)) * i6
    OBVIOUS
  <2>1. (i4 * i1 + i7 * i6) * (i4 * i1 + i7 * i6)
          = (i4 * i4) * (i1 * i1) + (2 * (i4 * i1 * i7) + i7 * i7 * i6) * i6
    OBVIOUS
  <2>2. (i1 + i2 - i5 * i6) * (i1 * i1) = (i1 + i2) * (i1 * i1) - (i5 * (i1 * i1)) * i6
    OBVIOUS
  <2>3. (2 * (i4 * i1 * i7) + i7 * i7 * i6 - i5 * (i1 * i1)) * i6
          = (2 * (i4 * i1 * i7) + i7 * i7 * i6) * i6 - (i5 * (i1 * i1)) * i6
    OBVIOUS
  <2> DEFINE m1 == (i4 * i4) * (i1 * i1)
             m2 == (2 * (i4 * i1 * i7) + i7 * i7 * i6) * i6
             m3 == (i5 * (i1 * i1)) * i6
             m4 == (i1 + i2) * (i1 * i1)
  <2>4. m1 \in Int /\ m2 \in Int /\ m3 \in Int /\ m4 \in Int /\ m1 = m4 - m3
    BY <2>2
  <2> HIDE DEF m1, m2, m3, m4
  <2>5. m1 + m2 = m4 + (m2 - m3)
    BY <2>4
  <2> QED BY <2>1, <2>3, <2>5 DEF m1, m2, m3, m4
<1>13. PICK q6 \in Int : u * (x * x) = b - 3 * x + q6 * p
  <2> DEFINE q == 2 * (l * x * q3) + q3 * q3 * p - q2 * (x * x)
  <2>1. q \in Int
    BY <1>1
  <2>2. y * y = (x + u) * (x * x) + q * p
    <3>1. (l * x + q3 * p) * (l * x + q3 * p) = (x + u) * (x * x) + q * p
      BY <1>1, <1>7, <1>12
    <3> QED BY <1>8, <3>1
  <2>3. (x * x - 3) * x = x * (x * x) - 3 * x /\ (x + u) * (x * x) = x * (x * x) + u * (x * x)
        /\ x * (x * x) \in Int /\ u * (x * x) \in Int
    BY <1>1
  <2> HIDE DEF q
  <2>4. q * p \in Int /\ q4 * p \in Int /\ (q4 - q) * p = q4 * p - q * p
    BY <1>1, <2>1
  <2>5. u * (x * x) = b - 3 * x + (q4 - q) * p /\ q4 - q \in Int
    BY <1>1, <1>9, <2>1, <2>2, <2>3, <2>4
  <2> QED BY <2>5
<1>14. PICK q7 \in Int : x * (u * u) = b - 3 * u + q7 * p
  <2> DEFINE s == q1 + q3
             q == 2 * (l * u * s) + s * s * p - q2 * (u * u)
  <2>0. s \in Int
    BY <1>1
  <2> HIDE DEF s
  <2>1. q \in Int
    BY <1>1, <2>0
  <2>2. v * v = (u + x) * (u * u) + q * p
    <3>1. l * l = u + x - q2 * p
      BY <1>1, <1>7
    <3>2. (l * u + s * p) * (l * u + s * p) = (u + x) * (u * u) + q * p
      BY <1>1, <2>0, <3>1, <1>12
    <3> QED BY <1>11, <3>2 DEF s
  <2>3. (u * u - 3) * u = u * (u * u) - 3 * u /\ (u + x) * (u * u) = u * (u * u) + x * (u * u)
        /\ u * (u * u) \in Int /\ x * (u * u) \in Int
    BY <1>1
  <2> HIDE DEF q
  <2>4. q * p \in Int /\ q5 * p \in Int /\ (q5 - q) * p = q5 * p - q * p
    BY <1>1, <2>1
  <2>5. x * (u * u) = b - 3 * u + (q5 - q) * p /\ q5 - q \in Int
    BY <1>1, <1>10, <2>1, <2>2, <2>3, <2>4
  <2> QED BY <2>5
<1>15. Congruent(u * x, -3, p)
  <2> DEFINE w == u - x
             ux == u * x
             m3 == -3
  <2>1. w \in Int /\ ux \in Int /\ m3 \in Int
    BY <1>1
  <2>2. w * ux = x * (u * u) - u * (x * x) /\ w * m3 = 3 * x - 3 * u
    BY <1>1
  <2>3. w * ux = w * m3 + (q7 - q6) * p /\ q7 - q6 \in Int
    <3>1. (q7 - q6) * p = q7 * p - q6 * p /\ q7 * p \in Int /\ q6 * p \in Int
      BY <1>1
    <3>2. w * ux = (b - 3 * u + q7 * p) - (b - 3 * x + q6 * p)
      BY <1>13, <1>14, <2>2
    <3> HIDE DEF w, ux, m3
    <3> QED BY <1>1, <2>2, <3>1, <3>2
  <2>4. Congruent(w * ux, w * m3, p)
    BY <2>3 DEF Congruent
  <2>5. ~Congruent(w, 0, p)
    BY <1>5
  <2>6. Congruent(ux, m3, p)
    <3> HIDE DEF w, ux, m3
    <3> QED BY <2>1, <2>4, <2>5, Cancelled DEF p
  <2> QED BY <2>6
<1>16. Congruent(b, 0, p)
  <2>1. PICK q8 \in Int : u * x = -3 + q8 * p
    BY <1>15 DEF Congruent
  <2>2. u * (x * x) = (u * x) * x /\ (-3 + q8 * p) * x = -3 * x + (q8 * x) * p /\ q8 * x \in Int
    BY <1>1
  <2> DEFINE e == q8 * x
             ep == e * p
  <2>3. e \in Int /\ u * (x * x) = -3 * x + ep /\ ep \in Int /\ q6 * p \in Int
        /\ (e - q6) * p = ep - q6 * p
    BY <1>1, <2>1, <2>2
  <2> DEFINE uxx == u * (x * x)
  <2>4. uxx = b - 3 * x + q6 * p /\ uxx = -3 * x + ep
    BY <1>13, <2>3
  <2> HIDE DEF e, ep, uxx
  <2>5. b = 0 + (e - q6) * p /\ e - q6 \in Int
    BY <1>1, <2>3, <2>4
  <2> QED BY <2>5 DEF Congruent
<1>17. b % p # 0
  BY GroupAssumption DEF b, p
<1>18. none \in 0..(p - 1) /\ Congruent(b, none, p)
  BY <1>1, <1>16
<1> HIDE DEF none
<1>19. b % p = none % p /\ none % p = none
  BY <1>1, <1>18, SameRemainder
<1> QED BY <1>17, <1>19 DEF none

(* The opposite of a multiple has the same x, and another y, which is not  *)
(* 0.                                                                      *)
LEMMA MulNegative ==
  ASSUME NEW c \in Curves, NEW i \in Int, ~Congruent(i, 0, c.n)
  PROVE  /\ ~Congruent(-i, 0, c.n)
         /\ Mul(-i, c)[1] = Mul(i, c)[1]
         /\ Congruent(Mul(-i, c)[2], -(Mul(i, c)[2]), c.p)
         /\ Mul(i, c)[2] # 0
<1> DEFINE n == c.n
           A == Mul(i, c)
           B == Mul(-i, c)
           j == -i
<1>1. n \in Nat \ {0} /\ j \in Int /\ i + j = 0 /\ -j = i
  BY CurveFacts
<1>2. ~Congruent(j, 0, n)
  <2>1. ASSUME Congruent(j, 0, n) PROVE FALSE
    <3>1. PICK q \in Int : j = 0 + q * n
      BY <2>1 DEF Congruent
    <3>2. i = 0 + (-q) * n /\ -q \in Int
      <4> DEFINE qn == q * n
      <4>1. qn \in Int /\ (-q) * n = -qn /\ -q \in Int /\ -i = 0 + qn
        BY <1>1, <3>1
      <4> HIDE DEF qn
      <4>2. i = -qn
        BY <4>1
      <4> QED BY <4>1, <4>2
    <3> QED BY <3>2 DEF Congruent
  <2> QED BY <2>1
<1>3. A \in Points(c) /\ B \in Points(c) /\ uECC_valid_point(A, c) /\ uECC_valid_point(B, c)
  BY <1>1, <1>2, MulFacts
<1>4. Plus(A, B, c) = Zero
  <2>1. Plus(A, B, c) = Mul(0, c)
    BY <1>1, MulFacts
  <2>2. Congruent(0, 0, n)
    BY <1>1, Reckoning
  <2> QED BY <1>1, <2>1, <2>2, MulFacts
<1>5. A[1] = B[1]
  BY <1>3, <1>4, NoFalseZero
<1>6. A # B
  <2>1. ASSUME A = B PROVE FALSE
    <3>1. Congruent(i, j, n)
      BY <1>1, <2>1, MulFacts
    <3>2. PICK q \in Int : i = -i + q * n
      BY <3>1 DEF Congruent
    <3>3. 2 * i = 0 + q * n /\ 2 * i \in Int
      <4> DEFINE qn == q * n
      <4>1. qn \in Int /\ i = -i + qn
        BY <1>1, <3>2
      <4> HIDE DEF qn
      <4>2. 2 * i = 0 + qn /\ 2 * i \in Int
        BY <4>1
      <4> QED BY <4>2 DEF qn
    <3>4. Congruent(2 * i, 0, n)
      BY <3>3 DEF Congruent
    <3> QED BY <3>4, OrderNotZero, OrderSmall
  <2> QED BY <2>1
<1>7. Congruent(B[2], -A[2], c.p)
  BY <1>3, <1>5, <1>6, SameSquare
<1>8. A[2] # 0
  <2>1. ASSUME A[2] = 0 PROVE FALSE
    <3>1. Congruent(B[2], 0, c.p)
      BY <1>7, <2>1
    <3>2. B[2] = 0
      BY <1>3, <3>1, Coordinates
    <3> QED BY <1>3, <1>5, <1>6, <2>1, <3>2, Coordinates
  <2> QED BY <2>1
<1> QED BY <1>2, <1>5, <1>7, <1>8

(* Congruence to 0 of sums and differences.                                *)
LEMMA CongruentZero ==
  ASSUME NEW m \in Nat \ {0}, NEW x \in Int, NEW y \in Int
  PROVE  /\ Congruent(x - y, 0, m) <=> Congruent(x, y, m)
         /\ Congruent(x + y, 0, m) <=> Congruent(x, -y, m)
         /\ Congruent(-x, 0, m) <=> Congruent(x, 0, m)
<1>1. ASSUME NEW u \in Int, NEW v \in Int PROVE Congruent(u - v, 0, m) <=> Congruent(u, v, m)
  <2>1. \A q \in Int : q * m \in Int
    OBVIOUS
  <2>2. \A q \in Int : u - v = 0 + q * m <=> u = v + q * m
    BY <2>1
  <2> QED BY <2>2 DEF Congruent
<1>2. -y \in Int /\ x - (-y) = x + y /\ 0 - x = -x /\ 0 \in Int
  OBVIOUS
<1>3. Congruent(x + y, 0, m) <=> Congruent(x, -y, m)
  BY <1>1, <1>2
<1>4. Congruent(-x, 0, m) <=> Congruent(0, x, m)
  BY <1>1, <1>2
<1>5. Congruent(0, x, m) <=> Congruent(x, 0, m)
  BY <1>2, Reckoning
<1> QED BY <1>1, <1>3, <1>4, <1>5

(* Multiples have the same x only if they are equal or opposite.           *)
LEMMA MulDistinct ==
  ASSUME NEW c \in Curves, NEW i \in Int, NEW j \in Int,
         ~Congruent(i, 0, c.n), ~Congruent(j, 0, c.n)
  PROVE  Mul(i, c)[1] = Mul(j, c)[1] <=> Congruent(i - j, 0, c.n) \/ Congruent(i + j, 0, c.n)
<1> DEFINE n == c.n
           A == Mul(i, c)
           B == Mul(j, c)
           C == Mul(-i, c)
<1>1. n \in Nat \ {0} /\ c.p \in Nat \ {0} /\ -i \in Int
  BY CurveFacts, FieldFacts
<1>2. /\ A \in Points(c) /\ B \in Points(c) /\ C \in Points(c)
      /\ uECC_valid_point(A, c) /\ uECC_valid_point(B, c)
      /\ C[1] = A[1] /\ Congruent(C[2], -A[2], c.p)
  BY <1>1, MulFacts, MulNegative
<1>3. ASSUME A[1] = B[1] PROVE Congruent(i - j, 0, n) \/ Congruent(i + j, 0, n)
  <2>1. CASE A = B
    <3>1. Congruent(i, j, n)
      BY <2>1, MulFacts
    <3> QED BY <1>1, <3>1, CongruentZero
  <2>2. CASE Congruent(B[2], -A[2], c.p)
    <3>1. B = C
      <4>1. -A[2] \in Int /\ B[2] \in Int /\ C[2] \in Int
        BY <1>2, Coordinates
      <4>2. Congruent(B[2], C[2], c.p)
        <5> DEFINE u == B[2]
                   v == C[2]
                   w == -A[2]
        <5>1. u \in Int /\ v \in Int /\ w \in Int /\ Congruent(u, w, c.p) /\ Congruent(v, w, c.p)
          BY <1>2, <2>2, <4>1
        <5> HIDE DEF u, v, w
        <5>2. Congruent(w, v, c.p)
          BY <1>1, <5>1, Reckoning
        <5>3. Congruent(u, v, c.p)
          BY <1>1, <5>1, <5>2, Reckoning
        <5> QED BY <5>3 DEF u, v
      <4>3. B[2] = C[2]
        BY <1>2, <4>2, Coordinates
      <4> QED BY <1>2, <1>3, <4>3, Coordinates
    <3>2. Congruent(j, -i, n)
      BY <1>1, <3>1, MulFacts
    <3>3. Congruent(j + i, 0, n) /\ j + i = i + j
      BY <1>1, <3>2, CongruentZero
    <3> QED BY <3>3
  <2> QED BY <1>2, <1>3, <2>1, <2>2, SameSquare
<1>4. ASSUME Congruent(i - j, 0, n) PROVE A[1] = B[1]
  <2>1. Congruent(i, j, n)
    BY <1>1, <1>4, CongruentZero
  <2> QED BY <2>1, MulFacts
<1>5. ASSUME Congruent(i + j, 0, n) PROVE A[1] = B[1]
  <2>1. i + j = j + i
    OBVIOUS
  <2>2. Congruent(j, -i, n)
    BY <1>1, <1>5, <2>1, CongruentZero
  <2>3. B = C
    BY <1>1, <2>2, MulFacts
  <2> QED BY <1>2, <2>3
<1> QED BY <1>3, <1>4, <1>5

(* The lines through multiples give their sums.                            *)
LEMMA MulChord ==
  ASSUME NEW c \in Curves, NEW i \in Int, NEW j \in Int,
         ~Congruent(i, 0, c.n), ~Congruent(j, 0, c.n), Mul(i, c)[1] # Mul(j, c)[1]
  PROVE  \E l \in Int : Chord(Mul(i, c), Mul(j, c), Mul(i + j, c), l, c)
<1>1. /\ Mul(i, c) \in Points(c) /\ Mul(j, c) \in Points(c)
      /\ Mul(i, c) # Zero /\ Mul(j, c) # Zero
      /\ Plus(Mul(i, c), Mul(j, c), c) = Mul(i + j, c)
  BY MulFacts
<1> QED BY <1>1, PlusChord

(* Twice a multiple lies on the tangent.                                   *)
LEMMA MulTangent ==
  ASSUME NEW c \in Curves, NEW i \in Int, ~Congruent(i, 0, c.n)
  PROVE  \E l \in Int : Tangent(Mul(i, c), Mul(2 * i, c), l, c)
<1>1. Mul(i, c) \in Points(c) /\ Mul(i, c)[2] # 0
  BY MulFacts, MulNegative
<1>2. i + i = 2 * i
  OBVIOUS
<1>3. Plus(Mul(i, c), Mul(i, c), c) = Mul(2 * i, c)
  BY <1>2, MulFacts
<1> QED BY <1>1, <1>3, PlusTangent

(* Multiple() of a multiple.                                               *)
LEMMA MultipleOfMul ==
  ASSUME NEW c \in Curves, NEW a \in Int, NEW m \in Nat
  PROVE  Multiple(m, Mul(a, c), c) = Mul(m * a, c)
<1> DEFINE A == Mul(a, c)
           f(i) == Multiple(i, A, c)
           S == {i \in Nat : \A j \in Nat : j <= i => f(j) = Mul(j * a, c)}
<1>1. f(0) = Mul(0 * a, c)
  <2>1. c.n \in Nat \ {0} /\ 0 \in Int /\ 0 * a = 0
    BY CurveFacts
  <2>2. Congruent(0, 0, c.n)
    BY <2>1, Reckoning
  <2>3. Mul(0, c) = Zero
    BY <2>2, MulFacts
  <2> QED BY <2>1, <2>3, MultipleDefined
<1>2. 0 \in S
  <2> HIDE DEF f
  <2> QED BY <1>1
<1>3. ASSUME NEW i \in S PROVE i + 1 \in S
  <2> SUFFICES ASSUME NEW j \in Nat, j <= i + 1, j # 0 PROVE f(j) = Mul(j * a, c)
    <3> HIDE DEF f
    <3> QED BY <1>1
  <2> DEFINE h == j \div 2
             ha == h * a
             even == Plus(f(h), f(h), c)
  <2>1. h \in Nat /\ h <= i /\ (j % 2 = 0 => j = h + h) /\ (j % 2 # 0 => j % 2 = 1 /\ j = h + h + 1)
    OBVIOUS
  <2>2. f(j) = IF j % 2 = 1 THEN Plus(A, even, c) ELSE even
    BY MultipleDefined
  <2>3. f(h) = Mul(ha, c) /\ ha \in Int
    <3> HIDE DEF f, h
    <3> QED BY <2>1
  <2> HIDE DEF f
  <2>4. even = Mul(ha + ha, c)
    <3> HIDE DEF ha
    <3> QED BY <2>3, MulFacts
  <2>5. CASE j % 2 = 0
    <3>1. ha + ha = j * a
      <4> HIDE DEF h
      <4> QED BY <2>1, <2>5
    <3> QED BY <2>2, <2>4, <2>5, <3>1
  <2>6. CASE j % 2 # 0
    <3>1. a + (ha + ha) = j * a
      <4> HIDE DEF h
      <4>1. j * a = (h + h + 1) * a
        BY <2>1, <2>6
      <4> QED BY <2>1, <4>1
    <3>2. Plus(A, Mul(ha + ha, c), c) = Mul(a + (ha + ha), c)
      <4> HIDE DEF ha
      <4>1. ha + ha \in Int
        BY <2>3
      <4> QED BY <4>1, MulFacts
    <3> QED BY <2>1, <2>2, <2>4, <2>6, <3>1, <3>2
  <2> QED BY <2>5, <2>6
<1> HIDE DEF S
<1>4. S \in SUBSET Nat
  BY DEF S
<1>5. S = Nat
  BY <1>2, <1>3, <1>4, SetInduction
<1>6. m \in S
  BY <1>5
<1> QED BY <1>6 DEF S

(* The point below the x axis.                                             *)
LEMMA ScaledMinus ==
  ASSUME NEW c \in Curves, NEW J \in Ints2, NEW i \in Int, ~Congruent(i, 0, c.n), NEW z \in Int,
         Scaled(J, Mul(i, c), z, c)
  PROVE  Scaled(<<J[1], -J[2]>>, Mul(-i, c), z, c)
<1> DEFINE p == c.p
           A == Mul(i, c)
           B == Mul(-i, c)
           x == A[1]
           y == A[2]
           j1 == J[1]
           j2 == J[2]
           z2 == z * z
           z3 == z * z * z
           neg == <<x, -y>>
           minus == <<j1, -j2>>
<1>1. p \in Nat \ {0} /\ j1 \in Int /\ j2 \in Int /\ -i \in Int
  BY FieldFacts DEF Ints2
<1>2. A \in Points(c) /\ B \in Points(c)
  BY <1>1, MulFacts
<1>3. x \in Int /\ y \in Int /\ z2 \in Int /\ z3 \in Int /\ B \in Ints2 /\ B[2] \in Int
  BY <1>2, Coordinates
<1>4. B[1] = x /\ Congruent(B[2], -y, p)
  BY MulNegative
<1>5. Congruent(j1, x * z2, p) /\ Congruent(j2, y * z3, p)
  BY DEF Scaled
<1> HIDE DEF A, B, x, y, j1, j2, p, z2, z3
<1>6. Congruent(-j2, (-y) * z3, p)
  <2>1. PICK q \in Int : j2 = y * z3 + q * p
    BY <1>5 DEF Congruent
  <2> DEFINE qp == q * p
             yz == y * z3
  <2>2. qp \in Int /\ yz \in Int /\ (-y) * z3 = -yz /\ (-q) * p = -qp /\ j2 = yz + qp
    BY <1>1, <1>3, <2>1
  <2> HIDE DEF qp, yz
  <2>3. -j2 = (-yz) + (-qp)
    BY <2>2
  <2>4. -j2 = (-y) * z3 + (-q) * p /\ -q \in Int
    BY <2>2, <2>3
  <2> QED BY <2>4 DEF Congruent
<1>7. Scaled(minus, neg, z, c) /\ minus \in Ints2 /\ neg \in Ints2
  BY <1>1, <1>3, <1>5, <1>6 DEF Scaled, Ints2, p, z2, z3
<1>8. Congruent(z, z, p) /\ Congruent(x, x, p) /\ Congruent(-y, B[2], p) /\ neg[1] = x /\ neg[2] = -y
  <2> DEFINE u == -y
             v == B[2]
  <2>1. u \in Int /\ v \in Int /\ Congruent(v, u, p)
    BY <1>3, <1>4
  <2> HIDE DEF u, v
  <2>2. Congruent(u, v, p) /\ Congruent(z, z, p) /\ Congruent(x, x, p)
    BY <1>1, <1>3, <2>1, Reckoning
  <2> QED BY <2>2 DEF u, v
<1>9. Scaled(minus, B, z, c)
  <2> HIDE DEF minus, neg
  <2> QED BY <1>3, <1>4, <1>7, <1>8, ScaledSame DEF p
<1> QED BY <1>9 DEF B, j1, j2

-----------------------------------------------------------------------------
(* The formulas on multiples of G.                                         *)

(* apply_z() scales.                                                       *)
LEMMA ApplyZScaled ==
  ASSUME NEW c \in Curves, NEW A \in Ints2, NEW z \in Int
  PROVE  Scaled(apply_z(A, z, c), A, z, c) /\ apply_z(A, z, c) \in Points(c)
<1> DEFINE p == c.p
           x == A[1]
           y == A[2]
           z2 == z * z
           z3 == z * z * z
           r2 == (z * z) % p
           r3 == (r2 * z) % p
<1>1. p \in Nat \ {0} /\ x \in Int /\ y \in Int /\ z2 \in Int /\ z3 \in Int /\ z3 = z2 * z
  BY FieldFacts DEF Ints2
<1>2. apply_z(A, z, c) = <<(x * r2) % p, (y * r3) % p>>
  BY DEF apply_z
<1>3. r2 \in Int /\ Congruent(r2, z2, p)
  BY <1>1, Reckoning
<1> HIDE DEF p, x, y, r2, z2, z3
<1>4. Congruent(z, z, p) /\ Congruent(x, x, p) /\ Congruent(y, y, p)
  BY <1>1, Reckoning
<1>5. r3 \in Int /\ Congruent(r3, z3, p)
  BY <1>1, <1>3, <1>4, Product
<1> HIDE DEF r3
<1>6. Congruent((x * r2) % p, x * z2, p) /\ Congruent((y * r3) % p, y * z3, p)
  BY <1>1, <1>3, <1>4, <1>5, Product
<1>7. apply_z(A, z, c) \in Points(c)
  BY ApplyZPoint
<1> QED BY <1>2, <1>6, <1>7 DEF Scaled, x, y, z2, z3, p

(* And scaling back by the inverse gives the point that was scaled.        *)
LEMMA ApplyZBack ==
  ASSUME NEW c \in Curves, NEW J \in Ints2, NEW A \in Points(c), NEW z \in Int, NEW i \in Int,
         Scaled(J, A, z, c), Congruent(i * z, 1, c.p)
  PROVE  apply_z(J, i, c) = A
<1> DEFINE p == c.p
           x == A[1]
           y == A[2]
           j1 == J[1]
           j2 == J[2]
           B == apply_z(J, i, c)
           iz == i * z
           one == 1
           i2 == i * i
           i3 == i * i * i
           z2 == z * z
           z3 == z * z * z
<1>1. p \in Nat \ {0} /\ x \in Int /\ y \in Int /\ j1 \in Int /\ j2 \in Int /\ iz \in Int /\ one \in Int
      /\ i2 \in Int /\ i3 \in Int /\ z2 \in Int /\ z3 \in Int
  BY FieldFacts, Coordinates DEF Ints2
<1>2. B \in Points(c) /\ Congruent(B[1], j1 * i2, p) /\ Congruent(B[2], j2 * i3, p)
  BY ApplyZScaled DEF Scaled
<1>3. Congruent(j1, x * z2, p) /\ Congruent(j2, y * z3, p)
  BY DEF Scaled
<1>4. iz * iz = z2 * i2 /\ iz * iz * iz = z3 * i3
  OBVIOUS
<1>5. Congruent(iz, one, p) /\ one * one = one
  OBVIOUS
<1>6. B[1] \in Int /\ B[2] \in Int
  BY <1>2, Coordinates
<1> HIDE DEF p, x, y, j1, j2, B, iz, one, i2, i3, z2, z3
<1>7. Congruent(i2, i2, p) /\ Congruent(i3, i3, p) /\ Congruent(x, x, p) /\ Congruent(y, y, p)
  BY <1>1, Reckoning
<1>8. iz * iz \in Int /\ Congruent(iz * iz, one, p)
  <2>1. Congruent(iz * iz, one * one, p) /\ iz * iz \in Int
    BY <1>1, <1>5, Product
  <2> QED BY <1>5, <2>1
<1>9. iz * iz * iz \in Int /\ Congruent(iz * iz * iz, one, p)
  <2> DEFINE e == iz * iz
  <2>1. e \in Int /\ Congruent(e, one, p)
    BY <1>8
  <2> HIDE DEF e
  <2>2. Congruent(e * iz, one * one, p) /\ e * iz \in Int
    BY <1>1, <1>5, <2>1, Product
  <2> QED BY <1>5, <2>2 DEF e
<1>10. ASSUME NEW j \in Int, NEW w \in Int, NEW s \in Int, NEW t \in Int, NEW b \in Int,
              Congruent(b, j * t, p), Congruent(j, w * s, p), Congruent(s * t, one, p),
              Congruent(t, t, p), Congruent(w, w, p)
       PROVE  Congruent(b, w, p)
  <2> DEFINE ws == w * s
             st == s * t
             jt == j * t
             wst == w * st
  <2>1. ws \in Int /\ st \in Int /\ jt \in Int /\ wst \in Int /\ ws * t = wst /\ w * one = w
    BY DEF one
  <2>2. Congruent(jt, ws * t, p)
    <3>1. Congruent(j, ws, p)
      BY <1>10
    <3> HIDE DEF ws
    <3> QED BY <1>1, <1>10, <2>1, <3>1, Product
  <2>3. Congruent(wst, w * one, p)
    <3>1. Congruent(st, one, p)
      BY <1>10
    <3> HIDE DEF st
    <3> QED BY <1>1, <1>10, <2>1, <3>1, Product
  <2>4. Congruent(b, jt, p) /\ Congruent(jt, wst, p) /\ Congruent(wst, w, p)
    BY <1>10, <2>1, <2>2, <2>3
  <2> HIDE DEF jt, wst
  <2>5. Congruent(b, wst, p)
    BY <1>1, <2>1, <2>4, Reckoning
  <2> QED BY <1>1, <2>1, <2>4, <2>5, Reckoning
<1>11. Congruent(B[1], x, p)
  <2> DEFINE b == B[1]
  <2>1. Congruent(z2 * i2, one, p) /\ b \in Int /\ Congruent(b, j1 * i2, p)
    BY <1>2, <1>4, <1>6, <1>8
  <2> HIDE DEF b
  <2>2. Congruent(b, x, p)
    BY <1>1, <1>3, <1>7, <1>10, <2>1
  <2> QED BY <2>2 DEF b
<1>12. Congruent(B[2], y, p)
  <2> DEFINE b == B[2]
  <2>1. Congruent(z3 * i3, one, p) /\ b \in Int /\ Congruent(b, j2 * i3, p)
    BY <1>2, <1>4, <1>6, <1>9
  <2> HIDE DEF b
  <2>2. Congruent(b, y, p)
    BY <1>1, <1>3, <1>7, <1>10, <2>1
  <2> QED BY <2>2 DEF b
<1>13. B[1] = A[1] /\ B[2] = A[2]
  BY <1>2, <1>11, <1>12, Coordinates DEF x, y, p
<1>14. B = <<B[1], B[2]>> /\ A = <<A[1], A[2]>>
  BY <1>2, Coordinates
<1> QED BY <1>13, <1>14 DEF B

(* Points with a common z have the same x where their scaled x are.        *)
LEMMA ScaledX ==
  ASSUME NEW c \in Curves, NEW I \in Ints2, NEW J \in Ints2, NEW A \in Points(c), NEW B \in Points(c),
         NEW z \in Int, ~Congruent(z, 0, c.p), Scaled(I, A, z, c), Scaled(J, B, z, c)
  PROVE  /\ Congruent(J[1] - I[1], 0, c.p) <=> A[1] = B[1]
         /\ Congruent(I[2], 0, c.p) <=> A[2] = 0
<1> DEFINE p == c.p
           a == A[1]
           b == B[1]
           i == I[1]
           j == J[1]
           y == A[2]
           v == I[2]
           z2 == z * z
           z3 == z2 * z
           e == j - i
           f == b - a
           none == 0
<1>1. p \in Nat \ {0} /\ a \in Int /\ b \in Int /\ i \in Int /\ j \in Int /\ y \in Int /\ v \in Int
      /\ z2 \in Int /\ e \in Int /\ f \in Int /\ none \in Int /\ z * z * z = z3
  BY FieldFacts, Coordinates DEF Ints2
<1>2. /\ Congruent(i, a * z2, p) /\ Congruent(j, b * z2, p) /\ Congruent(v, y * z3, p)
  BY <1>1 DEF Scaled
<1>3. Congruent(f, none, p) <=> a = b
  BY Coordinates
<1>4. Congruent(y, none, p) <=> y = none
  BY Coordinates
<1>5. ~Congruent(z2, none, p)
  BY NotZero
<1>6. z3 \in Int /\ ~Congruent(z3, none, p)
  <2> HIDE DEF z2
  <2> QED BY <1>1, <1>5, NotZero
<1>7. (b * z2) - (a * z2) = f * z2 /\ b * z2 \in Int /\ a * z2 \in Int
  BY <1>1
<1> HIDE DEF p, a, b, i, j, y, v, z2, z3, f, none
<1>8. Congruent(e, f * z2, p) /\ f * z2 \in Int
  <2>1. Congruent(j - i, (b * z2) - (a * z2), p)
    <3> DEFINE bz == b * z2
               az == a * z2
    <3>1. bz \in Int /\ az \in Int /\ Congruent(j, bz, p) /\ Congruent(i, az, p)
      BY <1>2, <1>7
    <3> HIDE DEF bz, az
    <3>2. Congruent(j - i, bz - az, p)
      BY <1>1, <3>1, Difference
    <3> QED BY <3>2 DEF bz, az
  <2> QED BY <1>1, <1>7, <2>1
<1> HIDE DEF e
<1>9. Congruent(f * z2, none, p) <=> Congruent(f, none, p)
  BY <1>1, <1>5, NotZero DEF p, none
<1>10. Congruent(y * z3, none, p) <=> Congruent(y, none, p)
  BY <1>1, <1>6, NotZero, ZenonT(60) DEF p, none
<1>11. ASSUME NEW s \in Int, NEW t \in Int, Congruent(s, t, p)
       PROVE  Congruent(s, none, p) <=> Congruent(t, none, p)
  BY <1>1, <1>11, Reckoning
<1>12. Congruent(e, none, p) <=> Congruent(f * z2, none, p)
  BY <1>1, <1>8, <1>11
<1>13. Congruent(v, none, p) <=> Congruent(y * z3, none, p)
  <2>1. y * z3 \in Int
    BY <1>1, <1>6
  <2> QED BY <1>1, <1>2, <1>11, <2>1
<1> QED BY <1>3, <1>4, <1>9, <1>10, <1>12, <1>13 DEF e, f, a, b, i, j, y, v, none, p

(* Doubling a multiple: the factor stays one that can be divided by.       *)
LEMMA MulDouble ==
  ASSUME NEW c \in Curves, NEW J \in Ints3, NEW i \in Int, ~Congruent(i, 0, c.n),
         ~Congruent(J[3], 0, c.p), Scaled(<<J[1], J[2]>>, Mul(i, c), J[3], c)
  PROVE  LET twice == double_jacobian(J, c)
         IN /\ twice \in Ints3 /\ <<twice[1], twice[2]>> \in Ints2
            /\ Scaled(<<twice[1], twice[2]>>, Mul(2 * i, c), twice[3], c)
            /\ twice[3] \in 1..(c.p - 1) /\ ~Congruent(twice[3], 0, c.p)
            /\ twice[3] = (J[2] * J[3]) % c.p
<1> DEFINE twice == double_jacobian(J, c)
           A == Mul(i, c)
           S == Mul(2 * i, c)
           p == c.p
           I == <<J[1], J[2]>>
           none == 0
<1>1. p \in Nat \ {0} /\ J[1] \in Int /\ J[2] \in Int /\ J[3] \in Int /\ I \in Ints2 /\ none \in Int
      /\ I[2] = J[2]
  BY FieldFacts DEF Ints2, Ints3
<1>2. A \in Points(c) /\ A \in Ints2 /\ S \in Ints2 /\ A[2] # 0
  <2>1. 2 * i \in Int
    OBVIOUS
  <2> QED BY <2>1, MulFacts, MulNegative
<1>3. PICK l \in Int : Tangent(A, S, l, c)
  BY MulTangent
<1>4. J[3] # 0
  <2>1. Congruent(0, 0, p)
    BY <1>1, Reckoning
  <2> QED BY <2>1
<1>5. Scaled(<<twice[1], twice[2]>>, S, twice[3], c) /\ twice[3] = (J[2] * J[3]) % p
  <2> HIDE DEF A, S, twice
  <2>1. LET t == double_jacobian(J, c)
        IN /\ Scaled(<<t[1], t[2]>>, S, t[3], c) /\ t[3] = (J[2] * J[3]) % c.p
    BY <1>2, <1>3, <1>4, DoubleScaled DEF A
  <2> QED BY <2>1 DEF twice
<1>6. twice \in Ints3
  BY DoubleInts
<1>7. <<twice[1], twice[2]>> \in Ints2
  BY <1>6 DEF Ints2, Ints3
<1>8. ~Congruent(J[2], none, p)
  <2> HIDE DEF A, I
  <2>1. Congruent(I[2], 0, p) <=> A[2] = 0
    BY <1>1, <1>2, ScaledX DEF A, I
  <2> QED BY <1>1, <1>2, <2>1
<1> DEFINE y == J[2]
           z == J[3]
           yz == y * z
<1>9. ~Congruent(yz, none, p) /\ yz \in Int
  <2>1. y \in Int /\ z \in Int /\ ~Congruent(y, none, p) /\ ~Congruent(z, none, p)
    BY <1>1, <1>8
  <2>2. yz \in Int
    BY <2>1
  <2> HIDE DEF y, z
  <2> QED BY <2>1, <2>2, NotZero DEF none, p
<1>10. twice[3] \in 1..(p - 1) /\ ~Congruent(twice[3], none, p)
  <2> DEFINE t == twice[3]
  <2>1. t = yz % p
    BY <1>5
  <2> HIDE DEF yz, t, p, none
  <2>2. t \in 0..(p - 1) /\ t \in Int /\ Congruent(t, yz, p)
    BY <1>1, <1>9, <2>1, Reckoning
  <2>3. Congruent(yz, t, p)
    BY <1>1, <1>9, <2>2, Reckoning
  <2>4. ~Congruent(t, none, p)
    BY <1>1, <1>9, <2>2, <2>3, Reckoning
  <2>5. t # none
    BY <1>1, <2>4, Reckoning
  <2>6. t \in 1..(p - 1)
    BY <1>1, <2>2, <2>5 DEF none
  <2> QED BY <2>4, <2>6 DEF t
<1> QED BY <1>5, <1>6, <1>7, <1>10

(* P and 2P to a common z, at the start of the ladder (uECC.c:840-862).    *)
LEMMA InitialDoubleExact ==
  ASSUME NEW c \in Curves, NEW i \in Int, ~Congruent(i, 0, c.n), NEW z \in 1..(c.p - 1)
  PROVE  LET r == XYcZ_initial_double(Mul(i, c), z, c)
         IN \E f \in Int :
              /\ ~Congruent(f, 0, c.p)
              /\ r.same \in Ints2 /\ Scaled(r.same, Mul(i, c), f, c)
              /\ r.twice \in Ints2 /\ Scaled(r.twice, Mul(2 * i, c), f, c)
<1> DEFINE A == Mul(i, c)
           p == c.p
           first == apply_z(A, z, c)
           J == <<first[1], first[2], z>>
           twice == double_jacobian(J, c)
           r == XYcZ_initial_double(A, z, c)
           f == twice[3]
           none == 0
<1>1. p \in Nat \ {0} /\ A \in Ints2 /\ z \in Int /\ z \in 0..(p - 1) /\ none \in 0..(p - 1) /\ z # none
      /\ none \in Int
  BY FieldFacts, MulFacts
<1>2. first \in Points(c) /\ Scaled(first, A, z, c)
  BY <1>1, ApplyZScaled
<1>3. J \in Ints3 /\ <<J[1], J[2]>> = first /\ J[3] = z
  <2>1. first[1] \in Int /\ first[2] \in Int /\ first = <<first[1], first[2]>>
    BY <1>2, Coordinates
  <2> QED BY <1>1, <2>1 DEF Ints3
<1>4. ~Congruent(z, none, p)
  <2> HIDE DEF none, p
  <2> QED BY <1>1, SameRemainder
<1>5. /\ twice \in Ints3 /\ <<twice[1], twice[2]>> \in Ints2
      /\ Scaled(<<twice[1], twice[2]>>, Mul(2 * i, c), twice[3], c)
      /\ ~Congruent(f, 0, p)
  <2> HIDE DEF J, first
  <2> QED BY <1>2, <1>3, <1>4, MulDouble
<1>6. r.twice = <<twice[1], twice[2]>> /\ r.same = apply_z(A, f, c)
  BY DEF XYcZ_initial_double
<1>7. f \in Int
  BY <1>5 DEF Ints3
<1>8. r.same \in Points(c) /\ Scaled(r.same, A, f, c)
  <2> HIDE DEF A, f, twice
  <2> QED BY <1>1, <1>6, <1>7, ApplyZScaled
<1>9. r.same \in Ints2
  BY <1>8, Coordinates
<1> QED BY <1>5, <1>6, <1>7, <1>8, <1>9

(* Adding two multiples that are not equal or opposite.                    *)
LEMMA MulAdd ==
  ASSUME NEW c \in Curves, NEW P0 \in Ints2, NEW Q0 \in Ints2, NEW i \in Int, NEW j \in Int, NEW z \in Int,
         ~Congruent(i, 0, c.n), ~Congruent(j, 0, c.n), ~Congruent(z, 0, c.p),
         ~Congruent(i - j, 0, c.n), ~Congruent(i + j, 0, c.n),
         Scaled(P0, Mul(i, c), z, c), Scaled(Q0, Mul(j, c), z, c)
  PROVE  LET r == XYcZ_add(P0, Q0, c)
             f == z * (Q0[1] - P0[1])
         IN /\ f \in Int /\ ~Congruent(f, 0, c.p)
            /\ r.same \in Points(c) /\ Scaled(r.same, Mul(i, c), f, c)
            /\ r.sum \in Points(c) /\ Scaled(r.sum, Mul(i + j, c), f, c)
<1> DEFINE A == Mul(i, c)
           B == Mul(j, c)
           S == Mul(i + j, c)
           w == Q0[1] - P0[1]
           f == z * w
           r == XYcZ_add(P0, Q0, c)
<1>1. w \in Int /\ f \in Int
  <2>1. w \in Int
    BY DEF Ints2
  <2> HIDE DEF w
  <2> QED BY <2>1
<1>2. A \in Points(c) /\ B \in Points(c) /\ A \in Ints2 /\ B \in Ints2 /\ S \in Ints2
  <2>1. i + j \in Int
    OBVIOUS
  <2> QED BY <2>1, MulFacts
<1>3. A[1] # B[1]
  BY MulDistinct
<1>4. PICK l \in Int : Chord(A, B, S, l, c)
  BY <1>3, MulChord
<1>5. ~Congruent(w, 0, c.p)
  <2> HIDE DEF A, B
  <2> QED BY <1>2, <1>3, ScaledX DEF A, B
<1>6. ~Congruent(f, 0, c.p)
  <2> HIDE DEF w
  <2> QED BY <1>1, <1>5, NotZero
<1>7. Scaled(r.same, A, f, c) /\ Scaled(r.sum, S, f, c)
  <2> HIDE DEF A, B, S
  <2> QED BY <1>2, <1>4, AddScaled DEF A, B
<1>8. r.same \in Points(c) /\ r.sum \in Points(c)
  BY AddPoints
<1> QED BY <1>1, <1>6, <1>7, <1>8

(* And adding and subtracting them.                                        *)
LEMMA MulAddC ==
  ASSUME NEW c \in Curves, NEW P0 \in Ints2, NEW Q0 \in Ints2, NEW i \in Int, NEW j \in Int, NEW z \in Int,
         NEW sub \in Int, Congruent(sub * sub, (Q0[1] - P0[1]) * (Q0[1] - P0[1]), c.p),
         ~Congruent(i, 0, c.n), ~Congruent(j, 0, c.n), ~Congruent(z, 0, c.p),
         ~Congruent(i - j, 0, c.n), ~Congruent(i + j, 0, c.n),
         Scaled(P0, Mul(i, c), z, c), Scaled(Q0, Mul(j, c), z, c)
  PROVE  LET r == XYcZ_addC(P0, Q0, sub, c)
         IN \E f \in Int :
              /\ ~Congruent(f, 0, c.p)
              /\ r.difference \in Points(c) /\ Scaled(r.difference, Mul(i - j, c), f, c)
              /\ r.sum \in Points(c) /\ Scaled(r.sum, Mul(i + j, c), f, c)
<1> DEFINE minus == <<Q0[1], -Q0[2]>>
           f == z * (Q0[1] - P0[1])
           g == -j
           r == XYcZ_addC(P0, Q0, sub, c)
<1>1. minus \in Ints2 /\ r.sum = XYcZ_add(P0, Q0, c).sum /\ r.difference = XYcZ_add(P0, minus, c).sum
      /\ minus[1] = Q0[1]
  BY AddCIsAdd
<1>2. g \in Int /\ i + g = i - j /\ i - g = i + j
  OBVIOUS
<1>3. Scaled(minus, Mul(g, c), z, c) /\ ~Congruent(g, 0, c.n)
  BY ScaledMinus, MulNegative
<1>4. /\ f \in Int /\ ~Congruent(f, 0, c.p)
      /\ r.sum \in Points(c) /\ Scaled(r.sum, Mul(i + j, c), f, c)
  BY <1>1, MulAdd
<1>5. r.difference \in Points(c) /\ Scaled(r.difference, Mul(i - j, c), f, c)
  <2> HIDE DEF minus, g
  <2>1. LET q == XYcZ_add(P0, minus, c)
        IN q.sum \in Points(c) /\ Scaled(q.sum, Mul(i + g, c), z * (minus[1] - P0[1]), c)
    BY <1>1, <1>2, <1>3, MulAdd
  <2> QED BY <1>1, <1>2, <2>1
<1> QED BY <1>4, <1>5

-----------------------------------------------------------------------------
(* A turn of the ladder. A rung is m A and (m + 1) A to a common z,        *)
(* together with a square of their distance in x.                          *)

(* R[0] and R[1] are m A and (m + 1) A, to a common z, A being a times G,  *)
(* and sub is the difference of their x coordinates, or its opposite.      *)
OfX(R, sub, c) == Congruent(sub * sub, (R[2][1] - R[1][1]) * (R[2][1] - R[1][1]), c.p)
Rung(R, sub, m, a, c) ==
  /\ R = <<R[1], R[2]>> /\ R[1] \in Ints2 /\ R[2] \in Ints2 /\ sub \in Int
  /\ OfX(R, sub, c)
  /\ \E z \in Int : /\ ~Congruent(z, 0, c.p)
                    /\ Scaled(R[1], Mul(m * a, c), z, c)
                    /\ Scaled(R[2], Mul((m + 1) * a, c), z, c)

(* What the bit makes of the difference of the two.                        *)
Sign(bit) == IF bit THEN 1 ELSE -1
Digit(bit) == IF bit THEN 1 ELSE 0

(* The square of a difference is that of its opposite.                     *)
LEMMA EitherOrder ==
  ASSUME NEW R, R[1] \in Ints2, R[2] \in Ints2, NEW sub \in Int, NEW c \in Curves, OfX(R, sub, c)
  PROVE  OfX(<<R[2], R[1]>>, sub, c)
<1>1. R[1][1] \in Int /\ R[2][1] \in Int
  BY DEF Ints2
<1>2. (R[1][1] - R[2][1]) * (R[1][1] - R[2][1]) = (R[2][1] - R[1][1]) * (R[2][1] - R[1][1])
  BY <1>1
<1> QED BY <1>2 DEF OfX

(* Half a turn: the sum, and A or -A, to a common z.                       *)
LEMMA HalfTurn ==
  ASSUME NEW c \in Curves, NEW R, NEW sub, NEW m \in Int, NEW a \in Int, NEW bit \in BOOLEAN,
         Rung(R, sub, m, a, c), ~Congruent(a, 0, c.n), ~Congruent(m, 0, c.n),
         ~Congruent(m + 1, 0, c.n), ~Congruent(2 * m + 1, 0, c.n)
  PROVE  LET co == CoZ(R, sub, bit, c)
         IN \E z \in Int :
              /\ ~Congruent(z, 0, c.p)
              /\ co.difference \in Points(c) /\ Scaled(co.difference, Mul(Sign(bit) * a, c), z, c)
              /\ co.sum \in Points(c) /\ Scaled(co.sum, Mul((2 * m + 1) * a, c), z, c)
<1> DEFINE i == m * a
           j == (m + 1) * a
           R0 == R[1]
           R1 == R[2]
<1>1. /\ R0 \in Ints2 /\ R1 \in Ints2 /\ sub \in Int
      /\ Congruent(sub * sub, (R1[1] - R0[1]) * (R1[1] - R0[1]), c.p)
      /\ Congruent(sub * sub, (R0[1] - R1[1]) * (R0[1] - R1[1]), c.p)
  <2>1. R0 \in Ints2 /\ R1 \in Ints2 /\ sub \in Int /\ OfX(R, sub, c)
    BY DEF Rung
  <2>2. OfX(<<R[2], R[1]>>, sub, c)
    BY <2>1, EitherOrder
  <2> QED BY <2>1, <2>2 DEF OfX
<1>2. PICK z \in Int : ~Congruent(z, 0, c.p) /\ Scaled(R0, Mul(i, c), z, c) /\ Scaled(R1, Mul(j, c), z, c)
  BY DEF Rung
<1>3. /\ i \in Int /\ j \in Int /\ i + j = (2 * m + 1) * a /\ j + i = (2 * m + 1) * a
      /\ j - i = 1 * a /\ i - j = -1 * a /\ -1 * a = -a /\ 1 * a = a
  OBVIOUS
<1>4. c.n \in Nat \ {0} /\ m + 1 \in Int /\ 2 * m + 1 \in Int
  BY CurveFacts
<1>5. ~Congruent(i, 0, c.n) /\ ~Congruent(j, 0, c.n) /\ ~Congruent((2 * m + 1) * a, 0, c.n)
  BY <1>4, OrderNotZero
<1>6. ~Congruent(-a, 0, c.n)
  BY <1>4, CongruentZero
<1> HIDE DEF i, j, R0, R1
<1>7. CASE bit
  <2>1. CoZ(R, sub, bit, c) = XYcZ_addC(R1, R0, sub, c)
    BY <1>7 DEF CoZ, R0, R1
  <2>2. ~Congruent(j - i, 0, c.n) /\ ~Congruent(j + i, 0, c.n)
    BY <1>3, <1>5
  <2>3. LET r == XYcZ_addC(R1, R0, sub, c)
        IN \E f \in Int :
             /\ ~Congruent(f, 0, c.p)
             /\ r.difference \in Points(c) /\ Scaled(r.difference, Mul(j - i, c), f, c)
             /\ r.sum \in Points(c) /\ Scaled(r.sum, Mul(j + i, c), f, c)
    BY <1>1, <1>2, <1>3, <1>5, <2>2, MulAddC
  <2>4. Sign(bit) = 1
    BY <1>7 DEF Sign
  <2> QED BY <1>3, <2>1, <2>3, <2>4
<1>8. CASE ~bit
  <2>1. CoZ(R, sub, bit, c) = XYcZ_addC(R0, R1, sub, c)
    BY <1>8 DEF CoZ, R0, R1
  <2>2. ~Congruent(i - j, 0, c.n) /\ ~Congruent(i + j, 0, c.n)
    BY <1>3, <1>5, <1>6
  <2>3. LET r == XYcZ_addC(R0, R1, sub, c)
        IN \E f \in Int :
             /\ ~Congruent(f, 0, c.p)
             /\ r.difference \in Points(c) /\ Scaled(r.difference, Mul(i - j, c), f, c)
             /\ r.sum \in Points(c) /\ Scaled(r.sum, Mul(i + j, c), f, c)
    BY <1>1, <1>2, <1>3, <1>5, <2>2, MulAddC
  <2>4. Sign(bit) = -1
    BY <1>8 DEF Sign
  <2> QED BY <1>3, <2>1, <2>3, <2>4
<1> QED BY <1>7, <1>8

(* The other half, if the sum and A differ: m is doubled and takes the bit.*)
LEMMA WholeTurn ==
  ASSUME NEW c \in Curves, NEW R, NEW sub, NEW m \in Int, NEW a \in Int, NEW bit \in BOOLEAN,
         Rung(R, sub, m, a, c), ~Congruent(a, 0, c.n), ~Congruent(m, 0, c.n),
         ~Congruent(m + 1, 0, c.n), ~Congruent(2 * m + 1, 0, c.n)
  PROVE  LET co == CoZ(R, sub, bit, c)
             next == XYcZ_add(co.sum, co.difference, c)
             s == Pair(bit, next.same, next.sum)
         IN /\ Rung(s, next.sub, 2 * m + Digit(bit), a, c)
            /\ s[1] \in Points(c) /\ s[2] \in Points(c)
            /\ \E z \in Int :
                 /\ ~Congruent(z, 0, c.p)
                 /\ Scaled(co.difference, Mul(Sign(bit) * a, c), z, c)
                 /\ ~Congruent(co.difference[1] - co.sum[1], 0, c.p)
                 /\ Scaled(s[1], Mul((2 * m + Digit(bit)) * a, c), z * (co.difference[1] - co.sum[1]), c)
<1> DEFINE co == CoZ(R, sub, bit, c)
           sum == co.sum
           diff == co.difference
           next == XYcZ_add(sum, diff, c)
           s == Pair(bit, next.same, next.sum)
           i == (2 * m + 1) * a
           j == Sign(bit) * a
           w == diff[1] - sum[1]
<1>1. PICK z \in Int :
        /\ ~Congruent(z, 0, c.p)
        /\ diff \in Points(c) /\ Scaled(diff, Mul(j, c), z, c)
        /\ sum \in Points(c) /\ Scaled(sum, Mul(i, c), z, c)
  BY HalfTurn
<1> HIDE DEF sum, diff
<1>2. c.n \in Nat \ {0} /\ c.p \in Nat \ {0} /\ m + 1 \in Int /\ 2 * m + 1 \in Int
  BY CurveFacts, FieldFacts
<1>3. diff \in Ints2 /\ sum \in Ints2
  BY <1>1, Coordinates
<1>4. i \in Int /\ j \in Int /\ ~Congruent(i, 0, c.n) /\ ~Congruent(j, 0, c.n)
  <2>1. i \in Int /\ ~Congruent(i, 0, c.n)
    BY <1>2, OrderNotZero
  <2>2. j = a \/ j = -a
    BY DEF Sign
  <2>3. j \in Int /\ ~Congruent(j, 0, c.n)
    BY <1>2, <2>2, CongruentZero
  <2> QED BY <2>1, <2>3
<1>5. /\ bit => i - j = (2 * m) * a /\ i + j = (2 * (m + 1)) * a
      /\ ~bit => i - j = (2 * (m + 1)) * a /\ i + j = (2 * m) * a
  BY DEF Sign
<1>6. ~Congruent((2 * m) * a, 0, c.n) /\ ~Congruent((2 * (m + 1)) * a, 0, c.n)
  <2>1. ~Congruent(2 * m, 0, c.n) /\ ~Congruent(2 * (m + 1), 0, c.n) /\ 2 * m \in Int /\ 2 * (m + 1) \in Int
    BY <1>2, OrderNotZero, OrderSmall
  <2> QED BY <2>1, OrderNotZero
<1>7. ~Congruent(i - j, 0, c.n) /\ ~Congruent(i + j, 0, c.n)
  BY <1>5, <1>6
<1> DEFINE f == z * w
<1>8. /\ f \in Int /\ ~Congruent(f, 0, c.p)
      /\ next.same \in Points(c) /\ Scaled(next.same, Mul(i, c), f, c)
      /\ next.sum \in Points(c) /\ Scaled(next.sum, Mul(i + j, c), f, c)
  <2> HIDE DEF i, j
  <2> QED BY <1>1, <1>3, <1>4, <1>7, MulAdd
<1>9. w \in Int /\ ~Congruent(w, 0, c.p)
  <2>1. w \in Int
    BY <1>3 DEF Ints2
  <2> HIDE DEF w
  <2> QED BY <1>8, <2>1, NotZero
<1>10. next.sub \in Int /\ Congruent(next.sub, next.same[1] - next.sum[1], c.p)
  <2>1. next.sub \in Int
    BY <1>3, AddPoints
  <2> DEFINE x == sum[1]
             y == sum[2]
             dy == diff[2] - sum[2]
  <2>2. /\ x \in Int /\ y \in Int /\ w \in Int /\ dy \in Int
        /\ x + w = diff[1] /\ diff[1] \in Int /\ diff[2] - sum[2] = dy /\ sum[1] = x /\ sum[2] = y
    BY <1>3 DEF Ints2
  <2> HIDE DEF x, y, dy, w
  <2>3. /\ Congruent(sum[1], x, c.p) /\ Congruent(sum[2], y, c.p)
        /\ Congruent(diff[1], x + w, c.p) /\ Congruent(diff[2] - sum[2], dy, c.p)
    BY <1>2, <2>2, Reckoning, ZenonT(60)
  <2>4. Congruent(next.sub, next.same[1] - next.sum[1], c.p)
    BY <1>3, <2>2, <2>3, AddCongruent
  <2> QED BY <2>1, <2>4
<1> HIDE DEF next, w
<1>11. next.same \in Ints2 /\ next.sum \in Ints2 /\ next.same[1] \in Int /\ next.sum[1] \in Int
  BY <1>8, Coordinates
<1>12. OfX(<<next.sum, next.same>>, next.sub, c)
  <2> DEFINE e == next.same[1] - next.sum[1]
             u == next.sub
  <2>1. e \in Int /\ u \in Int /\ Congruent(u, e, c.p)
    BY <1>10, <1>11
  <2>2. Congruent(u * u, e * e, c.p)
    <3> HIDE DEF e, u
    <3> QED BY <1>2, <2>1, Product
  <2> QED BY <2>2 DEF OfX
<1>13. OfX(<<next.same, next.sum>>, next.sub, c)
  BY <1>10, <1>11, <1>12, EitherOrder
<1> DEFINE Goal ==
             /\ Rung(s, next.sub, 2 * m + Digit(bit), a, c)
             /\ s[1] \in Points(c) /\ s[2] \in Points(c)
             /\ \E z0 \in Int :
                  /\ ~Congruent(z0, 0, c.p)
                  /\ Scaled(diff, Mul(Sign(bit) * a, c), z0, c)
                  /\ ~Congruent(w, 0, c.p)
                  /\ Scaled(s[1], Mul((2 * m + Digit(bit)) * a, c), z0 * w, c)
<1>14. ASSUME bit PROVE Goal
  <2>1. s = <<next.same, next.sum>> /\ Digit(bit) = 1 /\ s[1] = next.same /\ s[2] = next.sum
    BY <1>14 DEF Pair, Digit
  <2>2. (2 * m + 1) + 1 = 2 * (m + 1)
    OBVIOUS
  <2>3. i = (2 * m + 1) * a /\ i + j = ((2 * m + 1) + 1) * a
    <3>1. i + j = (2 * (m + 1)) * a
      BY <1>5, <1>14
    <3> HIDE DEF j
    <3> QED BY <2>2, <3>1
  <2>4. Scaled(diff, Mul(Sign(bit) * a, c), z, c)
    BY <1>1
  <2> HIDE DEF i, j, s
  <2>5. Rung(s, next.sub, 2 * m + 1, a, c)
    BY <1>8, <1>10, <1>11, <1>13, <2>1, <2>3 DEF Rung
  <2>6. Scaled(s[1], Mul((2 * m + Digit(bit)) * a, c), z * w, c)
    BY <1>8, <2>1, <2>3
  <2> QED BY <1>1, <1>8, <1>9, <2>1, <2>4, <2>5, <2>6
<1>15. ASSUME ~bit PROVE Goal
  <2>1. s = <<next.sum, next.same>> /\ Digit(bit) = 0 /\ s[1] = next.sum /\ s[2] = next.same
    BY <1>15 DEF Pair, Digit
  <2>2. 2 * m + 0 = 2 * m
    OBVIOUS
  <2>3. i = ((2 * m + 0) + 1) * a /\ i + j = (2 * m + 0) * a
    <3>1. i + j = (2 * m) * a
      BY <1>5, <1>15
    <3> HIDE DEF j
    <3> QED BY <2>2, <3>1
  <2>4. Scaled(diff, Mul(Sign(bit) * a, c), z, c)
    BY <1>1
  <2> HIDE DEF i, j, s
  <2>5. Rung(s, next.sub, 2 * m + 0, a, c)
    BY <1>8, <1>10, <1>11, <1>12, <2>1, <2>3 DEF Rung
  <2>6. Scaled(s[1], Mul((2 * m + Digit(bit)) * a, c), z * w, c)
    BY <1>8, <2>1, <2>3
  <2> QED BY <1>1, <1>8, <1>9, <2>1, <2>4, <2>5, <2>6
<1> QED BY <1>14, <1>15 DEF w, next, sum, diff

-----------------------------------------------------------------------------
(* Where the two points of a turn are opposite the formulas give (0, 0)    *)
(* and a point of the cusp y^2 = x^3, and from there on always (0, 0): a   *)
(* wrong point is never reached.                                           *)

(* A pair of reduced coordinates that are congruent to 0 is <<0, 0>>.      *)
LEMMA ReducedZero ==
  ASSUME NEW c \in Curves, NEW A \in Points(c), Congruent(A[1], 0, c.p), Congruent(A[2], 0, c.p)
  PROVE  A = Zero
  BY Coordinates DEF Zero

(* Subtracting points that are opposite (or equal) gives <<0, 0>>, and     *)
(* adding them a point whose coordinates are a square and a cube.          *)
Cuspidal(A, c) == A \in Points(c) /\ Congruent(A[2] * A[2], A[1] * (A[1] * A[1]), c.p)
(* For two opposite points XYcZ_addC() gives (0, 0) for the difference,    *)
(* and for the sum a point of the cusp y^2 = x^3 (uECC.c:825-862).         *)
LEMMA OppositePoints ==
  ASSUME NEW c \in Curves, NEW P0 \in Ints2, NEW Q0 \in Ints2, NEW sub \in Int,
         Congruent(sub * sub, (Q0[1] - P0[1]) * (Q0[1] - P0[1]), c.p),
         Congruent(Q0[1], P0[1], c.p), Congruent(Q0[2], -P0[2], c.p)
  PROVE  LET r == XYcZ_addC(P0, Q0, sub, c)
         IN r.difference = Zero /\ Cuspidal(r.sum, c)
<1> DEFINE r == XYcZ_addC(P0, Q0, sub, c)
           minus == <<Q0[1], -Q0[2]>>
           x == P0[1]
           y == P0[2]
           u == Q0[1]
           v == Q0[2]
           p == c.p
           none == 0
           W == v - y
           WW == W * W
           dif == XYcZ_add(P0, minus, c)
           plus == XYcZ_add(P0, Q0, c)
<1>1. minus \in Ints2 /\ r.sum = plus.sum /\ r.difference = dif.sum
  BY AddCIsAdd
<1>2. p \in Nat \ {0} /\ x \in Int /\ y \in Int /\ u \in Int /\ v \in Int /\ none \in Int /\ W \in Int
      /\ x + none = x /\ minus[1] = u /\ minus[2] = -v /\ P0[1] = x /\ P0[2] = y /\ Q0[1] = u /\ Q0[2] = v
      /\ -v - y \in Int /\ -v \in Int /\ -y \in Int
  BY FieldFacts DEF Ints2
<1>3. Congruent(u, x, p) /\ Congruent(v, -y, p) /\ Congruent(x, x, p) /\ Congruent(y, y, p) /\ Congruent(W, W, p)
  <2> HIDE DEF W
  <2> QED BY <1>2, Reckoning
<1>4. Congruent(-v - y, none, p)
  <2>1. PICK q \in Int : v = -y + q * p
    BY <1>3 DEF Congruent
  <2> DEFINE qp == q * p
  <2>2. qp \in Int /\ (-q) * p = -qp /\ v = -y + qp /\ -q \in Int
    BY <1>2, <2>1
  <2> HIDE DEF qp
  <2>3. -v - y = 0 + -qp
    BY <1>2, <2>2
  <2>4. -v - y = none + (-q) * p
    BY <2>2, <2>3
  <2> QED BY <2>2, <2>4 DEF Congruent
<1> HIDE DEF none, W, minus, x, y, u, v, dif, plus, r
<1>5. /\ Congruent(dif.sum[1], none * none - x * (none * none) - (x + none) * (none * none), p)
      /\ Congruent(dif.sum[2], none * (x * (none * none) - (none * none - x * (none * none) - (x + none) * (none * none)))
                     - y * (none * (none * none)), p)
  <2> DEFINE b2 == minus[2] - P0[2]
  <2>1. Congruent(minus[1], x + none, p) /\ Congruent(b2, none, p)
    BY <1>2, <1>3, <1>4
  <2>2. Congruent(P0[1], x, p) /\ Congruent(P0[2], y, p)
    BY <1>2, <1>3
  <2> HIDE DEF p
  <2>3. LET q == XYcZ_add(P0, minus, c)
            T == none * none - x * (none * none) - (x + none) * (none * none)
        IN Congruent(q.sum[1], T, p) /\ Congruent(q.sum[2], none * (x * (none * none) - T) - y * (none * (none * none)), p)
    BY <1>1, <1>2, <2>1, <2>2, AddCongruent DEF p
  <2> QED BY <2>3 DEF dif
<1>6. Congruent(dif.sum[1], none, p) /\ Congruent(dif.sum[2], none, p)
  <2>1. /\ none * none - x * (none * none) - (x + none) * (none * none) = none
        /\ none * (x * (none * none) - (none * none - x * (none * none) - (x + none) * (none * none)))
             - y * (none * (none * none)) = none
    BY <1>2 DEF none
  <2> QED BY <1>5, <2>1
<1>7. dif.sum \in Points(c) /\ plus.sum \in Points(c)
  BY <1>1, AddPoints DEF dif, plus
<1>8. dif.sum = Zero
  BY <1>6, <1>7, ReducedZero DEF none, p
<1>9. /\ Congruent(plus.sum[1], W * W - x * (none * none) - (x + none) * (none * none), p)
      /\ Congruent(plus.sum[2], W * (x * (none * none) - (W * W - x * (none * none) - (x + none) * (none * none)))
                     - y * (none * (none * none)), p)
  <2> DEFINE b2 == Q0[2] - P0[2]
  <2>0. b2 = W
    BY <1>2 DEF W
  <2>1. Congruent(Q0[1], x + none, p) /\ Congruent(b2, W, p)
    BY <1>2, <1>3, <2>0
  <2>2. Congruent(P0[1], x, p) /\ Congruent(P0[2], y, p)
    BY <1>2, <1>3
  <2> HIDE DEF p
  <2>3. LET q == XYcZ_add(P0, Q0, c)
            T == W * W - x * (none * none) - (x + none) * (none * none)
        IN Congruent(q.sum[1], T, p) /\ Congruent(q.sum[2], W * (x * (none * none) - T) - y * (none * (none * none)), p)
    BY <1>1, <1>2, <2>1, <2>2, AddCongruent DEF p
  <2> QED BY <2>3 DEF plus
<1>10. Congruent(plus.sum[1], WW, p) /\ Congruent(plus.sum[2], -(W * WW), p) /\ WW \in Int /\ W * WW \in Int
  <2>1. /\ W * W - x * (none * none) - (x + none) * (none * none) = WW
        /\ W * (x * (none * none) - (W * W - x * (none * none) - (x + none) * (none * none)))
             - y * (none * (none * none)) = -(W * WW)
        /\ WW \in Int /\ W * WW \in Int
    BY <1>2 DEF none
  <2> QED BY <1>9, <2>1
<1>11. Cuspidal(plus.sum, c)
  <2> DEFINE X == plus.sum[1]
             Y == plus.sum[2]
             W3 == -(W * WW)
             t1 == W3 * W3
             t2 == WW * (WW * WW)
             t3 == Y * Y
             t4 == X * (X * X)
  <2>1. X \in Int /\ Y \in Int /\ W3 \in Int /\ Congruent(X, WW, p) /\ Congruent(Y, W3, p) /\ WW \in Int
    BY <1>7, <1>10, Coordinates
  <2>2. t1 = t2
    BY <1>2
  <2> HIDE DEF X, Y, W3, WW
  <2>3. Congruent(t3, t1, p) /\ t3 \in Int /\ t1 \in Int
    BY <1>2, <2>1, Product
  <2>4. Congruent(X * X, WW * WW, p) /\ X * X \in Int /\ WW * WW \in Int
    BY <1>2, <2>1, Product
  <2>5. Congruent(t4, t2, p) /\ t4 \in Int /\ t2 \in Int
    BY <1>2, <2>1, <2>4, Product
  <2> HIDE DEF t1, t2, t3, t4
  <2>6. Congruent(t2, t4, p)
    BY <1>2, <2>5, Reckoning
  <2>7. Congruent(t3, t4, p)
    BY <1>2, <2>2, <2>3, <2>5, <2>6, Reckoning
  <2> QED BY <1>7, <2>7 DEF Cuspidal, X, Y, t3, t4, p
<1> QED BY <1>1, <1>8, <1>11 DEF r

(* From there on a difference is <<0, 0>>.                                 *)
Cusp(R, sub, c) ==
  /\ R = <<R[1], R[2]>> /\ Cuspidal(R[1], c) /\ Cuspidal(R[2], c) /\ (R[1] = Zero \/ R[2] = Zero)
  /\ sub \in Int /\ OfX(R, sub, c)

(* On the cusp, with (0, 0) for one of the two, the difference stays (0,   *)
(* 0).                                                                     *)
LEMMA CuspPoints ==
  ASSUME NEW c \in Curves, NEW P0, NEW Q0, NEW sub \in Int,
         Congruent(sub * sub, (Q0[1] - P0[1]) * (Q0[1] - P0[1]), c.p),
         Cuspidal(P0, c), Cuspidal(Q0, c), P0 = Zero \/ Q0 = Zero
  PROVE  XYcZ_addC(P0, Q0, sub, c).difference = Zero
<1> DEFINE r == XYcZ_addC(P0, Q0, sub, c)
           minus == <<Q0[1], -Q0[2]>>
           x == P0[1]
           y == P0[2]
           u == Q0[1]
           v == Q0[2]
           p == c.p
           none == 0
           D == u - x
           W == -v - y
           X == W * W - x * (D * D) - (x + D) * (D * D)
           Y == W * (x * (D * D) - X) - y * (D * (D * D))
           dif == XYcZ_add(P0, minus, c)
<1>0. P0 \in Ints2 /\ Q0 \in Ints2 /\ P0 \in Points(c) /\ Q0 \in Points(c)
  BY Coordinates DEF Cuspidal
<1>1. minus \in Ints2 /\ r.difference = dif.sum
  BY <1>0, AddCIsAdd
<1>2. p \in Nat \ {0} /\ x \in Int /\ y \in Int /\ u \in Int /\ v \in Int /\ none \in Int
      /\ minus[1] = u /\ minus[2] = -v /\ P0[1] = x /\ P0[2] = y
  BY <1>0, FieldFacts DEF Ints2
<1>3. W \in Int /\ D \in Int /\ x + D = u
  BY <1>2
<1>4. Congruent(x, x, p) /\ Congruent(y, y, p) /\ Congruent(u, u, p) /\ Congruent(W, W, p)
  <2> HIDE DEF W
  <2> QED BY <1>2, <1>3, Reckoning
<1>5. Congruent(dif.sum[1], X, p) /\ Congruent(dif.sum[2], Y, p)
  <2> DEFINE b1 == minus[1]
             b2 == minus[2] - P0[2]
  <2>1. Congruent(b1, x + D, p) /\ Congruent(b2, W, p)
    BY <1>2, <1>3, <1>4
  <2> HIDE DEF minus, W, D
  <2>2. LET q == XYcZ_add(P0, minus, c)
            T == W * W - x * (D * D) - (x + D) * (D * D)
        IN Congruent(q.sum[1], T, p) /\ Congruent(q.sum[2], W * (x * (D * D) - T) - y * (D * (D * D)), p)
    BY <1>0, <1>1, <1>2, <1>3, <1>4, <2>1, AddCongruent DEF p, x, y
  <2> QED BY <2>2
<1>6. Congruent(y * y, x * (x * x), p) /\ Congruent(v * v, u * (u * u), p)
  BY DEF Cuspidal
<1>7. dif.sum \in Points(c)
  BY <1>0, <1>1, AddPoints
<1>8. \E e, w \in Int : Congruent(e, none, p) /\ (X = e \/ X = -e) /\ Y = w * e
  <2>1. CASE P0 = Zero
    <3>1. x = 0 /\ y = 0
      BY <2>1 DEF Zero
    <3> DEFINE e == v * v - u * (u * u)
    <3>2. e \in Int /\ X = e /\ Y = v * e
      <4> HIDE DEF x, y, u, v
      <4>1. D = u /\ W = -v
        BY <1>2, <3>1
      <4>2. X = W * W - u * (u * u) /\ Y = W * (-X)
        <5> HIDE DEF D, W
        <5> QED BY <1>2, <1>3, <3>1, <4>1
      <4>3. W * W = v * v
        BY <1>2, <4>1
      <4>4. X = e /\ e \in Int
        BY <1>2, <4>2, <4>3
      <4>5. W * (-e) = v * e
        <5> HIDE DEF e, W
        <5> QED BY <1>2, <4>1, <4>4
      <4> HIDE DEF X, e, W, Y
      <4> QED BY <4>2, <4>4, <4>5
    <3>3. Congruent(e, none, p)
      <4> DEFINE s == v * v
                 t == u * (u * u)
      <4>1. s \in Int /\ t \in Int /\ Congruent(s, t, p) /\ e = s - t
        BY <1>2, <1>6
      <4> HIDE DEF s, t, e
      <4> QED BY <1>2, <4>1, CongruentZero DEF none
    <3> HIDE DEF e, X, Y
    <3> QED BY <1>2, <3>2, <3>3
  <2>2. CASE Q0 = Zero
    <3>1. u = 0 /\ v = 0
      BY <2>2 DEF Zero
    <3> DEFINE e == y * y - x * (x * x)
    <3>2. e \in Int /\ X = e /\ Y = y * e
      <4> HIDE DEF x, y, u, v
      <4>1. D = -x /\ W = -y
        BY <1>2, <3>1
      <4>2. D * D = x * x /\ W * W = y * y /\ D * (D * D) = -(x * (x * x)) /\ x + D = 0
        BY <1>2, <4>1
      <4> DEFINE DD == D * D
                 W2 == W * W
                 DDD == D * DD
      <4>3. DD \in Int /\ DD = x * x /\ W2 = y * y /\ X = W2 - x * DD - (x + D) * DD /\ (x + D) * DD = 0
        <5>1. DD \in Int
          BY <1>3
        <5> HIDE DEF DD, D
        <5> QED BY <4>2, <5>1 DEF DD
      <4>4. X = e /\ e \in Int
        BY <1>2, <4>3
      <4>5. Y = W * (x * DD - X) - y * DDD /\ DDD = -(x * (x * x))
        BY <4>2
      <4> HIDE DEF X, DD, DDD, W2, Y, D, W
      <4>6. Y = (-y) * (x * (x * x) - (y * y - x * (x * x))) - y * (-(x * (x * x)))
        BY <4>1, <4>3, <4>4, <4>5
      <4>7. (-y) * (x * (x * x) - (y * y - x * (x * x))) - y * (-(x * (x * x))) = y * e
        BY <1>2
      <4> QED BY <4>4, <4>6, <4>7
    <3>3. Congruent(e, none, p)
      <4> DEFINE s == y * y
                 t == x * (x * x)
      <4>1. s \in Int /\ t \in Int /\ Congruent(s, t, p) /\ e = s - t
        BY <1>2, <1>6
      <4> HIDE DEF s, t, e
      <4> QED BY <1>2, <4>1, CongruentZero DEF none
    <3> HIDE DEF e, X, Y
    <3> QED BY <1>2, <3>2, <3>3
  <2> QED BY <2>1, <2>2
<1>9. Congruent(dif.sum[1], none, p) /\ Congruent(dif.sum[2], none, p)
  <2>1. PICK e \in Int, w \in Int : Congruent(e, none, p) /\ (X = e \/ X = -e) /\ Y = w * e
    BY <1>8
  <2>2. -e \in Int /\ w * e \in Int
    OBVIOUS
  <2>3. Congruent(-e, none, p)
    BY <1>2, <2>1, CongruentZero DEF none
  <2>4. Congruent(w * e, none, p)
    BY <2>1, NotZero DEF none, p
  <2> DEFINE a == dif.sum[1]
             b == dif.sum[2]
             we == w * e
  <2>5. a \in Int /\ b \in Int /\ we \in Int /\ Congruent(a, X, p) /\ Congruent(b, we, p) /\ Congruent(we, none, p)
    BY <1>5, <1>7, <2>1, <2>2, <2>4, Coordinates
  <2>6. X \in Int /\ Congruent(X, none, p)
    BY <2>1, <2>2, <2>3
  <2> HIDE DEF a, b, we, X, Y, none, p
  <2>7. Congruent(a, none, p) /\ Congruent(b, none, p)
    BY <1>2, <2>5, <2>6, Reckoning
  <2> QED BY <2>7 DEF a, b
<1>10. dif.sum = Zero
  <2> HIDE DEF dif
  <2> QED BY <1>7, <1>9, ReducedZero
<1> QED BY <1>1, <1>10

(* If 2m + 1 is a multiple of n, m A and (m + 1) A are opposite, and the   *)
(* turn leaves <<0, 0>> for their difference.                              *)
LEMMA OppositeTurn ==
  ASSUME NEW c \in Curves, NEW R, NEW sub, NEW m \in Int, NEW a \in Int, NEW bit \in BOOLEAN,
         Rung(R, sub, m, a, c), ~Congruent(a, 0, c.n), ~Congruent(m, 0, c.n),
         Congruent(2 * m + 1, 0, c.n)
  PROVE  LET co == CoZ(R, sub, bit, c)
         IN co.difference = Zero /\ Cuspidal(co.sum, c)
<1> DEFINE i == m * a
           j == (m + 1) * a
           R0 == R[1]
           R1 == R[2]
<1>1. /\ R0 \in Ints2 /\ R1 \in Ints2 /\ sub \in Int
      /\ Congruent(sub * sub, (R1[1] - R0[1]) * (R1[1] - R0[1]), c.p)
      /\ Congruent(sub * sub, (R0[1] - R1[1]) * (R0[1] - R1[1]), c.p)
  <2>1. R0 \in Ints2 /\ R1 \in Ints2 /\ sub \in Int /\ OfX(R, sub, c)
    BY DEF Rung
  <2>2. OfX(<<R[2], R[1]>>, sub, c)
    BY <2>1, EitherOrder
  <2> QED BY <2>1, <2>2 DEF OfX
<1>2. PICK z \in Int : ~Congruent(z, 0, c.p) /\ Scaled(R0, Mul(i, c), z, c) /\ Scaled(R1, Mul(j, c), z, c)
  BY DEF Rung
<1>3. c.n \in Nat \ {0} /\ c.p \in Nat \ {0} /\ i \in Int /\ j \in Int /\ -i \in Int
  BY CurveFacts, FieldFacts
<1>4. ~Congruent(i, 0, c.n)
  BY OrderNotZero
<1>5. Congruent(j, -i, c.n)
  <2> DEFINE e == 2 * m + 1
             ea == e * a
  <2>1. e \in Int /\ ea \in Int /\ i + j = ea
    OBVIOUS
  <2>2. Congruent(ea, 0, c.n)
    <3> HIDE DEF e
    <3> QED BY <2>1, OrderNotZero DEF e
  <2>3. j + i = ea
    BY <1>3, <2>1
  <2> HIDE DEF i, j, ea
  <2> QED BY <1>3, <2>2, <2>3, CongruentZero
<1> HIDE DEF i, j, R0, R1
<1>6. Mul(j, c) = Mul(-i, c)
  BY <1>3, <1>5, MulFacts
<1>7. /\ Mul(i, c) \in Points(c) /\ Mul(j, c) \in Points(c) /\ Mul(j, c)[1] = Mul(i, c)[1]
      /\ Scaled(<<R0[1], -R0[2]>>, Mul(j, c), z, c)
  BY <1>1, <1>2, <1>3, <1>4, <1>6, MulNegative, ScaledMinus, MulFacts
<1>8. /\ R0[1] \in Int /\ R0[2] \in Int /\ R1[1] \in Int /\ R1[2] \in Int /\ -R0[2] \in Int /\ -R1[2] \in Int
  BY <1>1 DEF Ints2
<1>9. Congruent(R1[1], R0[1], c.p) /\ Congruent(R0[1], R1[1], c.p)
  <2>1. Congruent(R1[1] - R0[1], 0, c.p)
    BY <1>1, <1>2, <1>7, ScaledX
  <2>2. Congruent(R1[1], R0[1], c.p)
    BY <1>3, <1>8, <2>1, CongruentZero
  <2> QED BY <1>3, <1>8, <2>2, Reckoning
<1>10. Congruent(R1[2], -R0[2], c.p) /\ Congruent(R0[2], -R1[2], c.p)
  <2> DEFINE y == Mul(j, c)[2] * (z * (z * z))
             b0 == R0[2]
             b1 == R1[2]
             mb == -b0
  <2>1. b0 \in Int /\ b1 \in Int /\ mb \in Int /\ y \in Int /\ Congruent(b1, y, c.p) /\ Congruent(mb, y, c.p)
    <3>1. Mul(j, c)[2] \in Int /\ z * (z * z) \in Int
      BY <1>7, Coordinates
    <3>2. y \in Int
      BY <3>1
    <3> HIDE DEF y
    <3> QED BY <1>2, <1>7, <1>8, <3>2 DEF Scaled, y
  <2> HIDE DEF y, b0, b1, mb
  <2>2. Congruent(b1, mb, c.p)
    BY <1>3, <2>1, Reckoning
  <2>3. Congruent(b1 + b0, 0, c.p)
    BY <1>3, <2>1, <2>2, CongruentZero DEF mb
  <2>4. b1 + b0 = b0 + b1
    BY <2>1
  <2>5. Congruent(b0, -b1, c.p)
    BY <1>3, <2>1, <2>3, <2>4, CongruentZero
  <2> QED BY <2>2, <2>5 DEF b0, b1, mb
<1>11. CASE bit
  <2>1. CoZ(R, sub, bit, c) = XYcZ_addC(R1, R0, sub, c)
    BY <1>11 DEF CoZ, R0, R1
  <2> QED BY <1>1, <1>9, <1>10, <2>1, OppositePoints
<1>12. CASE ~bit
  <2>1. CoZ(R, sub, bit, c) = XYcZ_addC(R0, R1, sub, c)
    BY <1>12 DEF CoZ, R0, R1
  <2> QED BY <1>1, <1>9, <1>10, <2>1, OppositePoints
<1> QED BY <1>11, <1>12

(* Adding <<0, 0>> to a point with a square and a cube for coordinates.    *)
LEMMA CuspSum ==
  ASSUME NEW c \in Curves, NEW A, Cuspidal(A, c)
  PROVE  LET next == XYcZ_add(A, Zero, c)
         IN /\ Cuspidal(next.same, c) /\ next.sum = Zero
            /\ next.sub \in Int /\ Congruent(next.sub, next.same[1] - next.sum[1], c.p)
<1> DEFINE r == XYcZ_add(A, Zero, c)
           x == A[1]
           y == A[2]
           p == c.p
           none == 0
           D == -x
           W == -y
           e == y * y - x * (x * x)
           s == x * (x * x)
           my == -(y * s)
<1>1. A \in Points(c) /\ A \in Ints2 /\ Zero \in Points(c) /\ Zero \in Ints2 /\ Zero[1] = none /\ Zero[2] = none
  <2>1. Zero \in Points(c)
    BY FieldFacts DEF Zero, Points
  <2> QED BY <2>1, Coordinates DEF Cuspidal, Zero
<1>2. p \in Nat \ {0} /\ x \in Int /\ y \in Int /\ none \in Int /\ D \in Int /\ W \in Int
      /\ none = x + D /\ none - A[2] = W
  BY <1>1, FieldFacts DEF Ints2
<1>3. r.same \in Points(c) /\ r.sum \in Points(c) /\ r.sub \in Int
  BY <1>1, AddPoints
<1>4. LET T == W * W - x * (D * D) - (x + D) * (D * D)
      IN /\ Congruent(r.same[1], x * (D * D), p)
         /\ Congruent(r.same[2], y * (D * (D * D)), p)
         /\ Congruent(r.sum[1], T, p)
         /\ Congruent(r.sum[2], W * (x * (D * D) - T) - y * (D * (D * D)), p)
         /\ Congruent(r.sub, r.same[1] - r.sum[1], p)
  <2> DEFINE b2 == Zero[2] - A[2]
  <2>1. Congruent(A[1], x, p) /\ Congruent(A[2], y, p)
    BY <1>2, Reckoning
  <2>2. Congruent(none, none, p) /\ Congruent(W, W, p)
    <3> HIDE DEF none, W
    <3> QED BY <1>2, Reckoning
  <2>3. Congruent(Zero[1], x + D, p) /\ Congruent(b2, W, p)
    BY <1>1, <1>2, <2>2
  <2> HIDE DEF x, y, D, W, p, r
  <2> QED BY <1>1, <1>2, <2>1, <2>3, AddCongruent DEF p, r
<1>5. e \in Int /\ s \in Int /\ my \in Int /\ e = y * y - s
  <2>1. s \in Int
    BY <1>2
  <2> HIDE DEF s
  <2> QED BY <1>2, <2>1 DEF s
<1>6. Congruent(e, none, p)
  <2> DEFINE u == y * y
  <2>1. u \in Int /\ Congruent(u, s, p) /\ e = u - s
    BY <1>2, <1>5 DEF Cuspidal
  <2> HIDE DEF s, u, e, x, y, p
  <2>2. p \in Nat \ {0} /\ s \in Int
    BY <1>2, <1>5
  <2> QED BY <2>1, <2>2, CongruentZero DEF none
<1>7. /\ W * W - x * (D * D) - (x + D) * (D * D) = e
      /\ x * (D * D) = s /\ y * (D * (D * D)) = my
      /\ W * (x * (D * D) - e) - y * (D * (D * D)) = y * e
  <2> HIDE DEF x, y
  <2>1. (x + D) * (D * D) = 0
    BY <1>2
  <2>2. W * W = y * y /\ D * D = x * x /\ D * (D * D) = -(x * (x * x))
    BY <1>2
  <2>3. x * (D * D) = s
    BY <2>2
  <2>4. y * (D * (D * D)) = my
    <3>1. y * (-s) = -(y * s)
      <4> HIDE DEF s
      <4> QED BY <1>2, <1>5
    <3> QED BY <2>2, <3>1
  <2>5. W * W - x * (D * D) - (x + D) * (D * D) = e
    <3> DEFINE t1 == W * W
               t2 == x * (D * D)
               t3 == (x + D) * (D * D)
    <3>1. t1 = y * y /\ t2 = s /\ t3 = 0
      BY <2>1, <2>2, <2>3
    <3> HIDE DEF t1, t2, t3, s, e
    <3>2. t1 - t2 - t3 = e
      BY <1>2, <1>5, <3>1
    <3> QED BY <3>2 DEF t1, t2, t3
  <2>6. W * (s - e) - my = y * e
    <3> HIDE DEF s, e
    <3> QED BY <1>2, <1>5
  <2> HIDE DEF e, s, my, D, W
  <2> QED BY <2>3, <2>4, <2>5, <2>6
<1> HIDE DEF D, W
<1>8. /\ Congruent(r.same[1], s, p) /\ Congruent(r.same[2], my, p)
      /\ Congruent(r.sum[1], e, p) /\ Congruent(r.sum[2], y * e, p)
      /\ Congruent(r.sub, r.same[1] - r.sum[1], p)
  <2> HIDE DEF r, e, s, my, x, y, p
  <2> QED BY <1>4, <1>7
<1>9. r.sum = Zero
  <2> DEFINE u == r.sum[1]
             v == r.sum[2]
             ye == y * e
  <2>1. u \in Int /\ v \in Int
    BY <1>3, Coordinates
  <2>2. ye \in Int /\ Congruent(ye, none, p)
    <3>1. y \in Int /\ e \in Int /\ Congruent(e, 0, c.p)
      BY <1>2, <1>5, <1>6
    <3> HIDE DEF e, y
    <3>2. y * e \in Int
      BY <3>1
    <3>3. Congruent(y * e, 0, c.p)
      BY <3>1, NotZero
    <3> QED BY <3>2, <3>3
  <2> HIDE DEF e, ye, none, p, r
  <2>3. Congruent(u, e, p) /\ Congruent(v, ye, p)
    BY <1>8 DEF ye
  <2> HIDE DEF u, v
  <2>0. p \in Nat \ {0} /\ none \in Int /\ e \in Int
    BY <1>2, <1>5
  <2>4. Congruent(u, none, p) /\ Congruent(v, none, p)
    BY <2>0, <1>6, <2>1, <2>2, <2>3, Reckoning
  <2> QED BY <1>3, <2>4, ReducedZero DEF u, v, none, p
<1>10. Cuspidal(r.same, c)
  <2> DEFINE X == r.same[1]
             Y == r.same[2]
             t1 == my * my
             t2 == s * (s * s)
             t3 == Y * Y
             t4 == X * (X * X)
             ss == s * s
             yy == y * y
  <2>1. X \in Int /\ Y \in Int
    BY <1>3, Coordinates
  <2>2. t1 = yy * ss
    <3> HIDE DEF s, y
    <3> QED BY <1>2, <1>5
  <2>3. ss \in Int /\ yy \in Int /\ Congruent(yy, s, p) /\ Congruent(ss, ss, p)
    <3>1. ss \in Int /\ yy \in Int
      <4> HIDE DEF s, y
      <4> QED BY <1>2, <1>5
    <3> HIDE DEF ss
    <3> QED BY <1>2, <3>1, Reckoning DEF Cuspidal
  <2> HIDE DEF r, my, p
  <2>4. Congruent(X, s, p) /\ Congruent(Y, my, p)
    BY <1>8
  <2> HIDE DEF X, Y, s
  <2>5. Congruent(t1, t2, p) /\ t1 \in Int /\ t2 \in Int
    <3>1. t2 = s * ss
      OBVIOUS
    <3> HIDE DEF ss, yy, t1, t2
    <3>2. yy * ss \in Int /\ s * ss \in Int
      BY <1>5, <2>3
    <3> QED BY <1>2, <1>5, <2>2, <2>3, <3>1, <3>2, Product
  <2>6. Congruent(t3, t1, p) /\ t3 \in Int
    BY <1>2, <1>5, <2>1, <2>4, Product
  <2>7. Congruent(X * X, ss, p) /\ X * X \in Int
    BY <1>2, <1>5, <2>1, <2>4, Product
  <2>8. Congruent(t4, t2, p) /\ t4 \in Int
    <3>1. t2 = s * ss
      OBVIOUS
    <3> DEFINE XX == X * X
    <3>2. p \in Nat \ {0} /\ s \in Int /\ ss \in Int /\ XX \in Int /\ Congruent(XX, ss, p)
      BY <1>2, <1>5, <2>3, <2>7
    <3> HIDE DEF ss, XX, t2
    <3>3. X * XX \in Int /\ Congruent(X * XX, s * ss, p)
      BY <2>1, <2>4, <3>2, Product
    <3> QED BY <3>1, <3>3 DEF XX
  <2> HIDE DEF t1, t2, t3, t4
  <2>9. Congruent(t2, t4, p)
    BY <1>2, <2>5, <2>8, Reckoning
  <2>10. Congruent(t3, t4, p)
    BY <1>2, <2>5, <2>6, <2>8, <2>9, Reckoning
  <2> QED BY <1>3, <2>10 DEF Cuspidal, X, Y, t3, t4, p, r
<1> HIDE DEF r
<1>11. Congruent(r.sub, r.same[1] - r.sum[1], c.p)
  BY <1>8
<1> QED BY <1>3, <1>9, <1>10, <1>11 DEF r

-----------------------------------------------------------------------------
(* The last bit, and the 1 / Z that is known before its addition.          *)

(* With 0 for 1 / Z, the result is <<0, 0>>.                               *)
LEMMA ZeroZ ==
  ASSUME NEW c \in Curves, NEW A \in Ints2
  PROVE  apply_z(A, 0, c) = Infinity
<1>1. c.p \in Nat \ {0} /\ 0 % c.p = 0 /\ A[1] \in Int /\ A[2] \in Int
  BY FieldFacts, SameRemainder DEF Ints2
<1>2. A[1] * 0 = 0 /\ A[2] * 0 = 0 /\ 0 * 0 = 0
  BY <1>1
<1> QED BY <1>1, <1>2 DEF apply_z, Infinity

(* A product with 0.                                                       *)
LEMMA FastZero ==
  ASSUME NEW c \in Curves, NEW x \in Int
  PROVE  modMult_fast(0, x, c) = 0 /\ modMult_fast(x, 0, c) = 0
<1>1. c.p \in Nat \ {0} /\ 0 % c.p = 0
  BY FieldFacts, SameRemainder
<1>2. x * 0 = 0 /\ 0 * x = 0
  OBVIOUS
<1> QED BY <1>1, <1>2 DEF modMult_fast

(* So it is if the difference is <<0, 0>>, or the point has 0 for its x.   *)
LEMMA LastAdditionZero ==
  ASSUME NEW c \in Curves, NEW co, co.sum \in Points(c), co.difference \in Points(c),
         NEW bit, NEW point \in Ints2, co.difference = Zero \/ point[1] = 0
  PROVE  LastAddition(co, bit, point, c) = Infinity
<1> DEFINE R == Pair(bit, co.sum, co.difference)
           w == R[2][1] - R[1][1]
           wy == modMult_fast(w, co.difference[2], c)
           z == modMult_fast(wy, point[1], c)
           last == XYcZ_add(co.sum, co.difference, c)
           A == Pair(bit, last.same, last.sum)[1]
<1>1. R[1] \in Ints2 /\ R[2] \in Ints2 /\ co.sum \in Ints2 /\ co.difference \in Ints2
  <2>1. co.sum \in Ints2 /\ co.difference \in Ints2
    BY Coordinates
  <2> QED BY <2>1, PairTyped
<1>2. A \in Ints2
  <2>1. last.same \in Ints2 /\ last.sum \in Ints2
    <3>1. last.same \in Points(c) /\ last.sum \in Points(c)
      BY <1>1, AddPoints
    <3> HIDE DEF last
    <3> QED BY <3>1, Coordinates
  <2> HIDE DEF last
  <2> QED BY <2>1, PairTyped
<1>3. w \in Int /\ co.difference[2] \in Int /\ point[1] \in Int /\ point[2] \in Int
      /\ co.difference[1] \in Int /\ 0 \in Int
  BY <1>1 DEF Ints2
<1>4. z = 0
  <2> HIDE DEF w
  <2>1. CASE co.difference = Zero
    <3>1. co.difference[2] = 0
      BY <2>1 DEF Zero
    <3>2. wy = 0
      BY <1>3, <3>1, FastZero
    <3> HIDE DEF wy
    <3> QED BY <1>3, <3>2, FastZero
  <2>2. CASE point[1] = 0
    <3>1. wy \in Int
      BY <1>3, FastProduct
    <3> HIDE DEF wy
    <3> QED BY <2>2, <3>1, FastZero
  <2> QED BY <2>1, <2>2
<1>5. modInv(0, c.p, c) = 0
  <2>1. 0 \in 0..(c.p - 1)
    BY FieldFacts
  <2> QED BY <2>1, FieldInverse
<1>6. FinalZ(co, bit, point, c) = 0
  <2>1. FinalZ(co, bit, point, c)
          = modMult_fast(modMult_fast(modInv(z, c.p, c), point[2], c), co.difference[1], c)
    BY DEF FinalZ
  <2> HIDE DEF z
  <2> QED BY <1>3, <1>4, <1>5, <2>1, FastZero
<1>7. LastAddition(co, bit, point, c) = apply_z(A, 0, c)
  BY <1>6 DEF LastAddition
<1> HIDE DEF A
<1> QED BY <1>2, <1>7, ZeroZ

(* A product of five, and what is left of it when three are taken away.    *)
LEMMA ProductOfFive ==
  \A w, x, y, z, s, i \in Int :
    /\ (w * (s * (y * (z * (z * z))))) * x \in Int
    /\ (i * y) * (x * (z * z)) \in Int
    /\ ((i * y) * (x * (z * z))) * (z * w) = i * ((w * (1 * (y * (z * (z * z))))) * x)
    /\ ((i * y) * (x * (z * z))) * (z * w) = i * (((-w) * ((-1) * (y * (z * (z * z))))) * x)
  OBVIOUS

(* Otherwise FinalZ() is the inverse of the z that the addition leaves.    *)
LEMMA FinalZExact ==
  ASSUME NEW c \in Curves, NEW co, co.sum \in Points(c), co.difference \in Points(c),
         NEW bit \in BOOLEAN, NEW a \in Int, ~Congruent(a, 0, c.n), Mul(a, c)[1] # 0,
         NEW z \in Int, ~Congruent(z, 0, c.p),
         Scaled(co.difference, Mul(Sign(bit) * a, c), z, c),
         ~Congruent(co.difference[1] - co.sum[1], 0, c.p)
  PROVE  /\ FinalZ(co, bit, Mul(a, c), c) \in Int
         /\ Congruent(FinalZ(co, bit, Mul(a, c), c) * (z * (co.difference[1] - co.sum[1])), 1, c.p)
<1> DEFINE A == Mul(a, c)
           x == A[1]
           y == A[2]
           D == co.difference
           u == D[1]
           v == D[2]
           w == u - co.sum[1]
           s == Sign(bit)
           e == s * w
           x2 == x * (z * z)
           y3 == y * (z * (z * z))
           f1 == modMult_fast(e, v, c)
           f2 == modMult_fast(f1, x, c)
           i == modInv(f2, c.p, c)
           i1 == modMult_fast(i, y, c)
           F == modMult_fast(i1, u, c)
           one == 1
           sy3 == s * y3
<1>1. A \in Points(c) /\ A \in Ints2 /\ uECC_valid_point(A, c) /\ D \in Ints2 /\ co.sum \in Ints2
      /\ c.p \in Nat \ {0}
  BY MulFacts, Coordinates, FieldFacts
<1>2. /\ x \in Int /\ y \in Int /\ u \in Int /\ v \in Int /\ w \in Int /\ s \in {1, -1} /\ s \in Int /\ one \in Int
  BY <1>1 DEF Ints2, Sign
<1>3. e \in Int /\ x2 \in Int /\ y3 \in Int /\ sy3 \in Int /\ z * z \in Int /\ z * (z * z) \in Int
  <2> HIDE DEF w, s, x, y
  <2>1. z * z \in Int /\ z * (z * z) \in Int
    OBVIOUS
  <2>2. y3 \in Int
    BY <1>2, <2>1
  <2>3. e \in Int
    BY <1>2
  <2>4. x2 \in Int
    BY <1>2, <2>1
  <2> HIDE DEF y3
  <2>5. sy3 \in Int
    BY <1>2, <2>2
  <2> QED BY <2>1, <2>2, <2>3, <2>4, <2>5
<1>4. Congruent(u, x2, c.p) /\ Congruent(v, sy3, c.p)
  <2>1. CASE bit
    <3>1. s = 1 /\ s * a = a
      BY <2>1 DEF Sign
    <3>2. Scaled(D, A, z, c) /\ s * y3 = y3
      <4> HIDE DEF y3
      <4> QED BY <1>3, <3>1
    <3> QED BY <3>2 DEF Scaled
  <2>2. CASE ~bit
    <3>1. s = -1 /\ s * a = -a
      BY <2>2 DEF Sign
    <3> DEFINE B == Mul(-a, c)
    <3>2. Scaled(D, B, z, c)
      BY <3>1
    <3>3. B[1] = x /\ Congruent(B[2], -y, c.p) /\ B[2] \in Int /\ -y \in Int
      <4>1. -a \in Int
        OBVIOUS
      <4>2. B \in Ints2
        BY <4>1, MulFacts
      <4> QED BY <1>2, <4>2, MulNegative DEF Ints2
    <3> HIDE DEF B
    <3>4. Congruent(u, x2, c.p) /\ Congruent(v, B[2] * (z * (z * z)), c.p)
      BY <3>2, <3>3 DEF Scaled
    <3> DEFINE z3 == z * (z * z)
               b == B[2]
               b3 == b * z3
               my == -y
    <3>5. z3 \in Int /\ Congruent(z3, z3, c.p) /\ b \in Int /\ my \in Int
      <4>1. z3 \in Int
        BY <1>3
      <4> HIDE DEF z3
      <4> QED BY <1>1, <3>3, <4>1, Reckoning
    <3>6. my * z3 = sy3
      <4>1. y3 = y * z3
        OBVIOUS
      <4> HIDE DEF z3, y, y3
      <4>2. y \in Int /\ s = -1
        BY <1>2, <3>1
      <4> HIDE DEF s
      <4>3. (-y) * z3 = (-1) * (y * z3)
        BY <3>5, <4>2
      <4> QED BY <4>1, <4>2, <4>3
    <3> HIDE DEF z3, b, my, y, sy3
    <3>7. Congruent(b3, sy3, c.p) /\ b3 \in Int
      <4>1. Congruent(b, my, c.p)
        BY <3>3 DEF b, my, y
      <4> QED BY <1>1, <3>5, <3>6, <4>1, Product
    <3> HIDE DEF b3
    <3>8. Congruent(v, b3, c.p)
      BY <3>4 DEF b3, b, z3
    <3> QED BY <1>1, <1>2, <1>3, <3>4, <3>7, <3>8, Reckoning
  <2> QED BY <2>1, <2>2
<1>5. FinalZ(co, bit, A, c) = F
  <2>1. Pair(bit, co.sum, D)[2][1] - Pair(bit, co.sum, D)[1][1] = e
    <3>1. CASE bit
      <4>1. s = 1 /\ Pair(bit, co.sum, D)[2] = D /\ Pair(bit, co.sum, D)[1] = co.sum
        BY <3>1 DEF Sign, Pair
      <4>2. 1 * w = w
        BY <1>2
      <4> QED BY <4>1, <4>2
    <3>2. CASE ~bit
      <4>1. s = -1 /\ Pair(bit, co.sum, D)[2] = co.sum /\ Pair(bit, co.sum, D)[1] = D
        BY <3>2 DEF Sign, Pair
      <4>2. co.sum[1] \in Int
        BY <1>1 DEF Ints2
      <4>3. (-1) * w = co.sum[1] - u
        BY <1>2, <4>2
      <4> QED BY <4>1, <4>3
    <3> QED BY <3>1, <3>2
  <2> HIDE DEF e
  <2> QED BY <2>1 DEF FinalZ
<1> HIDE DEF u, v, x, y, s, w
<1>6. ~Congruent(x, 0, c.p) /\ ~Congruent(y, 0, c.p) /\ ~Congruent(e, 0, c.p) /\ ~Congruent(sy3, 0, c.p)
  <2>1. ~Congruent(x, 0, c.p)
    BY <1>1, Coordinates DEF x
  <2>2. ~Congruent(y, 0, c.p)
    <3>1. y # 0
      BY MulNegative DEF y
    <3> QED BY <1>1, <3>1, Coordinates DEF y
  <2>3. ~Congruent(s, 0, c.p)
    <3> DEFINE un == 1
               none == 0
    <3>1. 2 < c.p /\ c.p \in Nat
      BY FieldFacts
    <3>2. un \in 0..(c.p - 1) /\ none \in 0..(c.p - 1) /\ un # none /\ un \in Int /\ none \in Int
      BY <3>1
    <3>3. s * s = un
      BY <1>2
    <3> HIDE DEF un
    <3>4. ~Congruent(un, none, c.p)
      <4> HIDE DEF none
      <4> QED BY <1>1, <3>2, SameRemainder
    <3> QED BY <1>2, <3>3, <3>4, NotZero
  <2>4. ~Congruent(w, 0, c.p)
    BY DEF w, u
  <2>5. ~Congruent(e, 0, c.p)
    BY <1>2, <2>3, <2>4, NotZero
  <2>6. ~Congruent(z * z, 0, c.p)
    BY NotZero
  <2>7. ~Congruent(z * (z * z), 0, c.p)
    BY <1>3, <2>6, NotZero
  <2>8. ~Congruent(y3, 0, c.p)
    BY <1>2, <1>3, <2>2, <2>7, NotZero
  <2> HIDE DEF y3
  <2>9. ~Congruent(sy3, 0, c.p)
    BY <1>2, <1>3, <2>3, <2>8, NotZero
  <2> QED BY <2>1, <2>2, <2>5, <2>9
<1> HIDE DEF x2, sy3, e
<1> DEFINE g1 == e * sy3
           g2 == g1 * x
<1>7. g1 \in Int /\ f1 \in Int /\ Congruent(f1, g1, c.p) /\ ~Congruent(g1, 0, c.p)
  <2>1. Congruent(e, e, c.p)
    BY <1>1, <1>3, Reckoning
  <2>2. g1 \in Int
    BY <1>3
  <2>3. ((e * v) % c.p) \in Int /\ Congruent((e * v) % c.p, e * sy3, c.p)
    BY <1>1, <1>2, <1>3, <1>4, <2>1, Product
  <2>4. ~Congruent(e * sy3, 0, c.p)
    BY <1>3, <1>6, NotZero
  <2> QED BY <2>2, <2>3, <2>4 DEF modMult_fast
<1> HIDE DEF f1, g1
<1>8. g2 \in Int /\ f2 \in 0..(c.p - 1) /\ f2 \in Int /\ Congruent(f2, g2, c.p) /\ ~Congruent(g2, 0, c.p)
  <2>1. Congruent(x, x, c.p)
    BY <1>1, <1>2, Reckoning
  <2>2. g2 \in Int /\ f1 * x \in Int
    BY <1>2, <1>7
  <2>3. ((f1 * x) % c.p) \in Int /\ Congruent((f1 * x) % c.p, g1 * x, c.p)
    BY <1>1, <1>2, <1>7, <2>1, Product
  <2>4. ~Congruent(g1 * x, 0, c.p)
    BY <1>2, <1>7, <1>6, NotZero
  <2>5. (f1 * x) % c.p \in 0..(c.p - 1)
    <3> DEFINE t == f1 * x
    <3> HIDE DEF t
    <3>1. t % c.p \in 0..(c.p - 1)
      BY <1>1, <2>2, Reckoning DEF t
    <3> QED BY <3>1 DEF t
  <2> QED BY <2>2, <2>3, <2>4, <2>5 DEF modMult_fast
<1> HIDE DEF f2
<1>9. i \in Int /\ Congruent(i * f2, 1, c.p)
  <2>1. f2 # 0
    <3>1. ~Congruent(f2, 0, c.p)
      <4> DEFINE none == 0
      <4>1. none \in Int
        OBVIOUS
      <4> HIDE DEF none, g2
      <4>2. ASSUME Congruent(f2, none, c.p) PROVE Congruent(g2, none, c.p)
        BY <1>1, <1>8, <4>1, <4>2, Reckoning
      <4> QED BY <1>8, <4>2 DEF none
    <3>2. Congruent(0, 0, c.p)
      BY <1>1, Reckoning
    <3> QED BY <3>1, <3>2
  <2> QED BY <1>8, <2>1, FieldInverse
<1> HIDE DEF i, g2
<1>10. Congruent(i * g2, one, c.p) /\ i * g2 \in Int
  <2>1. Congruent(i, i, c.p) /\ Congruent(g2, f2, c.p)
    BY <1>1, <1>8, <1>9, Reckoning
  <2>2. Congruent(i * g2, i * f2, c.p)
    BY <1>1, <1>8, <1>9, <2>1, Product
  <2> DEFINE t1 == i * g2
             t2 == i * f2
  <2>3. t1 \in Int /\ t2 \in Int /\ Congruent(t1, t2, c.p) /\ Congruent(t2, one, c.p)
    BY <1>8, <1>9, <2>2
  <2> HIDE DEF t1, t2, one
  <2>4. Congruent(t1, one, c.p)
    BY <1>1, <1>2, <2>3, Reckoning
  <2> QED BY <2>3, <2>4 DEF t1
<1> DEFINE h1 == i * y
           h == h1 * x2
<1>11. h1 \in Int /\ i1 \in Int /\ Congruent(i1, h1, c.p)
  <2>1. Congruent(i, i, c.p) /\ Congruent(y, y, c.p)
    BY <1>1, <1>2, <1>9, Reckoning
  <2>2. (i * y) % c.p \in Int /\ Congruent((i * y) % c.p, i * y, c.p)
    BY <1>1, <1>2, <1>9, <2>1, Product
  <2>3. h1 \in Int
    BY <1>2, <1>9
  <2> QED BY <2>2, <2>3 DEF modMult_fast
<1> HIDE DEF i1, h1
<1>12. h \in Int /\ F \in Int /\ Congruent(F, h, c.p)
  <2>1. (i1 * u) % c.p \in Int /\ Congruent((i1 * u) % c.p, h1 * x2, c.p)
    BY <1>1, <1>2, <1>3, <1>4, <1>11, Product
  <2>2. h \in Int
    BY <1>3, <1>11
  <2> QED BY <2>1, <2>2 DEF modMult_fast
<1> HIDE DEF F, h
<1> DEFINE zw == z * w
<1>13. h * zw = i * g2
  <2>1. h * zw = ((i * y) * (x * (z * z))) * (z * w)
    BY DEF h, h1, x2
  <2>2. g2 = (e * sy3) * x
    BY DEF g2, g1
  <2>3. CASE s = 1
    <3>1. g2 = (w * (1 * (y * (z * (z * z))))) * x
      <4>1. e = w
        BY <1>2, <2>3 DEF e
      <4> QED BY <2>2, <2>3, <4>1 DEF sy3, y3
    <3> QED BY <1>2, <1>9, <2>1, <3>1, ProductOfFive
  <2>4. CASE s = -1
    <3>1. g2 = ((-w) * ((-1) * (y * (z * (z * z))))) * x
      <4>1. e = -w
        BY <1>2, <2>4 DEF e
      <4> QED BY <2>2, <2>4, <4>1 DEF sy3, y3
    <3> QED BY <1>2, <1>9, <2>1, <3>1, ProductOfFive
  <2> QED BY <1>2, <2>3, <2>4
<1>14. zw \in Int
  BY <1>2
<1> HIDE DEF zw
<1>15. Congruent(F * zw, one, c.p)
  <2>1. Congruent(zw, zw, c.p)
    BY <1>1, <1>14, Reckoning
  <2>2. Congruent(F * zw, h * zw, c.p)
    BY <1>1, <1>12, <1>14, <2>1, Product
  <2> DEFINE t1 == F * zw
             t2 == h * zw
  <2>3. t1 \in Int /\ t2 \in Int /\ Congruent(t1, t2, c.p) /\ Congruent(t2, one, c.p)
    BY <1>10, <1>12, <1>13, <1>14, <2>2
  <2> HIDE DEF t1, t2, one
  <2>4. Congruent(t1, one, c.p)
    BY <1>1, <1>2, <2>3, Reckoning
  <2> QED BY <2>4 DEF t1
<1> QED BY <1>5, <1>12, <1>15 DEF zw, w, u, one

(* The end of the ladder: what the last bit makes of a rung.               *)
LEMMA LastBitExact ==
  ASSUME NEW c \in Curves, NEW up, up \in LadderStates, NEW scalar,
         NEW m \in Int, NEW a \in Int, Rung(up.R, up.sub, m, a, c),
         ~Congruent(a, 0, c.n), ~Congruent(m, 0, c.n), ~Congruent(m + 1, 0, c.n)
  PROVE  LET done == LastBit(up, scalar, Mul(a, c), c)
         IN /\ Congruent(2 * m + 1, 0, c.n) \/ Mul(a, c)[1] = 0 => done = Infinity
            /\ ~Congruent(2 * m + 1, 0, c.n) /\ Mul(a, c)[1] # 0 =>
                 done = Mul((2 * m + Digit(vli_testBit(scalar, 0))) * a, c)
<1> DEFINE bit == vli_testBit(scalar, 0)
           co == CoZ(up.R, up.sub, bit, c)
           A == Mul(a, c)
           done == LastBit(up, scalar, A, c)
<1>1. bit \in BOOLEAN
  BY DEF vli_testBit
<1>2. done = LastAddition(co, bit, A, c)
  BY DEF LastBit
<1>3. co.sum \in Points(c) /\ co.difference \in Points(c) /\ A \in Ints2
  <2>1. up.R \in Ints2 \X Ints2 /\ up.sub \in Int
    BY DEF LadderStates
  <2> HIDE DEF bit
  <2> QED BY <2>1, CoZPoints, MulFacts
<1> HIDE DEF bit, done
<1>4. ASSUME Congruent(2 * m + 1, 0, c.n) \/ A[1] = 0 PROVE done = Infinity
  <2>1. ASSUME Congruent(2 * m + 1, 0, c.n) PROVE co.difference = Zero
    BY <1>1, <2>1, OppositeTurn
  <2> HIDE DEF co, A
  <2> QED BY <1>2, <1>3, <1>4, <2>1, LastAdditionZero
<1>5. ASSUME ~Congruent(2 * m + 1, 0, c.n), A[1] # 0
      PROVE  done = Mul((2 * m + Digit(bit)) * a, c)
  <2> DEFINE next == XYcZ_add(co.sum, co.difference, c)
             s == Pair(bit, next.same, next.sum)
             B == Mul((2 * m + Digit(bit)) * a, c)
             w == co.difference[1] - co.sum[1]
  <2>1. /\ s[1] \in Points(c)
        /\ \E z \in Int :
             /\ ~Congruent(z, 0, c.p)
             /\ Scaled(co.difference, Mul(Sign(bit) * a, c), z, c)
             /\ ~Congruent(w, 0, c.p)
             /\ Scaled(s[1], B, z * w, c)
    BY <1>1, <1>5, WholeTurn, SMTT(60)
  <2>2. PICK z \in Int :
             /\ ~Congruent(z, 0, c.p)
             /\ Scaled(co.difference, Mul(Sign(bit) * a, c), z, c)
             /\ ~Congruent(w, 0, c.p)
             /\ Scaled(s[1], B, z * w, c)
    BY <2>1
  <2> DEFINE F == FinalZ(co, bit, A, c)
             f == z * w
  <2>3. F \in Int /\ Congruent(F * f, 1, c.p)
    <3> HIDE DEF co
    <3> QED BY <1>1, <1>3, <1>5, <2>2, FinalZExact
  <2>4. done = apply_z(s[1], F, c)
    BY <1>2 DEF LastAddition
  <2>5. B \in Points(c) /\ f \in Int /\ s[1] \in Ints2
    <3>1. (2 * m + Digit(bit)) * a \in Int
      BY DEF Digit
    <3>2. co.difference[1] \in Int /\ co.sum[1] \in Int
      <4> HIDE DEF co
      <4> QED BY <1>3, Coordinates
    <3>3. f \in Int
      <4>1. w \in Int
        BY <3>2
      <4> HIDE DEF w
      <4> QED BY <4>1
    <3> HIDE DEF s
    <3> QED BY <2>1, <3>1, <3>3, MulFacts, Coordinates
  <2>6. Scaled(s[1], B, f, c)
    BY <2>2
  <2> HIDE DEF f, B, F, s
  <2>7. apply_z(s[1], F, c) = B
    BY <2>3, <2>5, <2>6, ApplyZBack
  <2> QED BY <2>4, <2>7 DEF B
<1> QED BY <1>4, <1>5 DEF done, bit

(* A ladder that got to the cusp ends at the point at infinity.            *)
LEMMA LastBitCusp ==
  ASSUME NEW c \in Curves, NEW up, up \in LadderStates, NEW scalar, Cusp(up.R, up.sub, c),
         NEW point \in Ints2
  PROVE  LastBit(up, scalar, point, c) = Infinity
<1> DEFINE bit == vli_testBit(scalar, 0)
           R == up.R
           co == CoZ(R, up.sub, bit, c)
           sub == up.sub
<1>1. bit \in BOOLEAN
  BY DEF vli_testBit
<1>2. LastBit(up, scalar, point, c) = LastAddition(co, bit, point, c)
  BY DEF LastBit
<1> HIDE DEF bit
<1>3. co.sum \in Points(c) /\ co.difference \in Points(c)
  <2>1. up.R \in Ints2 \X Ints2 /\ up.sub \in Int
    BY DEF LadderStates
  <2> QED BY <2>1, CoZPoints
<1>4. /\ Cuspidal(R[1], c) /\ Cuspidal(R[2], c) /\ (R[1] = Zero \/ R[2] = Zero)
      /\ sub \in Int /\ OfX(R, sub, c)
  BY DEF Cusp
<1>5. R[1] \in Ints2 /\ R[2] \in Ints2
  BY <1>4, Coordinates DEF Cuspidal
<1> HIDE DEF R, sub
<1>6. OfX(<<R[2], R[1]>>, sub, c)
  BY <1>4, <1>5, EitherOrder
<1>7. CASE bit
  <2>1. co = XYcZ_addC(R[2], R[1], sub, c)
    BY <1>7 DEF CoZ, sub
  <2>2. co.difference = Zero
    <3> HIDE DEF co
    <3> QED BY <1>4, <1>6, <2>1, CuspPoints DEF OfX
  <2> HIDE DEF co
  <2> QED BY <1>2, <1>3, <2>2, LastAdditionZero
<1>8. CASE ~bit
  <2>1. co = XYcZ_addC(R[1], R[2], sub, c)
    BY <1>8 DEF CoZ, sub
  <2>2. co.difference = Zero
    <3> HIDE DEF co
    <3> QED BY <1>4, <2>1, CuspPoints DEF OfX
  <2> HIDE DEF co
  <2> QED BY <1>2, <1>3, <2>2, LastAdditionZero
<1> QED BY <1>1, <1>7, <1>8

(* A turn that finds opposite points leaves a cusp.                        *)
LEMMA TurnToCusp ==
  ASSUME NEW c \in Curves, NEW co, Cuspidal(co.sum, c), co.difference = Zero, NEW bit \in BOOLEAN
  PROVE  LET next == XYcZ_add(co.sum, co.difference, c)
         IN Cusp(Pair(bit, next.same, next.sum), next.sub, c)
<1> DEFINE next == XYcZ_add(co.sum, co.difference, c)
           s == Pair(bit, next.same, next.sum)
<1>1. /\ Cuspidal(next.same, c) /\ next.sum = Zero
      /\ next.sub \in Int /\ Congruent(next.sub, next.same[1] - next.sum[1], c.p)
  BY CuspSum
<1> HIDE DEF next
<1>2. Cuspidal(Zero, c)
  <2>1. Zero \in Points(c)
    BY FieldFacts DEF Zero, Points
  <2>2. c.p \in Nat \ {0} /\ 0 * 0 = 0 /\ 0 * (0 * 0) = 0 /\ Congruent(0, 0, c.p)
    BY FieldFacts, Reckoning
  <2> QED BY <2>1, <2>2 DEF Cuspidal, Zero
<1>3. next.same \in Ints2 /\ next.sum \in Ints2
  BY <1>1, <1>2, Coordinates DEF Cuspidal
<1>4. OfX(<<next.sum, next.same>>, next.sub, c)
  <2> DEFINE e == next.same[1] - next.sum[1]
             u == next.sub
  <2>1. e \in Int /\ u \in Int /\ Congruent(u, e, c.p) /\ c.p \in Nat \ {0}
    BY <1>1, <1>3, FieldFacts DEF Ints2
  <2>2. Congruent(u * u, e * e, c.p)
    <3> HIDE DEF e, u
    <3> QED BY <2>1, Product
  <2> QED BY <2>2 DEF OfX
<1>5. OfX(<<next.same, next.sum>>, next.sub, c)
  BY <1>1, <1>3, <1>4, EitherOrder
<1>6. ASSUME bit PROVE Cusp(s, next.sub, c)
  <2>1. s = <<next.same, next.sum>>
    BY <1>6 DEF Pair
  <2> HIDE DEF s
  <2>2. s = <<s[1], s[2]>> /\ s[1] = next.same /\ s[2] = next.sum /\ OfX(s, next.sub, c)
    BY <1>5, <2>1
  <2>3. Cusp(s, next.sub, c)
    BY <1>1, <1>2, <2>2 DEF Cusp
  <2> QED BY <2>3
<1>7. ASSUME ~bit PROVE Cusp(s, next.sub, c)
  <2>1. s = <<next.sum, next.same>>
    BY <1>7 DEF Pair
  <2> HIDE DEF s
  <2>2. s = <<s[1], s[2]>> /\ s[1] = next.sum /\ s[2] = next.same /\ OfX(s, next.sub, c)
    BY <1>4, <2>1
  <2>3. Cusp(s, next.sub, c)
    BY <1>1, <1>2, <2>2 DEF Cusp
  <2> QED BY <2>3
<1> QED BY <1>6, <1>7 DEF next

-----------------------------------------------------------------------------
(* All turns. The prefixes of the scalar say which rung a turn stands on;  *)
(* below 2n there are two in which the points of a turn are opposite.      *)

(* A turn whose bit is the next one of a number K.                         *)
LEMMA TurnExact ==
  ASSUME NEW c \in Curves, NEW was \in LadderStates, NEW scalar, NEW i,
         NEW m \in Int, NEW a \in Int, Rung(was.R, was.sub, m, a, c),
         ~Congruent(a, 0, c.n), ~Congruent(m, 0, c.n), ~Congruent(m + 1, 0, c.n)
  PROVE  LET s == LadderTurn(was, scalar, i, c)
         IN /\ ~Congruent(2 * m + 1, 0, c.n) =>
                 Rung(s.R, s.sub, 2 * m + Digit(vli_testBit(scalar, i)), a, c)
            /\ Congruent(2 * m + 1, 0, c.n) => Cusp(s.R, s.sub, c)
<1> DEFINE bit == vli_testBit(scalar, i)
           co == CoZ(was.R, was.sub, bit, c)
           next == XYcZ_add(co.sum, co.difference, c)
           s == LadderTurn(was, scalar, i, c)
<1>1. bit \in BOOLEAN
  BY DEF vli_testBit
<1>2. s.R = Pair(bit, next.same, next.sum) /\ s.sub = next.sub
  BY DEF LadderTurn
<1> HIDE DEF bit, s
<1>3. ASSUME ~Congruent(2 * m + 1, 0, c.n) PROVE Rung(s.R, s.sub, 2 * m + Digit(bit), a, c)
  <2>1. Rung(Pair(bit, next.same, next.sum), next.sub, 2 * m + Digit(bit), a, c)
    BY <1>1, <1>3, WholeTurn
  <2> QED BY <1>2, <2>1
<1>4. ASSUME Congruent(2 * m + 1, 0, c.n) PROVE Cusp(s.R, s.sub, c)
  <2>1. co.difference = Zero /\ Cuspidal(co.sum, c)
    BY <1>1, <1>4, OppositeTurn
  <2>2. Cusp(Pair(bit, next.same, next.sum), next.sub, c)
    <3> HIDE DEF co
    <3> QED BY <1>1, <2>1, TurnToCusp
  <2> QED BY <1>2, <2>2
<1> QED BY <1>3, <1>4 DEF s, bit

(* Adding a multiple of 2b does not change bit b.                          *)
LEMMA SameBit ==
  ASSUME NEW b \in Nat \ {0}, NEW h \in Int, NEW r \in Int
  PROVE  ((2 * (b * h) + r) \div b) % 2 = (r \div b) % 2
<1> DEFINE t == r \div b
           s == t \div 2
           e == t % 2
           rb == r % b
<1>1. t \in Int /\ rb \in 0..(b - 1) /\ r = t * b + rb
  BY Division
<1> HIDE DEF t, rb
<1>2. s \in Int /\ e \in 0..(2 - 1) /\ t = s * 2 + e
  BY <1>1, Division
<1> HIDE DEF s, e
<1>3. 2 * (b * h) + r = (2 * h + t) * b + rb /\ 2 * h + t \in Int
  BY <1>1
<1>4. (2 * (b * h) + r) \div b = 2 * h + t
  BY <1>1, <1>3, DivisionUnique
<1>5. 2 * h + t = (h + s) * 2 + e /\ h + s \in Int
  BY <1>2
<1>6. (2 * h + t) % 2 = e
  BY <1>2, <1>5, DivisionUnique
<1> QED BY <1>4, <1>6 DEF e, t

(* The number whose bits the ladder takes, a one and the low bits of y,    *)
(* shifted down.                                                           *)
Leading(K, i) == K \div Pow2[i]
Bit(y, i) == (y \div Pow2[i]) % 2
Topped(K, N, y) == K = Pow2[N] + (y % Pow2[N])
(* The prefixes of a number that begins with bit N: each has one bit more  *)
(* than the one before it.                                                 *)
LEMMA Prefixes ==
  ASSUME NEW N \in Nat, NEW y \in Nat, NEW K, Topped(K, N, y)
  PROVE  /\ K \in Nat /\ Leading(K, N) = 1
         /\ \A i \in 0..(N - 1) : Leading(K, i) = 2 * Leading(K, i + 1) + Bit(y, i) /\ Bit(y, i) \in {0, 1}
         /\ \A i \in 0..N : Leading(K, i) \in 1..(2 * Pow2[N - i] - 1)
<1> DEFINE M == Pow2[N]
           low == y % M
           q == y \div M
<1>1. M \in Nat \ {0}
  BY Pow2Defined
<1> HIDE DEF M
<1>2. low \in 0..(M - 1) /\ q \in Int /\ y = q * M + low
  BY <1>1, Division
<1>3. K = 1 * M + low /\ K \in Nat
  <2>1. K = M + low
    BY DEF M, Topped
  <2> HIDE DEF low
  <2> QED BY <1>1, <1>2, <2>1
<1> HIDE DEF low, q
<1>4. Leading(K, N) = 1
  <2> DEFINE one == 1
  <2>1. one \in Int /\ K = one * M + low
    BY <1>3
  <2> HIDE DEF one
  <2>2. (one * M + low) \div M = one
    BY <1>1, <1>2, <2>1, DivisionUnique
  <2> QED BY <2>1, <2>2 DEF M, one, Leading
<1>5. ASSUME NEW i \in 0..(N - 1)
      PROVE  Leading(K, i) = 2 * Leading(K, i + 1) + Bit(y, i) /\ Bit(y, i) \in {0, 1}
  <2> DEFINE b == Pow2[i]
             h == Pow2[N - (i + 1)]
             k0 == K \div b
             y0 == y \div b
             f == 1 - q
  <2>1. /\ b \in Nat \ {0} /\ h \in Nat \ {0} /\ Pow2[i + 1] = 2 * b /\ i \in Nat
        /\ N = (i + 1) + (N - (i + 1)) /\ i + 1 \in Nat /\ N - (i + 1) \in Nat
    BY Pow2Defined
  <2>2. M = Pow2[i + 1] * h
    BY <2>1, Pow2Plus DEF M
  <2>3. M = 2 * (b * h)
    <3> HIDE DEF b, h
    <3> QED BY <2>1, <2>2
  <2>4. K = 2 * (b * (h * f)) + y /\ h * f \in Int
    <3> DEFINE bh == b * h
    <3>1. bh \in Int /\ f \in Int /\ h \in Int /\ b \in Int
      BY <1>2, <2>1
    <3>2. b * (h * f) = bh * f /\ h * f \in Int
      <4> HIDE DEF b, h, f
      <4> QED BY <3>1
    <3> HIDE DEF bh, b, h, f
    <3>3. M = 2 * bh
      BY <2>3 DEF bh
    <3>4. K = 2 * (bh * f) + y
      <4>1. 2 * (bh * f) = (2 * bh) * f
        BY <3>1
      <4>2. K = M * f + y
        BY <1>1, <1>2, <1>3 DEF f
      <4> QED BY <3>3, <4>1, <4>2
    <3> QED BY <3>2, <3>4
  <2> HIDE DEF b, h, f
  <2>5. k0 % 2 = y0 % 2
    <3> DEFINE e == h * f
               kk == 2 * (b * e) + y
    <3>1. e \in Int /\ K = kk
      BY <2>4
    <3> HIDE DEF e
    <3>2. (kk \div b) % 2 = (y \div b) % 2
      BY <2>1, <3>1, SameBit
    <3> QED BY <3>1, <3>2
  <2>6. k0 \in Int
    BY <1>3, <2>1, Division
  <2>7. K \div (b * 2) = k0 \div 2
    BY <1>3, <2>1, DivideTwice
  <2> HIDE DEF k0, y0
  <2>8. k0 = (k0 \div 2) * 2 + (k0 % 2) /\ k0 \div 2 \in Int /\ k0 % 2 \in 0..(2 - 1)
    BY <2>6, Division
  <2>9. Pow2[i + 1] = b * 2
    BY <2>1
  <2>10. K \div Pow2[i + 1] = k0 \div 2
    BY <2>7, <2>9
  <2>11. Leading(K, i) = k0 /\ Leading(K, i + 1) = k0 \div 2 /\ Bit(y, i) = y0 % 2
    BY <2>10 DEF k0, y0, b, Leading, Bit
  <2> QED BY <2>5, <2>8, <2>11
<1>6. ASSUME NEW i \in 0..N
      PROVE  Leading(K, i) \in 1..(2 * Pow2[N - i] - 1)
  <2> DEFINE b == Pow2[i]
             h == Pow2[N - i]
             k0 == K \div b
             r == K % b
  <2>1. b \in Nat \ {0} /\ h \in Nat \ {0} /\ M = b * h
    <3>1. i \in Nat /\ N - i \in Nat /\ N = i + (N - i)
      OBVIOUS
    <3> QED BY <3>1, Pow2Defined, Pow2Plus DEF M
  <2> HIDE DEF b, h
  <2>2. k0 \in Int /\ r \in 0..(b - 1) /\ K = k0 * b + r
    <3>1. K \in Int
      BY <1>3
    <3> QED BY <2>1, <3>1, Division
  <2> HIDE DEF k0, r
  <2>3. b * h <= K /\ K < 2 * (b * h)
    BY <1>1, <1>2, <1>3, <2>1
  <2>4. ASSUME k0 < h PROVE FALSE
    <3>1. k0 + 1 <= h
      BY <2>1, <2>2, <2>4
    <3>2. (k0 + 1) * b <= h * b
      BY <2>1, <2>2, <3>1
    <3>3. (k0 + 1) * b = k0 * b + b /\ h * b = b * h
      BY <2>1, <2>2
    <3> QED BY <2>1, <2>2, <2>3, <3>2, <3>3
  <2>5. ASSUME 2 * h <= k0 PROVE FALSE
    <3>1. (2 * h) * b <= k0 * b
      BY <2>1, <2>2, <2>5
    <3>2. (2 * h) * b = 2 * (b * h)
      BY <2>1, <2>2
    <3> QED BY <2>1, <2>2, <2>3, <3>1, <3>2
  <2>6. k0 \in 1..(2 * h - 1)
    BY <2>1, <2>2, <2>4, <2>5
  <2> QED BY <2>6 DEF k0, b, h, Leading
<1> QED BY <1>3, <1>4, <1>5, <1>6

(* A number between 0 and n is not a multiple of n; up to 2n, only n is.   *)
LEMMA Between ==
  ASSUME NEW n \in Nat \ {0}, NEW x \in Nat, 0 < x, x < 2 * n
  PROVE  Congruent(x, 0, n) <=> x = n
<1>1. ASSUME x = n PROVE Congruent(x, 0, n)
  <2>1. x = 0 + 1 * n
    BY <1>1
  <2> QED BY <2>1 DEF Congruent
<1>2. ASSUME Congruent(x, 0, n) PROVE x = n
  <2>1. PICK q \in Int : x = 0 + q * n
    BY <1>2 DEF Congruent
  <2>2. x = q * n
    BY <2>1
  <2>3. ASSUME q <= 0 PROVE FALSE
    <3>1. q * n <= 0 * n
      BY <2>3
    <3> QED BY <2>2, <3>1
  <2>4. ASSUME 2 <= q PROVE FALSE
    <3>1. 2 * n <= q * n
      BY <2>4
    <3> QED BY <2>2, <3>1
  <2>5. q = 1
    BY <2>3, <2>4
  <2> QED BY <2>2, <2>5
<1> QED BY <1>1, <1>2

(* The first rung: A and 2 A.                                              *)
LEMMA FirstRung ==
  ASSUME NEW c \in Curves, NEW a \in Int, ~Congruent(a, 0, c.n), NEW z \in 1..(c.p - 1)
  PROVE  LET start == XYcZ_initial_double(Mul(a, c), z, c)
             R == <<start.same, start.twice>>
             sub == (start.same[1] - start.twice[1]) % c.p
         IN /\ R \in Ints2 \X Ints2 /\ sub \in Int
            /\ Rung(R, sub, 1, a, c)
<1> DEFINE start == XYcZ_initial_double(Mul(a, c), z, c)
           R == <<start.same, start.twice>>
           sub == (start.same[1] - start.twice[1]) % c.p
<1>1. PICK f \in Int :
        /\ ~Congruent(f, 0, c.p)
        /\ start.same \in Ints2 /\ Scaled(start.same, Mul(a, c), f, c)
        /\ start.twice \in Ints2 /\ Scaled(start.twice, Mul(2 * a, c), f, c)
  BY InitialDoubleExact
<1> HIDE DEF start
<1> DEFINE e == start.same[1] - start.twice[1]
<1>2. e \in Int /\ c.p \in Nat \ {0} /\ start.same[1] \in Int /\ start.twice[1] \in Int
  BY <1>1, FieldFacts DEF Ints2
<1>3. sub \in Int /\ Congruent(sub, e, c.p)
  <2> HIDE DEF e
  <2>1. e % c.p \in Int /\ Congruent(e % c.p, e, c.p)
    BY <1>2, Reckoning
  <2> QED BY <2>1 DEF e
<1> HIDE DEF sub
<1>4. OfX(<<start.twice, start.same>>, sub, c)
  <2>1. Congruent(sub * sub, e * e, c.p)
    <3> HIDE DEF e
    <3> QED BY <1>2, <1>3, Product
  <2> QED BY <2>1 DEF OfX
<1>5. OfX(R, sub, c)
  BY <1>1, <1>3, <1>4, EitherOrder
<1>6. 1 * a = a /\ (1 + 1) * a = 2 * a
  OBVIOUS
<1>7. R = <<R[1], R[2]>> /\ R[1] = start.same /\ R[2] = start.twice
  OBVIOUS
<1> HIDE DEF R
<1>8. Rung(R, sub, 1, a, c)
  BY <1>1, <1>3, <1>5, <1>6, <1>7 DEF Rung
<1>9. R \in Ints2 \X Ints2
  BY <1>1 DEF R
<1> QED BY <1>3, <1>8, <1>9 DEF R, sub, start

(* The rungs down to bit 2 are regular: 2m + 1 is smaller than n there.    *)
LEMMA RungsDown ==
  ASSUME NEW c \in Curves, NEW a \in Int, ~Congruent(a, 0, c.n),
         NEW scalar \in VlisOf(c), NEW N, N = c.num_n_bits,
         NEW K, Topped(K, N, Value(scalar)), NEW after,
         \A i \in 1..N : after[i] \in LadderStates,
         \A i \in 1..(N - 1) : after[i] = LadderTurn(after[i + 1], scalar, i, c),
         Rung(after[N].R, after[N].sub, 1, a, c)
  PROVE  Rung(after[2].R, after[2].sub, Leading(K, 2), a, c)
<1> DEFINE y == Value(scalar)
<1>1. /\ c.n \in Nat \ {0} /\ N \in Nat /\ 1 < N /\ N <= c.num_words * WordBits
      /\ Pow2[N - 1] <= c.n /\ c.num_words \in Nat /\ scalar \in Vlis(c.num_words)
  BY CurveFacts, CurveAssumption DEF VlisOf
<1>2. y \in Nat
  <2>1. y \in Int /\ 0 <= y
    BY <1>1, ValueBound
  <2> HIDE DEF y
  <2> QED BY <2>1
<1>3. /\ K \in Nat /\ Leading(K, N) = 1
      /\ \A i \in 0..(N - 1) : Leading(K, i) = 2 * Leading(K, i + 1) + Bit(y, i) /\ Bit(y, i) \in {0, 1}
      /\ \A i \in 0..N : Leading(K, i) \in 1..(2 * Pow2[N - i] - 1)
  <2>1. Topped(K, N, y) /\ N \in Nat
    BY <1>1
  <2> HIDE DEF y
  <2> QED BY <1>2, <2>1, Prefixes
<1> DEFINE S == {j \in 0..(N - 2) : Rung(after[N - j].R, after[N - j].sub, Leading(K, N - j), a, c)}
<1>4. 0 \in S
  <2>1. N - 0 = N /\ Leading(K, N) = 1 /\ 0 \in 0..(N - 2)
    BY <1>1, <1>3
  <2> QED BY <2>1
<1>5. ASSUME NEW j \in 0..((N - 2) - 1), j \in S PROVE j + 1 \in S
  <2> DEFINE i == N - (j + 1)
             m == Leading(K, i + 1)
             bit == vli_testBit(scalar, i)
  <2>1. /\ i \in 1..(N - 1) /\ i \in 0..(N - 1) /\ i \in 0..N /\ i + 1 = N - j /\ 2 <= i
        /\ i + 1 \in 1..N /\ i + 1 \in 0..N /\ j + 1 \in 0..(N - 2)
        /\ i \in 0..(c.num_words * WordBits - 1) /\ i \in Nat /\ N - (i + 1) \in Nat
        /\ N - (i + 1) < N - 1 /\ N - 1 \in Nat /\ (N - (i + 1)) + 1 <= N - 2
        /\ N - (j + 1) = i
    BY <1>1, BaseFacts, SMTT(60)
  <2> HIDE DEF i
  <2>2. bit <=> (y \div Pow2[i]) % 2 = 1
    BY <1>1, <2>1, TestBitExact
  <2>3. Digit(bit) = Bit(y, i)
    <3>1. bit <=> Bit(y, i) = 1
      BY <2>2 DEF Bit
    <3> HIDE DEF bit, y
    <3> QED BY <1>3, <2>1, <3>1 DEF Digit
  <2>4. Leading(K, i) = 2 * m + Digit(bit) /\ m \in 1..(2 * Pow2[N - (i + 1)] - 1)
    <3> HIDE DEF y, bit
    <3> QED BY <1>3, <2>1, <2>3
  <2>5. 4 * Pow2[N - (i + 1)] <= c.n
    <3> DEFINE h == N - (i + 1)
    <3>1. h \in Nat /\ h + 1 \in Nat /\ h + 1 < N - 1 /\ N - 1 \in Nat
      BY <1>1, <2>1
    <3> HIDE DEF h
    <3>2. Pow2[h + 1] = 2 * Pow2[h] /\ 2 * Pow2[h + 1] <= Pow2[N - 1]
          /\ Pow2[h] \in Nat /\ Pow2[h + 1] \in Nat /\ Pow2[N - 1] \in Nat
      BY <3>1, Pow2Defined, Pow2Less
    <3>3. 4 * Pow2[h] <= c.n
      BY <1>1, <3>2
    <3> QED BY <3>3 DEF h
  <2>6. Rung(after[i + 1].R, after[i + 1].sub, m, a, c)
    BY <1>5, <2>1
  <2> HIDE DEF m, y
  <2> DEFINE P2 == Pow2[N - (i + 1)]
  <2>7. P2 \in Nat
    BY <2>1, Pow2Defined
  <2>8. 0 < m /\ m + 1 < c.n /\ 2 * m + 1 < c.n /\ m \in Nat
    <3> HIDE DEF P2
    <3>1. m \in 1..(2 * P2 - 1) /\ 4 * P2 <= c.n
      BY <2>4, <2>5 DEF P2
    <3> QED BY <1>1, <2>7, <3>1
  <2>9. ~Congruent(m, 0, c.n) /\ ~Congruent(m + 1, 0, c.n) /\ ~Congruent(2 * m + 1, 0, c.n)
    <3>1. /\ m \in Nat /\ 0 < m /\ m < 2 * c.n /\ m # c.n
          /\ m + 1 \in Nat /\ 0 < m + 1 /\ m + 1 < 2 * c.n /\ m + 1 # c.n
          /\ 2 * m + 1 \in Nat /\ 0 < 2 * m + 1 /\ 2 * m + 1 < 2 * c.n /\ 2 * m + 1 # c.n
      BY <1>1, <2>8
    <3> DEFINE m1 == m + 1
               m2 == 2 * m + 1
    <3> HIDE DEF m1, m2
    <3>2. ~Congruent(m, 0, c.n)
      BY <1>1, <3>1, Between
    <3>3. ~Congruent(m1, 0, c.n)
      BY <1>1, <3>1, Between DEF m1
    <3>4. ~Congruent(m2, 0, c.n)
      BY <1>1, <3>1, Between DEF m2
    <3> QED BY <3>2, <3>3, <3>4 DEF m1, m2
  <2>10. after[i] = LadderTurn(after[i + 1], scalar, i, c) /\ after[i + 1] \in LadderStates
    BY <2>1
  <2>11. Rung(after[i].R, after[i].sub, 2 * m + Digit(bit), a, c)
    <3>1. m \in Int
      BY <2>8
    <3> DEFINE was == after[i + 1]
    <3>2. was \in LadderStates /\ Rung(was.R, was.sub, m, a, c) /\ after[i] = LadderTurn(was, scalar, i, c)
      BY <2>6, <2>10
    <3> HIDE DEF was
    <3>3. LET s == LadderTurn(was, scalar, i, c)
          IN Rung(s.R, s.sub, 2 * m + Digit(bit), a, c)
      BY <2>9, <3>1, <3>2, TurnExact
    <3> QED BY <3>2, <3>3
  <2>12. Rung(after[i].R, after[i].sub, Leading(K, i), a, c)
    <3> HIDE DEF bit
    <3> QED BY <2>4, <2>11
  <2> QED BY <2>1, <2>12
<1> HIDE DEF S
<1>6. N - 2 \in S
  <2>1. N - 2 \in Nat
    BY <1>1
  <2>2. 0..(N - 2) \subseteq S
    BY <1>4, <1>5, <2>1, IntervalInduction
  <2> QED BY <2>1, <2>2
<1>7. N - (N - 2) = 2
  BY <1>1
<1> QED BY <1>6, <1>7 DEF S

(* Bit i of the scalar is the next bit of what it stands for.              *)
LEMMA NextBit ==
  ASSUME NEW c \in Curves, NEW scalar \in VlisOf(c), NEW K, Topped(K, c.num_n_bits, Value(scalar)),
         NEW i \in 0..(c.num_n_bits - 1)
  PROVE  Leading(K, i) = 2 * Leading(K, i + 1) + Digit(vli_testBit(scalar, i))
<1> DEFINE y == Value(scalar)
           N == c.num_n_bits
           bit == vli_testBit(scalar, i)
<1>1. /\ N \in Nat /\ c.num_words \in Nat /\ scalar \in Vlis(c.num_words)
      /\ i \in 0..(c.num_words * WordBits - 1) /\ i \in 0..(N - 1)
  <2>1. N \in Nat /\ c.num_words \in Nat /\ N <= c.num_words * WordBits /\ WordBits \in Nat
    BY CurveFacts, BaseFacts
  <2> QED BY <2>1 DEF VlisOf
<1>2. y \in Nat
  <2>1. y \in Int /\ 0 <= y
    BY <1>1, ValueBound
  <2> HIDE DEF y
  <2> QED BY <2>1
<1>3. bit <=> Bit(y, i) = 1
  BY <1>1, TestBitExact DEF Bit
<1>4. Topped(K, N, y)
  OBVIOUS
<1> HIDE DEF y, N, bit
<1>5. Leading(K, i) = 2 * Leading(K, i + 1) + Bit(y, i) /\ Bit(y, i) \in {0, 1}
  BY <1>1, <1>2, <1>4, Prefixes
<1>6. Digit(bit) = Bit(y, i)
  BY <1>3, <1>5 DEF Digit
<1> QED BY <1>5, <1>6 DEF bit

(* The last rungs: n meets 2m + 1 for a scalar near a multiple of n only.  *)
LEMMA LastRungs ==
  ASSUME NEW c \in Curves, NEW a \in Int, ~Congruent(a, 0, c.n),
         NEW scalar \in VlisOf(c), NEW v \in 1..(c.n - 1), NEW h \in {1, 2},
         Topped(v + h * c.n, c.num_n_bits, Value(scalar)),
         NEW was \in LadderStates, NEW up \in LadderStates, up = LadderTurn(was, scalar, 1, c),
         Rung(was.R, was.sub, Leading(v + h * c.n, 2), a, c)
  PROVE  LET done == LastBit(up, scalar, Mul(a, c), c)
         IN /\ done = Infinity \/ done = Mul(v * a, c)
            /\ v \in 2..(c.n - 3) /\ Mul(a, c)[1] # 0 => done = Mul(v * a, c)
<1> DEFINE A == Mul(a, c)
           n == c.n
           N == c.num_n_bits
           K == v + h * n
           m2 == Leading(K, 2)
           m1 == Leading(K, 1)
           d1 == Digit(vli_testBit(scalar, 1))
           d0 == Digit(vli_testBit(scalar, 0))
           done == LastBit(up, scalar, A, c)
           half == Pow2[N - 2]
<1>1. /\ n \in Nat \ {0} /\ 2 < n /\ N \in Nat /\ 1 < N /\ Pow2[N - 1] <= n
      /\ scalar \in Vlis(c.num_words) /\ c.num_words \in Nat
  BY CurveFacts, CurveAssumption DEF VlisOf
<1>2. d1 \in {0, 1} /\ d0 \in {0, 1}
  BY DEF Digit
<1>3. K \in Nat /\ v \in Nat /\ 0 < v /\ v < n /\ h \in {1, 2}
  BY <1>1
<1>4. Value(scalar) \in Nat
  <2>1. Value(scalar) \in Int /\ 0 <= Value(scalar)
    BY <1>1, ValueBound
  <2> QED BY <2>1
<1>5. Topped(K, N, Value(scalar))
  OBVIOUS
<1>6. A \in Ints2
  BY MulFacts
<1>7. K = v + h * n
  OBVIOUS
<1>8. Rung(was.R, was.sub, m2, a, c)
  OBVIOUS
<1>9. ~Congruent(a, 0, n)
  OBVIOUS
<1> HIDE DEF A, K, n, N, done, d0, d1
<1>10. /\ Leading(K, 1) = 2 * Leading(K, 1 + 1) + d1 /\ Leading(K, 0) = 2 * Leading(K, 0 + 1) + d0
  <2>1. 1 \in 0..(N - 1) /\ 0 \in 0..(N - 1)
    BY <1>1
  <2> QED BY <1>5, <2>1, NextBit DEF d0, d1, N
<1>11. Leading(K, 2) \in 1..(2 * half - 1)
  <2>1. 2 \in 0..N
    BY <1>1
  <2> QED BY <1>1, <1>4, <1>5, <2>1, Prefixes
<1>12. Leading(K, 0) = K
  <2>1. Pow2[0] = 1
    BY Pow2Defined
  <2> QED BY <1>3, <2>1 DEF Leading
<1>13. half \in Nat /\ 2 * half <= n /\ 2 * half # n
  <2>1. N - 2 \in Nat /\ (N - 2) + 1 = N - 1
    BY <1>1
  <2>2. half \in Nat /\ Pow2[N - 1] = 2 * half
    BY <2>1, Pow2Defined
  <2>3. PICK g \in Nat : n = 2 * g + 1
    BY OrderSmall DEF n
  <2> HIDE DEF half
  <2> QED BY <1>1, <2>2, <2>3
<1> HIDE DEF half
<1>14. /\ m2 \in Nat /\ 0 < m2 /\ m2 + 1 < n /\ m1 = 2 * m2 + d1 /\ K = 2 * m1 + d0
       /\ m2 \in Int /\ m1 \in Int
  <2>1. m1 = 2 * m2 + d1 /\ K = 2 * m1 + d0
    <3>1. 1 + 1 = 2 /\ 0 + 1 = 1
      OBVIOUS
    <3> QED BY <1>10, <1>12, <3>1
  <2>2. m2 \in 1..(2 * half - 1)
    BY <1>11
  <2> HIDE DEF m2, m1
  <2>3. m2 \in Nat /\ 0 < m2 /\ m2 + 1 < n
    BY <1>1, <1>13, <2>2
  <2>4. m1 \in Int
    BY <1>2, <2>1, <2>3
  <2> QED BY <2>1, <2>3, <2>4
<1> HIDE DEF m2, m1
<1>15. ~Congruent(m2, 0, n) /\ ~Congruent(m2 + 1, 0, n) /\ (Congruent(2 * m2 + 1, 0, n) <=> 2 * m2 + 1 = n)
  <2> DEFINE e1 == m2 + 1
             e2 == 2 * m2 + 1
  <2>1. /\ m2 \in Nat /\ 0 < m2 /\ m2 < 2 * n /\ m2 # n
        /\ e1 \in Nat /\ 0 < e1 /\ e1 < 2 * n /\ e1 # n
        /\ e2 \in Nat /\ 0 < e2 /\ e2 < 2 * n
    BY <1>1, <1>14
  <2> HIDE DEF e1, e2
  <2>2. ~Congruent(m2, 0, n) /\ ~Congruent(e1, 0, n) /\ (Congruent(e2, 0, n) <=> e2 = n)
    BY <1>1, <2>1, Between
  <2> QED BY <2>2 DEF e1, e2
<1>16. CASE Congruent(2 * m2 + 1, 0, n)
  <2>1. v \notin 2..(n - 3)
    <3>1. 2 * m2 + 1 = n /\ K = 4 * m2 + 2 * d1 + d0
      <4>1. 2 * m2 + 1 = n
        BY <1>15, <1>16
      <4>2. K = 4 * m2 + 2 * d1 + d0
        BY <1>2, <1>14
      <4> QED BY <4>1, <4>2
    <3>2. CASE h = 1
      <4>1. v + n = 4 * m2 + 2 * d1 + d0
        BY <1>1, <1>7, <3>1, <3>2
      <4> QED BY <1>1, <1>2, <1>3, <1>14, <3>1, <4>1
    <3>3. CASE h = 2
      <4>1. v + 2 * n = 4 * m2 + 2 * d1 + d0
        BY <1>1, <1>7, <3>1, <3>3
      <4> QED BY <1>1, <1>2, <1>3, <1>14, <3>1, <4>1
    <3> QED BY <3>2, <3>3
  <2>2. Cusp(up.R, up.sub, c)
    <3>1. LET s == LadderTurn(was, scalar, 1, c) IN Cusp(s.R, s.sub, c)
      BY <1>8, <1>9, <1>14, <1>15, <1>16, TurnExact DEF n
    <3> QED BY <3>1
  <2>3. done = Infinity
    BY <1>6, <2>2, LastBitCusp DEF done
  <2> QED BY <2>1, <2>3 DEF n, done, A
<1>17. CASE ~Congruent(2 * m2 + 1, 0, n)
  <2>1. Rung(up.R, up.sub, m1, a, c)
    <3>1. LET s == LadderTurn(was, scalar, 1, c)
          IN Rung(s.R, s.sub, 2 * m2 + Digit(vli_testBit(scalar, 1)), a, c)
      BY <1>8, <1>9, <1>14, <1>15, <1>17, TurnExact DEF n
    <3> QED BY <1>14, <3>1 DEF d1
  <2>2. ~Congruent(2 * m2, 0, n) /\ ~Congruent(2 * (m2 + 1), 0, n)
    <3>1. 2 \in Int /\ m2 + 1 \in Int
      BY <1>14
    <3> QED BY <1>14, <1>15, <3>1, OrderNotZero, OrderSmall DEF n
  <2>3. ~Congruent(m1, 0, n) /\ ~Congruent(m1 + 1, 0, n)
    <3>1. CASE d1 = 0
      <4>1. m1 = 2 * m2 /\ m1 + 1 = 2 * m2 + 1
        BY <1>14, <3>1
      <4> QED BY <1>17, <2>2, <4>1
    <3>2. CASE d1 = 1
      <4>1. m1 = 2 * m2 + 1 /\ m1 + 1 = 2 * (m2 + 1)
        BY <1>14, <3>2
      <4> QED BY <1>17, <2>2, <4>1
    <3> QED BY <1>2, <3>1, <3>2
  <2>4. /\ Congruent(2 * m1 + 1, 0, n) \/ A[1] = 0 => done = Infinity
        /\ ~Congruent(2 * m1 + 1, 0, n) /\ A[1] # 0 => done = Mul((2 * m1 + d0) * a, c)
    <3>1. LET last == LastBit(up, scalar, Mul(a, c), c)
          IN /\ Congruent(2 * m1 + 1, 0, c.n) \/ Mul(a, c)[1] = 0 => last = Infinity
             /\ ~Congruent(2 * m1 + 1, 0, c.n) /\ Mul(a, c)[1] # 0 =>
                  last = Mul((2 * m1 + Digit(vli_testBit(scalar, 0))) * a, c)
      BY <1>9, <1>14, <2>1, <2>3, LastBitExact DEF n
    <3> QED BY <3>1 DEF n, A, done, d0
  <2>5. Mul((2 * m1 + d0) * a, c) = Mul(v * a, c)
    <3>1. (2 * m1 + d0) = K
      BY <1>14
    <3>2. K * a = v * a + (h * a) * n /\ K * a \in Int /\ v * a \in Int /\ h * a \in Int
      <4>1. h \in Int /\ n \in Int /\ v \in Int /\ K \in Int
        BY <1>1, <1>3
      <4>2. (v + h * n) * a = v * a + (h * a) * n
        BY <4>1
      <4> QED BY <1>7, <4>1, <4>2
    <3>3. Congruent(K * a, v * a, n)
      BY <3>2 DEF Congruent
    <3>4. Mul(K * a, c) = Mul(v * a, c)
      BY <3>2, <3>3, MulFacts, ZenonT(60) DEF n
    <3> QED BY <3>1, <3>4
  <2>6. ASSUME v \in 2..(n - 3) PROVE ~Congruent(2 * m1 + 1, 0, n)
    <3>1. SUFFICES ASSUME Congruent(2 * m1 + 1, 0, n) PROVE FALSE
      OBVIOUS
    <3>2. PICK q \in Int : 2 * m1 + 1 = 0 + q * n
      BY <3>1 DEF Congruent
    <3> DEFINE qk == q - h
    <3>3. qk \in Int /\ (1 - d0) \in {0, 1} /\ v + (1 - d0) = 0 + qk * n
      <4>1. qk \in Int /\ (1 - d0) \in {0, 1}
        BY <1>2, <1>3
      <4>2. qk * n = q * n - h * n
        <5>1. q \in Int /\ h \in Int /\ n \in Int
          BY <1>1, <1>3
        <5> QED BY <5>1
      <4> DEFINE qn == q * n
                 kn == h * n
                 r == qk * n
      <4>3. qn \in Int /\ kn \in Int /\ r = qn - kn /\ K = v + kn /\ 2 * m1 + 1 = qn
        BY <1>1, <1>3, <1>7, <3>2, <4>2
      <4> HIDE DEF qn, kn, r, qk
      <4>4. v + (1 - d0) = r
        BY <1>2, <1>3, <1>14, <4>3
      <4> QED BY <4>1, <4>4 DEF r
    <3> HIDE DEF qk
    <3> DEFINE e == v + (1 - d0)
    <3>4. e \in Nat /\ 0 < e /\ e < n /\ e < 2 * n
      BY <1>1, <1>3, <2>6, <3>3
    <3>5. Congruent(e, 0, n)
      BY <3>3 DEF Congruent
    <3> HIDE DEF e
    <3> QED BY <1>1, <3>4, <3>5, Between
  <2> QED BY <2>4, <2>5, <2>6 DEF n, done, A
<1> QED BY <1>16, <1>17

(* The ladder multiplies: whatever Z it starts with, EccPoint_mult() of    *)
(* the regularised scalar gives that multiple of the point or the point at *)
(* infinity, and the latter only for the scalars 1, n-2 and n-1 or a point *)
(* with x = 0 (uECC.c:864-976).                                            *)
THEOREM LadderExact ==
  ASSUME NEW c \in Curves, NEW a \in Int, ~Congruent(a, 0, c.n),
         NEW v \in VlisOf(c), Value(v) \in 1..(c.n - 1), NEW z \in 1..(c.p - 1)
  PROVE  LET point == RegularMult(Mul(a, c), v, z, c)
         IN /\ point = Infinity \/ point = Mul(Value(v) * a, c)
            /\ Value(v) \in 2..(c.n - 3) /\ Mul(a, c)[1] # 0 => point = Mul(Value(v) * a, c)
<1> DEFINE A == Mul(a, c)
           scalar == regularize_k(v, c)
           N == c.num_n_bits
           start == XYcZ_initial_double(A, z, c)
           R == <<start.same, start.twice>>
           sub == (start.same[1] - start.twice[1]) % c.p
           point == RegularMult(A, v, z, c)
           x == Value(v)
           y == Value(scalar)
<1>1. c.n \in Nat \ {0} /\ N \in Nat /\ 1 < N /\ 0 < N
  BY CurveFacts
<1>2. R \in Ints2 \X Ints2 /\ sub \in Int /\ Rung(R, sub, 1, a, c)
  BY FirstRung
<1>3. PICK h \in {1, 2} : scalar \in VlisOf(c) /\ Pow2[N] + (y % Pow2[N]) = x + h * c.n
  BY RegularizeExact
<1>4. point = LastBit(Ladder(R, sub, scalar, N + 1, c), scalar, A, c)
  BY DEF RegularMult, EccPoint_mult, Started
<1> HIDE DEF R, sub, scalar, A, point
<1>5. PICK after : LadderRun(after, R, sub, scalar, N, c)
  <2> HIDE DEF N
  <2> QED BY <1>1, <1>2, LadderDefined
<1>6. after[N].R = R /\ after[N].sub = sub
  BY <1>5 DEF LadderRun
<1>7. Topped(x + h * c.n, N, y)
  <2> DEFINE K == x + h * c.n
  <2>1. K = Pow2[N] + (y % Pow2[N])
    BY <1>3
  <2> HIDE DEF K
  <2> QED BY <2>1 DEF Topped, K
<1>8. Rung(after[2].R, after[2].sub, Leading(x + h * c.n, 2), a, c)
  <2> DEFINE K == x + h * c.n
  <2>1. Topped(K, N, y) /\ scalar \in VlisOf(c)
    BY <1>3, <1>7
  <2> HIDE DEF K
  <2>2. Rung(after[N].R, after[N].sub, 1, a, c)
    BY <1>2, <1>6
  <2>3. Rung(after[2].R, after[2].sub, Leading(K, 2), a, c)
    BY <1>5, <2>1, <2>2, RungsDown DEF y, LadderRun
  <2> QED BY <2>3 DEF K
<1>9. /\ after[2] \in LadderStates /\ after[1] \in LadderStates
      /\ after[1] = LadderTurn(after[2], scalar, 1, c)
  <2>1. 2 \in 1..N /\ 1 \in 1..N /\ 1 \in 1..(N - 1) /\ 1 + 1 = 2
    BY <1>1
  <2> QED BY <1>5, <2>1 DEF LadderRun
<1>10. point = LastBit(after[1], scalar, A, c)
  BY <1>4, <1>5 DEF LadderRun
<1>11. x \in 1..(c.n - 1)
  OBVIOUS
<1> HIDE DEF x
<1>12. LET done == LastBit(after[1], scalar, Mul(a, c), c)
         IN /\ done = Infinity \/ done = Mul(x * a, c)
            /\ x \in 2..(c.n - 3) /\ Mul(a, c)[1] # 0 => done = Mul(x * a, c)
  BY <1>3, <1>7, <1>8, <1>9, <1>11, LastRungs DEF y
<1> QED BY <1>10, <1>12 DEF point, A, x

=============================================================================
