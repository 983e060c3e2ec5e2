---------------------------- MODULE VliProofs ----------------------------
(***************************************************************************)
(* Proofs that the arithmetic of Vli is that of the integers, for words of *)
(* any width and vlis of any length.                                       *)
(*                                                                         *)
(* A loop of the code is a recursive function in Vli, so each part begins  *)
(* with the existence of the function (from Recursion), goes on with what  *)
(* a turn keeps, and ends in an induction over the turns: over a set of    *)
(* numbers that contains 0 and with i also i + 1.  Addition and            *)
(* subtraction come first, then orders, words, products, remainders, and   *)
(* the inverses of binary Euclid, which rest on all of them.               *)
(***************************************************************************)
EXTENDS Vli, Recursion, SequenceTheorems, TLAPS

Vlis(n) == [1..n -> Word]

(* Powers of the size of a word.                                           *)
LEMMA BaseFacts ==
  /\ WordBits \in Nat \ {0} /\ Base \in Nat /\ Base >= 2 /\ 0 \in Word /\ 1 \in Word
  /\ BaseTo(0) = 1
  /\ \A i \in Nat : BaseTo(i) \in Nat \ {0} /\ BaseTo(i + 1) = BaseTo(i) * Base
<1>1. WordBits \in Nat \ {0}
  BY VliAssumption DEF WordBits
<1>2. Base \in Nat /\ Base >= 2
  <2>1. 2 * Pow2[0] <= Pow2[WordBits]
    BY <1>1, Pow2Less
  <2> QED BY <1>1, <2>1, Pow2Defined DEF Base
<1>3. BaseTo(0) = 1
  BY <1>1, Pow2Defined DEF BaseTo
<1>4. ASSUME NEW i \in Nat PROVE BaseTo(i) \in Nat \ {0} /\ BaseTo(i + 1) = BaseTo(i) * Base
  <2>1. WordBits * i \in Nat /\ WordBits * (i + 1) = WordBits * i + WordBits
    BY <1>1
  <2> QED BY <1>1, <2>1, Pow2Plus, Pow2Defined DEF BaseTo, Base
<1> QED BY <1>1, <1>2, <1>3, <1>4 DEF Word

(* The length of a vli.                                                    *)
LEMMA LenOfVli ==
  ASSUME NEW S, NEW n \in Nat, NEW v \in [1..n -> S]
  PROVE  v \in Seq(S) /\ Len(v) = n /\ DOMAIN v = 1..n
OBVIOUS

(* A sequence that is one longer.                                          *)
LEMMA Appended ==
  ASSUME NEW S, NEW n \in Nat, NEW v \in [1..n -> S], NEW x \in S
  PROVE  /\ Append(v, x) \in [1..(n + 1) -> S]
         /\ \A i \in 1..n : Append(v, x)[i] = v[i]
         /\ Append(v, x)[n + 1] = x
<1>1. v \in Seq(S) /\ Len(v) = n
  BY LenOfVli
<1>2. Append(v, x) \in Seq(S) /\ Len(Append(v, x)) = n + 1
  BY <1>1
<1>3. Append(v, x) \in [1..(n + 1) -> S]
  BY <1>2, LenProperties
<1>4. \A i \in 1..n : Append(v, x)[i] = v[i]
  BY <1>1
<1>5. Append(v, x)[n + 1] = x
  BY <1>1
<1> QED BY <1>3, <1>4, <1>5

(* The words of a vli are integers below the base.                         *)
LEMMA VliOfInts ==
  ASSUME NEW n \in Nat, NEW v \in Vlis(n)
  PROVE  v \in [1..n -> Int] /\ \A i \in 1..n : v[i] \in 0..(Base - 1) /\ v[i] \in Int
<1>1. v \in [1..n -> Word]
  BY DEF Vlis
<1>2. ASSUME NEW i \in 1..n PROVE v[i] \in 0..(Base - 1) /\ v[i] \in Int
  <2>1. v[i] \in Word
    BY <1>1
  <2>2. Base \in Nat
    BY BaseFacts
  <2> QED BY <2>1, <2>2 DEF Word
<1> QED BY <1>1, <1>2

(* The partial sums that Value adds up. *)
Below(vli) ==
  LET below[i \in 0..Len(vli)] ==
        IF i = 0 THEN 0 ELSE below[i - 1] + vli[i] * BaseTo(i - 1)
  IN below

(* The recursion of Value() has a solution: Below(v)[i] is what the first  *)
(* i words stand for.                                                      *)
LEMMA BelowDefined ==
  ASSUME NEW n \in Nat, NEW v \in [1..n -> Int]
  PROVE  /\ Below(v) \in [0..n -> Int] /\ Below(v)[0] = 0 /\ Value(v) = Below(v)[n]
         /\ \A i \in 0..(n - 1) : Below(v)[i + 1] = Below(v)[i] + v[i + 1] * BaseTo(i)
<1> DEFINE F(g) == [i \in 0..n |-> IF i = 0 THEN 0 ELSE g[i - 1] + v[i] * BaseTo(i - 1)]
           step == [i \in 0..(n - 1) |-> [x \in Int |-> x + v[i + 1] * BaseTo(i)]]
<1>0. Len(v) = n
  BY LenOfVli
<1>1. Below(v) = CHOOSE g : g = F(g)
  BY <1>0 DEF Below
<1>2. Value(v) = Below(v)[n]
  BY <1>0 DEF Below, Value
<1>3. \A i \in 0..(n - 1) : v[i + 1] * BaseTo(i) \in Int
  BY BaseFacts
<1>4. step \in [0..(n - 1) -> [Int -> Int]]
  BY <1>3
<1>5. PICK f : FollowsUpTo(f, n, Int, 0, step)
  <2> DEFINE A == Int
  <2>1. 0 \in A /\ step \in [0..(n - 1) -> [A -> A]]
    BY <1>4
  <2> HIDE DEF step, A
  <2>2. \E f : FollowsUpTo(f, n, A, 0, step)
    BY <2>1, FiniteRecursionExists
  <2> QED BY <2>2 DEF A
<1>6. f = F(f)
  <2>1. ASSUME NEW i \in 0..n, i # 0 PROVE step[i - 1][f[i - 1]] = f[i - 1] + v[i] * BaseTo(i - 1)
    <3>1. i - 1 \in 0..(n - 1) /\ i - 1 \in 0..n /\ (i - 1) + 1 = i
      BY <2>1
    <3>2. f[i - 1] \in Int
      BY <1>5, <3>1 DEF FollowsUpTo
    <3> QED BY <3>1, <3>2
  <2> HIDE DEF step
  <2>2. f = [i \in 0..n |-> IF i = 0 THEN 0 ELSE step[i - 1][f[i - 1]]]
    BY <1>5 DEF FollowsUpTo
  <2> QED BY <2>1, <2>2
<1>7. Below(v) = F(Below(v))
  <2> HIDE DEF F
  <2> QED BY <1>1, <1>6
<1>8. /\ Below(v)[0] = 0
      /\ \A i \in 0..(n - 1) : Below(v)[i + 1] = Below(v)[i] + v[i + 1] * BaseTo(i)
  <2>1. \A i \in 0..n : Below(v)[i] = IF i = 0 THEN 0 ELSE Below(v)[i - 1] + v[i] * BaseTo(i - 1)
    BY <1>7
  <2> QED BY <2>1
<1> DEFINE S == {i \in 0..n : Below(v)[i] \in Int}
<1>9. 0..n \subseteq S
  <2>1. 0 \in S /\ \A i \in 0..(n - 1) : i \in S => i + 1 \in S
    BY <1>3, <1>8
  <2> HIDE DEF S
  <2> QED BY <2>1, IntervalInduction
<1>10. Below(v) \in [0..n -> Int]
  BY <1>7, <1>9
<1> QED BY <1>2, <1>8, <1>10

(* A vli of n words is below Base^n.                                       *)
LEMMA BelowBound ==
  ASSUME NEW n \in Nat, NEW v \in Vlis(n)
  PROVE  \A i \in 0..n : Below(v)[i] \in 0..(BaseTo(i) - 1)
<1> DEFINE S == {i \in 0..n : Below(v)[i] \in 0..(BaseTo(i) - 1)}
<1>0. v \in [1..n -> Int] /\ \A i \in 1..n : v[i] \in 0..(Base - 1)
  BY VliOfInts
<1>1. 0 \in S
  <2>1. Below(v)[0] = 0
    BY <1>0, BelowDefined
  <2> QED BY <2>1, BaseFacts
<1>2. ASSUME NEW i \in 0..(n - 1), i \in S PROVE i + 1 \in S
  <2>1. Below(v)[i + 1] = Below(v)[i] + v[i + 1] * BaseTo(i)
    BY <1>0, BelowDefined
  <2>2. BaseTo(i) \in Nat /\ BaseTo(i + 1) = BaseTo(i) * Base /\ Base \in Nat
    BY BaseFacts
  <2>3. v[i + 1] \in 0..(Base - 1) /\ Below(v)[i] \in 0..(BaseTo(i) - 1)
    BY <1>0, <1>2
  <2>4. \A b \in Nat, w \in Nat : \A x \in 0..(w - 1) : 0 <= x * b /\ x * b <= b * w - b
    OBVIOUS
  <2>5. 0 <= v[i + 1] * BaseTo(i) /\ v[i + 1] * BaseTo(i) <= BaseTo(i) * Base - BaseTo(i)
    BY <2>2, <2>3, <2>4
  <2>6. v[i + 1] * BaseTo(i) \in Int /\ BaseTo(i) * Base \in Int
    BY <2>2, <2>3
  <2> QED BY <2>1, <2>2, <2>3, <2>5, <2>6
<1> HIDE DEF S
<1>3. 0..n \subseteq S
  BY <1>1, <1>2, IntervalInduction
<1> QED BY <1>3 DEF S

(* A vli of n words stands for an integer below the base to the n.         *)
LEMMA ValueBound ==
  ASSUME NEW n \in Nat, NEW v \in Vlis(n)
  PROVE  Value(v) \in Int /\ 0 <= Value(v) /\ Value(v) < BaseTo(n) /\ BaseTo(n) \in Nat \ {0}
<1>1. v \in [1..n -> Int] /\ n \in 0..n
  BY VliOfInts
<1>2. Value(v) = Below(v)[n]
  BY <1>1, BelowDefined
<1>3. Below(v)[n] \in 0..(BaseTo(n) - 1)
  BY <1>1, BelowBound
<1> QED BY <1>2, <1>3, BaseFacts

(* The partial sums depend on the words they are of.                       *)
LEMMA BelowAgree ==
  ASSUME NEW m \in Nat, NEW n \in Nat, NEW v \in [1..m -> Int], NEW w \in [1..n -> Int],
         m <= n, \A i \in 1..m : v[i] = w[i]
  PROVE  \A i \in 0..m : Below(v)[i] = Below(w)[i]
<1> DEFINE S == {i \in 0..m : Below(v)[i] = Below(w)[i]}
<1>1. 0 \in S
  BY BelowDefined
<1>2. ASSUME NEW i \in 0..(m - 1), i \in S PROVE i + 1 \in S
  <2>1. Below(v)[i + 1] = Below(v)[i] + v[i + 1] * BaseTo(i)
    BY BelowDefined
  <2>2. Below(w)[i + 1] = Below(w)[i] + w[i + 1] * BaseTo(i)
    <3>1. i \in 0..(n - 1)
      OBVIOUS
    <3> QED BY <3>1, BelowDefined
  <2>3. v[i + 1] = w[i + 1] /\ Below(v)[i] = Below(w)[i]
    BY <1>2
  <2> QED BY <2>1, <2>2, <2>3
<1> HIDE DEF S
<1>3. 0..m \subseteq S
  BY <1>1, <1>2, IntervalInduction
<1> QED BY <1>3 DEF S

(* One more word at the top.                                               *)
LEMMA ValueOfAppend ==
  ASSUME NEW n \in Nat, NEW v \in [1..n -> Int], NEW x \in Int
  PROVE  Value(Append(v, x)) = Value(v) + x * BaseTo(n)
<1> DEFINE w == Append(v, x)
<1>1. w \in [1..(n + 1) -> Int] /\ w[n + 1] = x /\ \A i \in 1..n : w[i] = v[i]
  BY Appended
<1> HIDE DEF w
<1>2. n + 1 \in Nat /\ n \in 0..n /\ n \in 0..((n + 1) - 1)
  OBVIOUS
<1>3. Value(w) = Below(w)[n + 1] /\ Below(w)[n + 1] = Below(w)[n] + x * BaseTo(n)
  BY <1>1, <1>2, BelowDefined
<1>4. Below(v)[n] = Below(w)[n]
  <2>1. \A i \in 0..n : Below(v)[i] = Below(w)[i]
    BY <1>1, <1>2, BelowAgree
  <2> QED BY <1>2, <2>1
<1>5. Value(v) = Below(v)[n]
  BY BelowDefined
<1> QED BY <1>3, <1>4, <1>5 DEF w

(* Digits are summed word by word.                                         *)
LEMMA ValueOfSums ==
  ASSUME NEW n \in Nat, NEW v \in [1..n -> Int], NEW l \in [1..n -> Int], NEW r \in [1..n -> Int],
         NEW sign \in Int, \A i \in 1..n : v[i] = l[i] + sign * r[i]
  PROVE  Value(v) = Value(l) + sign * Value(r)
<1> DEFINE S == {i \in 0..n : Below(v)[i] = Below(l)[i] + sign * Below(r)[i]}
<1>1. 0 \in S
  <2>1. Below(v)[0] = 0 /\ Below(l)[0] = 0 /\ Below(r)[0] = 0
    BY BelowDefined
  <2> QED BY <2>1
<1>2. ASSUME NEW i \in 0..(n - 1), i \in S PROVE i + 1 \in S
  <2>1. Below(v)[i + 1] = Below(v)[i] + v[i + 1] * BaseTo(i)
    BY BelowDefined
  <2>2. Below(l)[i + 1] = Below(l)[i] + l[i + 1] * BaseTo(i) /\ Below(l)[i] \in Int
    <3>1. Below(l)[i + 1] = Below(l)[i] + l[i + 1] * BaseTo(i) /\ Below(l) \in [0..n -> Int]
      BY BelowDefined
    <3> QED BY <3>1
  <2>3. Below(r)[i + 1] = Below(r)[i] + r[i + 1] * BaseTo(i) /\ Below(r)[i] \in Int
    <3>1. Below(r)[i + 1] = Below(r)[i] + r[i + 1] * BaseTo(i) /\ Below(r) \in [0..n -> Int]
      BY BelowDefined
    <3> QED BY <3>1
  <2>4. \A x, y, b \in Int : (x + sign * y) * b = x * b + sign * (y * b) /\ y * b \in Int /\ x * b \in Int
    OBVIOUS
  <2>5. l[i + 1] \in Int /\ r[i + 1] \in Int /\ BaseTo(i) \in Int /\ v[i + 1] = l[i + 1] + sign * r[i + 1]
    <3>1. i \in Nat /\ i + 1 \in 1..n
      OBVIOUS
    <3>2. BaseTo(i) \in Int
      BY <3>1, BaseFacts
    <3> QED BY <3>1, <3>2
  <2>6. v[i + 1] * BaseTo(i) = l[i + 1] * BaseTo(i) + sign * (r[i + 1] * BaseTo(i))
    BY <2>4, <2>5
  <2>7. l[i + 1] * BaseTo(i) \in Int /\ r[i + 1] * BaseTo(i) \in Int
    BY <2>4, <2>5
  <2>8. sign * (Below(r)[i] + r[i + 1] * BaseTo(i))
          = sign * Below(r)[i] + sign * (r[i + 1] * BaseTo(i))
    BY <2>3, <2>7
  <2>9. Below(v)[i] = Below(l)[i] + sign * Below(r)[i]
    BY <1>2
  <2> HIDE DEF S
  <2>10. Below(v)[i + 1] = Below(l)[i + 1] + sign * Below(r)[i + 1]
    <3> DEFINE x == sign * Below(r)[i]
               y == sign * (r[i + 1] * BaseTo(i))
               z == l[i + 1] * BaseTo(i)
    <3>1. x \in Int /\ y \in Int /\ z \in Int
      BY <2>3, <2>7
    <3>2. Below(v)[i + 1] = (Below(l)[i] + x) + (z + y)
      BY <2>1, <2>6, <2>9
    <3>3. Below(l)[i + 1] = Below(l)[i] + z /\ sign * Below(r)[i + 1] = x + y
      BY <2>2, <2>3, <2>8
    <3> HIDE DEF x, y, z
    <3> QED BY <2>2, <3>1, <3>2, <3>3
  <2> QED BY <2>10 DEF S
<1> HIDE DEF S
<1>3. 0..n \subseteq S
  BY <1>1, <1>2, IntervalInduction
<1>4. n \in S
  BY <1>3
<1>5. Below(v)[n] = Below(l)[n] + sign * Below(r)[n]
  BY <1>4 DEF S
<1> QED BY <1>5, BelowDefined

(* A loop that makes one word a turn of a digit and what is carried into   *)
(* it, upwards (sign is 1) or borrowed (-1).                               *)
Carries(turn, n, digits, sign) ==
  /\ turn[0] = [words |-> <<>>, out |-> 0]
  /\ \A i \in 0..(n - 1) :
       turn[i].out \in {0, 1} =>
         \E x \in Word, c \in {0, 1} :
           /\ turn[i + 1] = [words |-> Append(turn[i].words, x), out |-> c]
           /\ x + sign * (c * Base) = digits[i + 1] + sign * turn[i].out

(* One word of an addition (sign 1) or a subtraction (sign -1): what is    *)
(* exact so far stays exact with it.                                       *)
LEMMA CarryWord ==
  ASSUME NEW i \in Nat, NEW words \in Vlis(i), NEW out \in Int, NEW c \in Int,
         NEW digit \in Int, NEW sum \in Int, NEW sign \in Int, NEW x \in Word,
         Value(words) + sign * (out * BaseTo(i)) = sum,
         x + sign * (c * Base) = digit + sign * out
  PROVE  /\ Append(words, x) \in Vlis(i + 1)
         /\ Value(Append(words, x)) + sign * (c * BaseTo(i + 1)) = sum + digit * BaseTo(i)
<1>1. words \in [1..i -> Int] /\ words \in [1..i -> Word]
  BY VliOfInts DEF Vlis
<1>2. x \in Int
  BY BaseFacts DEF Word
<1>3. Append(words, x) \in Vlis(i + 1)
  BY <1>1, Appended DEF Vlis
<1>4. Value(Append(words, x)) = Value(words) + x * BaseTo(i)
  BY <1>1, <1>2, ValueOfAppend
<1>5. Value(words) \in Int
  BY ValueBound
<1>6. BaseTo(i) \in Int /\ Base \in Int /\ BaseTo(i + 1) = BaseTo(i) * Base
  BY BaseFacts
<1>7. \A B, b \in Int : sign * (c * (B * b)) = (sign * (c * b)) * B
  OBVIOUS
<1>8. \A B, y \in Int : x * B + y * B = (x + y) * B
  BY <1>2
<1>9. \A B \in Int : (digit + sign * out) * B = digit * B + sign * (out * B)
  OBVIOUS
<1>10. sign * (c * BaseTo(i + 1)) = (sign * (c * Base)) * BaseTo(i)
  BY <1>6, <1>7
<1>11. sign * (c * Base) \in Int
  BY <1>6
<1>12. x * BaseTo(i) + (sign * (c * Base)) * BaseTo(i) = digit * BaseTo(i) + sign * (out * BaseTo(i))
  <2>1. x * BaseTo(i) + (sign * (c * Base)) * BaseTo(i) = (x + sign * (c * Base)) * BaseTo(i)
    BY <1>6, <1>8, <1>11
  <2>2. (digit + sign * out) * BaseTo(i) = digit * BaseTo(i) + sign * (out * BaseTo(i))
    BY <1>6, <1>9
  <2> QED BY <2>1, <2>2
<1> DEFINE X == x * BaseTo(i)
           D == digit * BaseTo(i)
           O == sign * (out * BaseTo(i))
           C == (sign * (c * Base)) * BaseTo(i)
<1>13. X \in Int /\ D \in Int /\ O \in Int /\ C \in Int
  BY <1>2, <1>6, <1>11
<1>14. X + C = D + O /\ Value(words) + O = sum /\ sign * (c * BaseTo(i + 1)) = C
  BY <1>10, <1>12
<1>15. Value(Append(words, x)) = Value(words) + X
  BY <1>4
<1> HIDE DEF X, D, O, C
<1>16. Value(Append(words, x)) + C = sum + D
  <2>1. \A v, t, w, e, f, g, h \in Int : e + h = f + g /\ v + g = t /\ w = v + e => w + h = t + f
    OBVIOUS
  <2>2. Value(Append(words, x)) \in Int
    BY <1>5, <1>13, <1>15
  <2> QED BY <1>5, <1>13, <1>14, <1>15, <2>1, <2>2
<1> QED BY <1>3, <1>14, <1>16 DEF D

(* So all the words are.                                                   *)
LEMMA CarriesExact ==
  ASSUME NEW n \in Nat, NEW turn, NEW digits \in [1..n -> Int], NEW sign \in Int,
         Carries(turn, n, digits, sign)
  PROVE  /\ turn[n].words \in Vlis(n) /\ turn[n].out \in {0, 1}
         /\ Value(turn[n].words) + sign * (turn[n].out * BaseTo(n)) = Value(digits)
<1> DEFINE Exact(i) == /\ turn[i].words \in Vlis(i) /\ turn[i].out \in {0, 1}
                       /\ Value(turn[i].words) + sign * (turn[i].out * BaseTo(i)) = Below(digits)[i]
           S == {i \in 0..n : Exact(i)}
<1>1. 0 \in S
  <2>1. turn[0].words = <<>> /\ turn[0].out = 0
    BY DEF Carries
  <2>2. <<>> \in [1..0 -> Int] /\ <<>> \in Vlis(0)
    BY DEF Vlis
  <2>3. Value(<<>>) = 0
    <3>1. Value(<<>>) = Below(<<>>)[0] /\ Below(<<>>)[0] = 0
      BY <2>2, BelowDefined
    <3> QED BY <3>1
  <2>4. Below(digits)[0] = 0 /\ BaseTo(0) = 1
    BY BelowDefined, BaseFacts
  <2>5. Value(<<>>) + sign * (0 * BaseTo(0)) = Below(digits)[0]
    BY <2>3, <2>4
  <2> QED BY <2>1, <2>2, <2>5
<1>2. ASSUME NEW i \in 0..(n - 1), i \in S PROVE i + 1 \in S
  <2>1. Exact(i)
    BY <1>2
  <2>2. PICK x \in Word, c \in {0, 1} :
          /\ turn[i + 1] = [words |-> Append(turn[i].words, x), out |-> c]
          /\ x + sign * (c * Base) = digits[i + 1] + sign * turn[i].out
    BY <2>1 DEF Carries
  <2>3. Below(digits)[i + 1] = Below(digits)[i] + digits[i + 1] * BaseTo(i) /\ Below(digits)[i] \in Int
    <3>1. /\ Below(digits)[i + 1] = Below(digits)[i] + digits[i + 1] * BaseTo(i)
          /\ Below(digits) \in [0..n -> Int]
      BY BelowDefined
    <3> QED BY <3>1
  <2> DEFINE words == turn[i].words
             out == turn[i].out
             sum == Below(digits)[i]
             digit == digits[i + 1]
  <2>4. /\ i \in Nat /\ words \in Vlis(i) /\ out \in Int /\ c \in Int /\ digit \in Int /\ sum \in Int
        /\ Value(words) + sign * (out * BaseTo(i)) = sum
        /\ x + sign * (c * Base) = digit + sign * out
    BY <2>1, <2>2, <2>3
  <2> HIDE DEF words, out, sum, digit
  <2>5. /\ Append(words, x) \in Vlis(i + 1)
        /\ Value(Append(words, x)) + sign * (c * BaseTo(i + 1)) = sum + digit * BaseTo(i)
    BY <2>4, CarryWord
  <2>6. turn[i + 1].words = Append(words, x) /\ turn[i + 1].out = c
    BY <2>2 DEF words
  <2>7. Below(digits)[i + 1] = sum + digit * BaseTo(i)
    BY <2>3 DEF sum, digit
  <2>8. i + 1 \in 0..n
    OBVIOUS
  <2> QED BY <2>5, <2>6, <2>7, <2>8
<1> HIDE DEF S
<1>3. 0..n \subseteq S
  BY <1>1, <1>2, IntervalInduction
<1>4. n \in S
  BY <1>3
<1>5. Value(digits) = Below(digits)[n]
  BY BelowDefined
<1> QED BY <1>4, <1>5 DEF S

(* The loop of vli_add(), turn by turn.                                    *)
AddTurns(left, right) ==
  LET turn[i \in 0..Len(left)] ==
        IF i = 0 THEN [words |-> <<>>, out |-> 0]
        ELSE LET was == turn[i - 1]
                 sum == (left[i] + right[i] + was.out) % Base
             IN [words |-> Append(was.words, sum),
                 out |-> IF sum # left[i] THEN Bool(sum < left[i]) ELSE was.out]
  IN turn
AddWord(l, r, s) ==
  LET sum == (l + r + s.out) % Base
  IN [words |-> Append(s.words, sum),
      out |-> IF sum # l THEN Bool(sum < l) ELSE s.out]

(* The loop of vli_add() turn by turn.                                     *)
LEMMA AddTurnsDefined ==
  ASSUME NEW n \in Nat, NEW left \in Vlis(n), NEW right \in Vlis(n)
  PROVE  /\ vli_add(left, right) = AddTurns(left, right)[n]
         /\ AddTurns(left, right)[0] = [words |-> <<>>, out |-> 0]
         /\ \A i \in 0..(n - 1) :
              AddTurns(left, right)[i + 1]
                = AddWord(left[i + 1], right[i + 1], AddTurns(left, right)[i])
<1> DEFINE A == [words : Seq(Word), out : {0, 1}]
           a == [words |-> <<>>, out |-> 0]
           turn == AddTurns(left, right)
           F(g) == [i \in 0..n |-> IF i = 0 THEN a ELSE AddWord(left[i], right[i], g[i - 1])]
           step == [i \in 0..(n - 1) |-> [x \in A |-> AddWord(left[i + 1], right[i + 1], x)]]
<1>0. Len(left) = n
  BY LenOfVli DEF Vlis
<1>1. turn = CHOOSE g : g = F(g)
  BY <1>0 DEF AddTurns, AddWord
<1>2. vli_add(left, right) = turn[n]
  BY <1>0 DEF vli_add, AddTurns
<1>3. ASSUME NEW i \in 1..n, NEW x \in A PROVE AddWord(left[i], right[i], x) \in A
  <2>1. left[i] \in Int /\ right[i] \in Int /\ Base \in Nat /\ Base >= 2
    BY VliOfInts, BaseFacts
  <2>2. (left[i] + right[i] + x.out) % Base \in Word
    BY <2>1 DEF Word
  <2>3. Append(x.words, (left[i] + right[i] + x.out) % Base) \in Seq(Word)
    BY <2>2
  <2> QED BY <2>3 DEF AddWord, Bool
<1>4. step \in [0..(n - 1) -> [A -> A]] /\ a \in A
  <2>1. ASSUME NEW i \in 0..(n - 1), NEW x \in A
        PROVE  AddWord(left[i + 1], right[i + 1], x) \in A
    <3>1. i + 1 \in 1..n
      OBVIOUS
    <3> HIDE DEF A
    <3> QED BY <1>3, <3>1
  <2>2. a \in A
    OBVIOUS
  <2> HIDE DEF A, a
  <2> QED BY <2>1, <2>2
<1>5. PICK f : FollowsUpTo(f, n, A, a, step)
  <2> HIDE DEF A, a, step
  <2> QED BY <1>4, FiniteRecursionExists
<1>6. f = F(f)
  <2>1. ASSUME NEW i \in 0..n, i # 0
        PROVE  step[i - 1][f[i - 1]] = AddWord(left[i], right[i], f[i - 1])
    <3>1. i - 1 \in 0..(n - 1) /\ i - 1 \in 0..n /\ (i - 1) + 1 = i
      BY <2>1
    <3>2. f[i - 1] \in A
      BY <1>5, <3>1 DEF FollowsUpTo
    <3> QED BY <3>1, <3>2
  <2> HIDE DEF step, a
  <2>2. f = [i \in 0..n |-> IF i = 0 THEN a ELSE step[i - 1][f[i - 1]]]
    BY <1>5 DEF FollowsUpTo
  <2> QED BY <2>1, <2>2
<1>7. turn = F(turn)
  <2> HIDE DEF F, turn
  <2> QED BY <1>1, <1>6
<1> HIDE DEF turn
<1>8. \A i \in 0..n : turn[i] = IF i = 0 THEN a ELSE AddWord(left[i], right[i], turn[i - 1])
  BY <1>7
<1>9. turn[0] = a
  BY <1>8
<1>10. ASSUME NEW i \in 0..(n - 1) PROVE turn[i + 1] = AddWord(left[i + 1], right[i + 1], turn[i])
  <2>1. i + 1 \in 0..n /\ i + 1 # 0 /\ (i + 1) - 1 = i
    OBVIOUS
  <2> QED BY <1>8, <2>1
<1> QED BY <1>2, <1>9, <1>10 DEF turn

(* One word: the comparison that finds the carry, also where it keeps *)
(* the one that came in.                                                   *)
LEMMA AddWordExact ==
  ASSUME NEW l \in Word, NEW r \in Word, NEW c \in {0, 1},
         NEW x, x = (l + r + c) % Base,
         NEW d, d = IF x # l THEN Bool(x < l) ELSE c
  PROVE  x \in Word /\ d \in {0, 1} /\ x + d * Base = l + r + c
<1>1. Base \in Nat /\ Base >= 2 /\ l \in 0..(Base - 1) /\ r \in 0..(Base - 1)
  BY BaseFacts DEF Word
<1>2. CASE l + r + c < Base
  <2>1. x = l + r + c
    BY <1>1, <1>2
  <2> QED BY <1>1, <1>2, <2>1 DEF Bool, Word
<1>3. CASE l + r + c >= Base
  <2>1. x = l + r + c - Base
    BY <1>1, <1>3
  <2> QED BY <1>1, <1>3, <2>1 DEF Bool, Word
<1> QED BY <1>1, <1>2, <1>3

(* uECC_vli_add() is exact: the words of the result and what is carried    *)
(* out of the last one, for every width and number of words                *)
(* (uECC.c:335-350).                                                       *)
THEOREM AddExact ==
  ASSUME NEW n \in Nat, NEW left \in Vlis(n), NEW right \in Vlis(n)
  PROVE  /\ vli_add(left, right).words \in Vlis(n)
         /\ vli_add(left, right).out \in {0, 1}
         /\ Value(vli_add(left, right).words) + vli_add(left, right).out * BaseTo(n)
              = Value(left) + Value(right)
<1> DEFINE turn == AddTurns(left, right)
           digits == [i \in 1..n |-> left[i] + right[i]]
<1>0. left \in [1..n -> Int] /\ right \in [1..n -> Int]
  BY VliOfInts
<1>1. digits \in [1..n -> Int]
  BY <1>0
<1>2. Carries(turn, n, digits, 1)
  <2>1. turn[0] = [words |-> <<>>, out |-> 0]
    BY AddTurnsDefined
  <2>2. ASSUME NEW i \in 0..(n - 1), turn[i].out \in {0, 1}
        PROVE  \E x \in Word, c \in {0, 1} :
                 /\ turn[i + 1] = [words |-> Append(turn[i].words, x), out |-> c]
                 /\ x + 1 * (c * Base) = digits[i + 1] + 1 * turn[i].out
    <3> DEFINE l == left[i + 1]
               r == right[i + 1]
               o == turn[i].out
               x == (l + r + o) % Base
               c == IF x # l THEN Bool(x < l) ELSE o
    <3>1. l \in Word /\ r \in Word /\ i + 1 \in 1..n
      BY DEF Vlis
    <3>2. turn[i + 1] = [words |-> Append(turn[i].words, x), out |-> c]
      BY AddTurnsDefined DEF AddWord
    <3>3. digits[i + 1] = l + r
      BY <3>1
    <3>4. o \in {0, 1}
      BY <2>2
    <3> HIDE DEF turn, digits, l, r, o
    <3>5. x \in Word /\ c \in {0, 1} /\ x + c * Base = l + r + o
      BY <3>1, <3>4, AddWordExact
    <3> HIDE DEF x, c
    <3>6. x \in Int /\ c \in Int /\ Base \in Int /\ l \in Int /\ r \in Int /\ o \in Int
      BY <3>1, <3>4, <3>5, BaseFacts DEF Word
    <3>7. c * Base \in Int
      BY <3>6
    <3>8. x + 1 * (c * Base) = digits[i + 1] + 1 * o
      BY <3>3, <3>5, <3>6, <3>7
    <3>9. /\ turn[i + 1] = [words |-> Append(turn[i].words, x), out |-> c]
          /\ x + 1 * (c * Base) = digits[i + 1] + 1 * turn[i].out
      BY <3>2, <3>8 DEF o
    <3> QED BY <3>5, <3>9
  <2> HIDE DEF turn, digits
  <2> QED BY <2>1, <2>2 DEF Carries
<1>3. Value(digits) = Value(left) + 1 * Value(right)
  <2> DEFINE sign == 1
  <2>1. sign \in Int /\ \A i \in 1..n : digits[i] = left[i] + sign * right[i]
    BY <1>0
  <2> HIDE DEF digits, sign
  <2>2. Value(digits) = Value(left) + sign * Value(right)
    BY <1>0, <1>1, <2>1, ValueOfSums
  <2> QED BY <2>2 DEF sign
<1>4. vli_add(left, right) = turn[n]
  BY AddTurnsDefined
<1> HIDE DEF turn, digits
<1>5. /\ turn[n].words \in Vlis(n) /\ turn[n].out \in {0, 1}
      /\ Value(turn[n].words) + 1 * (turn[n].out * BaseTo(n)) = Value(digits)
  <2> DEFINE sign == 1
  <2>1. sign \in Int /\ Carries(turn, n, digits, sign)
    BY <1>2
  <2> HIDE DEF sign
  <2>2. /\ turn[n].words \in Vlis(n) /\ turn[n].out \in {0, 1}
        /\ Value(turn[n].words) + sign * (turn[n].out * BaseTo(n)) = Value(digits)
    BY <1>1, <2>1, CarriesExact
  <2> QED BY <2>2 DEF sign
<1>6. /\ Value(turn[n].words) \in Int /\ turn[n].out * BaseTo(n) \in Int
      /\ Value(left) \in Int /\ Value(right) \in Int
  BY <1>5, ValueBound, BaseFacts
<1> QED BY <1>3, <1>4, <1>5, <1>6

(* The loop of vli_sub(), turn by turn.                                    *)
SubTurns(left, right) ==
  LET turn[i \in 0..Len(left)] ==
        IF i = 0 THEN [words |-> <<>>, out |-> 0]
        ELSE LET was == turn[i - 1]
                 diff == (left[i] - right[i] - was.out) % Base
             IN [words |-> Append(was.words, diff),
                 out |-> IF diff # left[i] THEN Bool(diff > left[i]) ELSE was.out]
  IN turn
SubWord(l, r, s) ==
  LET diff == (l - r - s.out) % Base
  IN [words |-> Append(s.words, diff),
      out |-> IF diff # l THEN Bool(diff > l) ELSE s.out]

(* The loop of vli_sub() turn by turn.                                     *)
LEMMA SubTurnsDefined ==
  ASSUME NEW n \in Nat, NEW left \in Vlis(n), NEW right \in Vlis(n)
  PROVE  /\ vli_sub(left, right) = SubTurns(left, right)[n]
         /\ SubTurns(left, right)[0] = [words |-> <<>>, out |-> 0]
         /\ \A i \in 0..(n - 1) :
              SubTurns(left, right)[i + 1]
                = SubWord(left[i + 1], right[i + 1], SubTurns(left, right)[i])
<1> DEFINE A == [words : Seq(Word), out : {0, 1}]
           a == [words |-> <<>>, out |-> 0]
           turn == SubTurns(left, right)
           F(g) == [i \in 0..n |-> IF i = 0 THEN a ELSE SubWord(left[i], right[i], g[i - 1])]
           step == [i \in 0..(n - 1) |-> [x \in A |-> SubWord(left[i + 1], right[i + 1], x)]]
<1>0. Len(left) = n
  BY LenOfVli DEF Vlis
<1>1. turn = CHOOSE g : g = F(g)
  BY <1>0 DEF SubTurns, SubWord
<1>2. vli_sub(left, right) = turn[n]
  BY <1>0 DEF vli_sub, SubTurns
<1>3. ASSUME NEW i \in 1..n, NEW x \in A PROVE SubWord(left[i], right[i], x) \in A
  <2>1. left[i] \in Int /\ right[i] \in Int /\ Base \in Nat /\ Base >= 2
    BY VliOfInts, BaseFacts
  <2>2. (left[i] - right[i] - x.out) % Base \in Word
    BY <2>1 DEF Word
  <2>3. Append(x.words, (left[i] - right[i] - x.out) % Base) \in Seq(Word)
    BY <2>2
  <2> QED BY <2>3 DEF SubWord, Bool
<1>4. step \in [0..(n - 1) -> [A -> A]] /\ a \in A
  <2>1. ASSUME NEW i \in 0..(n - 1), NEW x \in A
        PROVE  SubWord(left[i + 1], right[i + 1], x) \in A
    <3>1. i + 1 \in 1..n
      OBVIOUS
    <3> HIDE DEF A
    <3> QED BY <1>3, <3>1
  <2>2. a \in A
    OBVIOUS
  <2> HIDE DEF A, a
  <2> QED BY <2>1, <2>2
<1>5. PICK f : FollowsUpTo(f, n, A, a, step)
  <2> HIDE DEF A, a, step
  <2> QED BY <1>4, FiniteRecursionExists
<1>6. f = F(f)
  <2>1. ASSUME NEW i \in 0..n, i # 0
        PROVE  step[i - 1][f[i - 1]] = SubWord(left[i], right[i], f[i - 1])
    <3>1. i - 1 \in 0..(n - 1) /\ i - 1 \in 0..n /\ (i - 1) + 1 = i
      BY <2>1
    <3>2. f[i - 1] \in A
      BY <1>5, <3>1 DEF FollowsUpTo
    <3> QED BY <3>1, <3>2
  <2> HIDE DEF step, a
  <2>2. f = [i \in 0..n |-> IF i = 0 THEN a ELSE step[i - 1][f[i - 1]]]
    BY <1>5 DEF FollowsUpTo
  <2> QED BY <2>1, <2>2
<1>7. turn = F(turn)
  <2> HIDE DEF F, turn
  <2> QED BY <1>1, <1>6
<1> HIDE DEF turn
<1>8. \A i \in 0..n : turn[i] = IF i = 0 THEN a ELSE SubWord(left[i], right[i], turn[i - 1])
  BY <1>7
<1>9. turn[0] = a
  BY <1>8
<1>10. ASSUME NEW i \in 0..(n - 1) PROVE turn[i + 1] = SubWord(left[i + 1], right[i + 1], turn[i])
  <2>1. i + 1 \in 0..n /\ i + 1 # 0 /\ (i + 1) - 1 = i
    OBVIOUS
  <2> QED BY <1>8, <2>1
<1> QED BY <1>2, <1>9, <1>10 DEF turn

(* One word: the comparison that finds the borrow, also where it keeps *)
(* the one that came in.                                                   *)
LEMMA SubWordExact ==
  ASSUME NEW l \in Word, NEW r \in Word, NEW c \in {0, 1},
         NEW x, x = (l - r - c) % Base,
         NEW d, d = IF x # l THEN Bool(x > l) ELSE c
  PROVE  x \in Word /\ d \in {0, 1} /\ x - d * Base = l - r - c
<1>1. Base \in Nat /\ Base >= 2 /\ l \in 0..(Base - 1) /\ r \in 0..(Base - 1)
  BY BaseFacts DEF Word
<1>2. CASE l - r - c >= 0
  <2>1. x = l - r - c
    BY <1>1, <1>2
  <2> QED BY <1>1, <1>2, <2>1 DEF Bool, Word
<1>3. CASE l - r - c < 0
  <2>1. x = l - r - c + Base
    BY <1>1, <1>3
  <2> QED BY <1>1, <1>3, <2>1 DEF Bool, Word
<1> QED BY <1>1, <1>2, <1>3

(* uECC_vli_sub() is exact: the words of the result and what is borrowed   *)
(* out of the last one (uECC.c:354-369).                                   *)
THEOREM SubExact ==
  ASSUME NEW n \in Nat, NEW left \in Vlis(n), NEW right \in Vlis(n)
  PROVE  /\ vli_sub(left, right).words \in Vlis(n)
         /\ vli_sub(left, right).out \in {0, 1}
         /\ Value(vli_sub(left, right).words) - vli_sub(left, right).out * BaseTo(n)
              = Value(left) - Value(right)
<1> DEFINE turn == SubTurns(left, right)
           digits == [i \in 1..n |-> left[i] - right[i]]
<1>0. left \in [1..n -> Int] /\ right \in [1..n -> Int]
  BY VliOfInts
<1>1. digits \in [1..n -> Int]
  BY <1>0
<1>2. Carries(turn, n, digits, (-1))
  <2>1. turn[0] = [words |-> <<>>, out |-> 0]
    BY SubTurnsDefined
  <2>2. ASSUME NEW i \in 0..(n - 1), turn[i].out \in {0, 1}
        PROVE  \E x \in Word, c \in {0, 1} :
                 /\ turn[i + 1] = [words |-> Append(turn[i].words, x), out |-> c]
                 /\ x + (-1) * (c * Base) = digits[i + 1] + (-1) * turn[i].out
    <3> DEFINE l == left[i + 1]
               r == right[i + 1]
               o == turn[i].out
               x == (l - r - o) % Base
               c == IF x # l THEN Bool(x > l) ELSE o
    <3>1. l \in Word /\ r \in Word /\ i + 1 \in 1..n
      BY DEF Vlis
    <3>2. turn[i + 1] = [words |-> Append(turn[i].words, x), out |-> c]
      BY SubTurnsDefined DEF SubWord
    <3>3. digits[i + 1] = l - r
      BY <3>1
    <3>4. o \in {0, 1}
      BY <2>2
    <3> HIDE DEF turn, digits, l, r, o
    <3>5. x \in Word /\ c \in {0, 1} /\ x - c * Base = l - r - o
      BY <3>1, <3>4, SubWordExact
    <3> HIDE DEF x, c
    <3>6. x \in Int /\ c \in Int /\ Base \in Int /\ l \in Int /\ r \in Int /\ o \in Int
      BY <3>1, <3>4, <3>5, BaseFacts DEF Word
    <3>7. c * Base \in Int
      BY <3>6
    <3>8. x + (-1) * (c * Base) = digits[i + 1] + (-1) * o
      BY <3>3, <3>5, <3>6, <3>7
    <3>9. /\ turn[i + 1] = [words |-> Append(turn[i].words, x), out |-> c]
          /\ x + (-1) * (c * Base) = digits[i + 1] + (-1) * turn[i].out
      BY <3>2, <3>8 DEF o
    <3> QED BY <3>5, <3>9
  <2> HIDE DEF turn, digits
  <2> QED BY <2>1, <2>2 DEF Carries
<1>3. Value(digits) = Value(left) + (-1) * Value(right)
  <2> DEFINE sign == (-1)
  <2>1. sign \in Int /\ \A i \in 1..n : digits[i] = left[i] + sign * right[i]
    BY <1>0
  <2> HIDE DEF digits, sign
  <2>2. Value(digits) = Value(left) + sign * Value(right)
    BY <1>0, <1>1, <2>1, ValueOfSums
  <2> QED BY <2>2 DEF sign
<1>4. vli_sub(left, right) = turn[n]
  BY SubTurnsDefined
<1> HIDE DEF turn, digits
<1>5. /\ turn[n].words \in Vlis(n) /\ turn[n].out \in {0, 1}
      /\ Value(turn[n].words) + (-1) * (turn[n].out * BaseTo(n)) = Value(digits)
  <2> DEFINE sign == -1
  <2>1. sign \in Int /\ Carries(turn, n, digits, sign)
    BY <1>2
  <2> HIDE DEF sign
  <2>2. /\ turn[n].words \in Vlis(n) /\ turn[n].out \in {0, 1}
        /\ Value(turn[n].words) + sign * (turn[n].out * BaseTo(n)) = Value(digits)
    BY <1>1, <2>1, CarriesExact
  <2> QED BY <2>2 DEF sign
<1>6. /\ Value(turn[n].words) \in Int /\ turn[n].out * BaseTo(n) \in Int
      /\ Value(left) \in Int /\ Value(right) \in Int
  BY <1>5, ValueBound, BaseFacts
<1> QED BY <1>3, <1>4, <1>5, <1>6


-----------------------------------------------------------------------------
(* Comparisons.  The highest word that differs decides.                    *)
LEMMA HighestDecides ==
  ASSUME NEW n \in Nat, NEW v \in Vlis(n), NEW w \in Vlis(n), NEW t \in 1..n,
         w[t] < v[t], \A j \in (t + 1)..n : v[j] = w[j]
  PROVE  Value(w) < Value(v)
<1> DEFINE S == {k \in 0..(n - t) : Below(w)[t + k] < Below(v)[t + k]}
<1>0. /\ v \in [1..n -> Int] /\ w \in [1..n -> Int]
      /\ Below(v) \in [0..n -> Int] /\ Below(w) \in [0..n -> Int]
  <2>1. v \in [1..n -> Int] /\ w \in [1..n -> Int]
    BY VliOfInts
  <2> QED BY <2>1, BelowDefined
<1>1. 0 \in S
  <2>1. t - 1 \in 0..(n - 1) /\ (t - 1) + 1 = t /\ t - 1 \in 0..n /\ t - 1 \in Nat
    OBVIOUS
  <2>2. Below(v)[t] = Below(v)[t - 1] + v[t] * BaseTo(t - 1)
    <3>1. \A i \in 0..(n - 1) : Below(v)[i + 1] = Below(v)[i] + v[i + 1] * BaseTo(i)
      BY <1>0, BelowDefined
    <3>2. Below(v)[(t - 1) + 1] = Below(v)[t - 1] + v[(t - 1) + 1] * BaseTo(t - 1)
      BY <2>1, <3>1
    <3> QED BY <2>1, <3>2
  <2>3. Below(w)[t] = Below(w)[t - 1] + w[t] * BaseTo(t - 1)
    <3>1. \A i \in 0..(n - 1) : Below(w)[i + 1] = Below(w)[i] + w[i + 1] * BaseTo(i)
      BY <1>0, BelowDefined
    <3>2. Below(w)[(t - 1) + 1] = Below(w)[t - 1] + w[(t - 1) + 1] * BaseTo(t - 1)
      BY <2>1, <3>1
    <3> QED BY <2>1, <3>2
  <2>4. 0 <= Below(v)[t - 1] /\ Below(w)[t - 1] < BaseTo(t - 1)
    <3>1. Below(v)[t - 1] \in 0..(BaseTo(t - 1) - 1) /\ Below(w)[t - 1] \in 0..(BaseTo(t - 1) - 1)
      BY <2>1, BelowBound
    <3>2. BaseTo(t - 1) \in Nat
      BY <2>1, BaseFacts
    <3> QED BY <3>1, <3>2
  <2>5. BaseTo(t - 1) \in Nat /\ v[t] \in Int /\ w[t] \in Int
    BY <1>0, <2>1, BaseFacts
  <2>6. \A b \in Nat, x, y \in Int : y < x => y * b + b <= x * b
    OBVIOUS
  <2>7. w[t] * BaseTo(t - 1) + BaseTo(t - 1) <= v[t] * BaseTo(t - 1)
    BY <2>5, <2>6
  <2>8. w[t] * BaseTo(t - 1) \in Int /\ v[t] * BaseTo(t - 1) \in Int
    BY <2>5
  <2>9. Below(v)[t - 1] \in Int /\ Below(w)[t - 1] \in Int
    BY <1>0, <2>1
  <2>10. Below(w)[t] < Below(v)[t]
    BY <2>2, <2>3, <2>4, <2>5, <2>7, <2>8, <2>9
  <2> QED BY <2>10
<1>2. ASSUME NEW k \in 0..((n - t) - 1), k \in S PROVE k + 1 \in S
  <2>1. t + k \in 0..(n - 1) /\ (t + k) + 1 = t + (k + 1) /\ t + k \in 0..n
        /\ (t + k) + 1 \in (t + 1)..n /\ t + k \in Nat
    OBVIOUS
  <2>2. Below(v)[(t + k) + 1] = Below(v)[t + k] + v[(t + k) + 1] * BaseTo(t + k)
    BY <1>0, <2>1, BelowDefined
  <2>3. Below(w)[(t + k) + 1] = Below(w)[t + k] + w[(t + k) + 1] * BaseTo(t + k)
    BY <1>0, <2>1, BelowDefined
  <2>4. v[(t + k) + 1] = w[(t + k) + 1]
    BY <2>1
  <2>5. v[(t + k) + 1] * BaseTo(t + k) \in Int
    <3>1. BaseTo(t + k) \in Int
      BY <2>1, BaseFacts
    <3>2. v[(t + k) + 1] \in Int
      BY <1>0, <2>1
    <3> QED BY <3>1, <3>2
  <2>6. Below(w)[t + k] < Below(v)[t + k] /\ Below(v)[t + k] \in Int /\ Below(w)[t + k] \in Int
    BY <1>0, <1>2, <2>1
  <2>7. Below(w)[(t + k) + 1] < Below(v)[(t + k) + 1]
    BY <2>2, <2>3, <2>4, <2>5, <2>6
  <2> QED BY <2>1, <2>7
<1> HIDE DEF S
<1>3. n - t \in Nat
  OBVIOUS
<1>4. 0..(n - t) \subseteq S
  BY <1>1, <1>2, <1>3, IntervalInduction
<1>5. n - t \in S
  BY <1>3, <1>4
<1>6. Below(w)[n] < Below(v)[n]
  BY <1>5 DEF S
<1> QED BY <1>0, <1>6, BelowDefined

(* vli_cmp_unsafe() is the order of the integers.                          *)
LEMMA CmpUnsafeExact ==
  ASSUME NEW n \in Nat, NEW left \in Vlis(n), NEW right \in Vlis(n)
  PROVE  /\ vli_cmp_unsafe(left, right) \in {-1, 0, 1}
         /\ vli_cmp_unsafe(left, right) = 1 <=> Value(right) < Value(left)
         /\ vli_cmp_unsafe(left, right) = 0 <=> left = right
         /\ vli_cmp_unsafe(left, right) = -1 <=> Value(left) < Value(right)
<1> DEFINE differ == {i \in 1..n : left[i] # right[i]}
           top == CHOOSE i \in differ : \A j \in differ : j <= i
<1>0. Len(left) = n
  BY LenOfVli DEF Vlis
<1>1. Value(left) \in Int /\ Value(right) \in Int
  BY ValueBound
<1>2. left \in [1..n -> Int] /\ right \in [1..n -> Int]
  BY VliOfInts
<1>3. vli_cmp_unsafe(left, right)
        = IF differ = {} THEN 0 ELSE IF left[top] > right[top] THEN 1 ELSE -1
  BY <1>0 DEF vli_cmp_unsafe
<1>4. CASE differ = {}
  <2>1. left = right
    <3>1. \A i \in 1..n : left[i] = right[i]
      BY <1>4
    <3> QED BY <1>2, <3>1
  <2> QED BY <1>1, <1>3, <1>4, <2>1
<1>5. CASE differ # {}
  <2>1. \E i \in differ : \A j \in differ : j <= i
    <3> DEFINE T == {n - i : i \in differ}
    <3>1. T \in SUBSET Nat /\ T # {}
      BY <1>5
    <3> HIDE DEF T
    <3>2. PICK m \in T : \A k \in T : m <= k
      BY <3>1, LeastNatural
    <3>3. PICK i \in differ : m = n - i
      BY DEF T
    <3>4. \A j \in differ : n - i <= n - j
      BY <3>2, <3>3 DEF T
    <3>5. \A j \in differ : j <= i
      BY <3>4
    <3> QED BY <3>5
  <2>2. top \in differ /\ \A j \in differ : j <= top
    BY <2>1
  <2> HIDE DEF top
  <2>3. top \in 1..n /\ left[top] # right[top] /\ left[top] \in Int /\ right[top] \in Int
    BY <1>2, <2>2
  <2>4. ASSUME NEW j \in (top + 1)..n PROVE left[j] = right[j]
    <3>1. j \in 1..n /\ ~(j <= top)
      BY <2>3
    <3> QED BY <2>2, <3>1
  <2>5. CASE left[top] > right[top]
    <3>1. Value(right) < Value(left)
      BY <2>3, <2>4, <2>5, HighestDecides
    <3> QED BY <1>1, <1>3, <1>5, <2>5, <3>1
  <2>6. CASE ~(left[top] > right[top])
    <3>1. left[top] < right[top]
      BY <2>3, <2>6
    <3>2. Value(left) < Value(right)
      BY <2>3, <2>4, <3>1, HighestDecides
    <3> QED BY <1>1, <1>3, <1>5, <2>6, <3>2
  <2> QED BY <2>5, <2>6
<1> QED BY <1>4, <1>5

(* No two vlis stand for the same integer.                                 *)
LEMMA ValueUnique ==
  ASSUME NEW n \in Nat, NEW v \in Vlis(n), NEW w \in Vlis(n), Value(v) = Value(w)
  PROVE  v = w
<1>1. Value(v) \in Int
  BY ValueBound
<1>2. vli_cmp_unsafe(v, w) = 0
  BY <1>1, CmpUnsafeExact
<1> QED BY <1>2, CmpUnsafeExact

(* The vli of zeros is the one that stands for 0.                          *)
LEMMA ZeroExact ==
  ASSUME NEW n \in Nat, NEW v \in Vlis(n)
  PROVE  /\ vli_clear(n) \in Vlis(n) /\ Value(vli_clear(n)) = 0
         /\ vli_isZero(v) <=> Value(v) = 0
<1> DEFINE zero == vli_clear(n)
           S == {i \in 0..n : Below(zero)[i] = 0}
<1>1. zero \in Vlis(n) /\ zero \in [1..n -> Int] /\ \A i \in 1..n : zero[i] = 0
  BY BaseFacts DEF vli_clear, Vlis
<1>2. v \in [1..n -> Int]
  BY VliOfInts
<1> HIDE DEF zero
<1>3. 0..n \subseteq S
  <2>1. 0 \in S
    BY <1>1, BelowDefined
  <2>2. ASSUME NEW i \in 0..(n - 1), i \in S PROVE i + 1 \in S
    <3>1. Below(zero)[i + 1] = Below(zero)[i] + zero[i + 1] * BaseTo(i)
      BY <1>1, BelowDefined
    <3>2. i \in Nat /\ i + 1 \in 1..n
      OBVIOUS
    <3>3. zero[i + 1] = 0 /\ BaseTo(i) \in Int
      <4>1. BaseTo(i) \in Int
        BY <3>2, BaseFacts
      <4>2. zero[i + 1] = 0
        BY <1>1, <3>2
      <4> QED BY <4>1, <4>2
    <3> QED BY <2>2, <3>1, <3>3
  <2> HIDE DEF S
  <2> QED BY <2>1, <2>2, IntervalInduction
<1>4. Value(zero) = 0
  <2>1. n \in S
    BY <1>3
  <2> QED BY <1>1, <2>1, BelowDefined
<1>5. vli_isZero(v) <=> v = zero
  BY <1>1, <1>2 DEF vli_isZero
<1>6. v = zero <=> Value(v) = 0
  BY <1>1, <1>4, ValueUnique
<1> QED BY <1>1, <1>4, <1>5, <1>6 DEF zero

(* uECC_vli_cmp(), which subtracts in constant time, finds the same order  *)
(* (uECC.c:309-317).                                                       *)
THEOREM CmpExact ==
  ASSUME NEW n \in Nat, NEW left \in Vlis(n), NEW right \in Vlis(n)
  PROVE  /\ vli_cmp(left, right) \in {-1, 0, 1}
         /\ vli_cmp(left, right) = 1 <=> Value(right) < Value(left)
         /\ vli_cmp(left, right) = 0 <=> left = right
         /\ vli_cmp(left, right) = -1 <=> Value(left) < Value(right)
<1> DEFINE words == vli_sub(left, right).words
           out == vli_sub(left, right).out
<1>1. words \in Vlis(n) /\ out \in {0, 1}
      /\ Value(words) - out * BaseTo(n) = Value(left) - Value(right)
  BY SubExact
<1>2. vli_cmp(left, right) = Bool(~vli_isZero(words)) - 2 * out
  BY DEF vli_cmp
<1> HIDE DEF words, out
<1>3. vli_isZero(words) <=> Value(words) = 0
  BY <1>1, ZeroExact
<1>4. /\ Value(words) \in Int /\ 0 <= Value(words) /\ Value(words) < BaseTo(n)
      /\ Value(left) \in Int /\ 0 <= Value(left) /\ Value(left) < BaseTo(n)
      /\ Value(right) \in Int /\ 0 <= Value(right) /\ Value(right) < BaseTo(n)
      /\ BaseTo(n) \in Nat \ {0}
  BY <1>1, ValueBound
<1>5. left = right <=> Value(left) = Value(right)
  BY ValueUnique
<1>6. CASE out = 0
  <2>1. Value(words) = Value(left) - Value(right)
    BY <1>1, <1>4, <1>6
  <2>2. vli_cmp(left, right) = IF Value(words) = 0 THEN 0 ELSE 1
    BY <1>2, <1>3, <1>6 DEF Bool
  <2> QED BY <1>4, <1>5, <2>1, <2>2
<1>7. CASE out = 1
  <2>1. Value(words) - BaseTo(n) = Value(left) - Value(right)
    BY <1>1, <1>4, <1>7
  <2>2. Value(words) # 0 /\ Value(left) < Value(right)
    BY <1>4, <2>1
  <2>3. vli_cmp(left, right) = -1
    BY <1>2, <1>3, <1>7, <2>2 DEF Bool
  <2> QED BY <1>4, <1>5, <2>2, <2>3
<1> QED BY <1>1, <1>6, <1>7

(* vli_equal() is equality.                                                *)
LEMMA EqualExact ==
  ASSUME NEW n \in Nat, NEW left \in Vlis(n), NEW right \in Vlis(n)
  PROVE  vli_equal(left, right) <=> left = right
BY DEF vli_equal, Vlis

-----------------------------------------------------------------------------
(* Division by a positive integer.                                         *)
LEMMA Division ==
  ASSUME NEW b \in Nat \ {0}, NEW x \in Int
  PROVE  /\ x \div b \in Int /\ x % b \in 0..(b - 1) /\ x = (x \div b) * b + (x % b)
         /\ x \in Nat => x \div b \in Nat
<1>1. x \div b \in Int /\ x % b \in 0..(b - 1)
  OBVIOUS
<1>2. x = (x \div b) * b + (x % b)
  <2>1. x = b * (x \div b) + (x % b)
    OBVIOUS
  <2>2. b * (x \div b) = (x \div b) * b
    BY <1>1
  <2> QED BY <2>1, <2>2
<1>3. ASSUME x \in Nat PROVE x \div b \in Nat
  BY <1>3
<1> QED BY <1>1, <1>2, <1>3

(* There is one way to divide.                                             *)
LEMMA DivisionUnique ==
  ASSUME NEW b \in Nat \ {0}, NEW q \in Int, NEW r \in 0..(b - 1)
  PROVE  (q * b + r) \div b = q /\ (q * b + r) % b = r
<1> DEFINE x == q * b + r
           p == x \div b
           s == x % b
<1>1. x \in Int /\ p \in Int /\ s \in 0..(b - 1) /\ x = p * b + s
  <2>1. x \in Int
    OBVIOUS
  <2> HIDE DEF x
  <2> QED BY <2>1, Division
<1>2. x = q * b + r
  OBVIOUS
<1> HIDE DEF x, p, s
<1>3. (p - q) * b = r - s
  <2>1. (p - q) * b = p * b - q * b
    BY <1>1
  <2>2. p * b \in Int /\ q * b \in Int
    BY <1>1
  <2> QED BY <1>1, <1>2, <2>1, <2>2
<1>4. \A z \in Int : z >= 1 => z * b >= b
  OBVIOUS
<1>5. \A z \in Int : z <= -1 => z * b <= -b
  <2>1. \A z \in Int : z * b = -((-z) * b) /\ (-z) * b \in Int /\ -z \in Int
    OBVIOUS
  <2> QED BY <1>4, <2>1
<1>6. p - q = 0
  <2>1. p - q \in Int /\ -b < (p - q) * b /\ (p - q) * b < b
    BY <1>1, <1>3
  <2>2. ~(p - q >= 1) /\ ~(p - q <= -1)
    BY <1>4, <1>5, <2>1
  <2> QED BY <1>1, <2>2
<1>7. p = q /\ r = s
  <2>1. p = q
    BY <1>1, <1>6
  <2>2. (p - q) * b = 0
    BY <1>1, <1>6
  <2> QED BY <1>1, <1>3, <2>1, <2>2
<1> QED BY <1>7 DEF x, p, s

(* Dividing by b and then by w is dividing by their product.               *)
LEMMA DivideTwice ==
  ASSUME NEW b \in Nat \ {0}, NEW w \in Nat \ {0}, NEW x \in Int
  PROVE  /\ b * w \in Nat \ {0}
         /\ x \div (b * w) = (x \div b) \div w
         /\ x % (b * w) = ((x \div b) % w) * b + (x % b)
<1> DEFINE q == x \div b
           r == x % b
           h == q \div w
           m == q % w
<1>1. q \in Int /\ r \in 0..(b - 1) /\ x = q * b + r
  BY Division
<1>2. h \in Int /\ m \in 0..(w - 1) /\ q = h * w + m
  <2> HIDE DEF q
  <2> QED BY <1>1, Division
<1>3. b * w \in Nat \ {0}
  OBVIOUS
<1> HIDE DEF q, r, h, m
<1>4. x = h * (b * w) + (m * b + r)
  <2>1. (h * w + m) * b = h * (b * w) + m * b
    BY <1>2
  <2>2. h * (b * w) \in Int /\ m * b \in Int
    BY <1>2
  <2> QED BY <1>1, <1>2, <2>1, <2>2
<1>5. m * b + r \in 0..((b * w) - 1)
  <2>1. \A z \in 0..(w - 1) : 0 <= z * b /\ z * b <= b * w - b
    OBVIOUS
  <2>2. 0 <= m * b /\ m * b <= b * w - b /\ m * b \in Int
    BY <1>2, <2>1
  <2> QED BY <1>1, <1>3, <2>2
<1> DEFINE bw == b * w
           mr == m * b + r
<1>6. bw \in Nat \ {0} /\ mr \in 0..(bw - 1) /\ x = h * bw + mr
  BY <1>3, <1>4, <1>5
<1> HIDE DEF bw, mr
<1>7. x \div bw = h /\ x % bw = mr
  BY <1>2, <1>6, DivisionUnique
<1>8. bw = b * w /\ h = (x \div b) \div w /\ mr = ((x \div b) % w) * b + (x % b)
  <2>1. bw = b * w
    BY DEF bw
  <2>2. h = (x \div b) \div w
    BY DEF h, q
  <2>3. mr = ((x \div b) % w) * b + (x % b)
    BY DEF mr, m, q, r
  <2> QED BY <2>1, <2>2, <2>3
<1>9. b * w \in Nat \ {0}
  BY <1>3
<1> QED BY <1>7, <1>8, <1>9

(* The vli of an integer, and back.                                        *)
LEMMA WordsExact ==
  ASSUME NEW n \in Nat, NEW x \in Int
  PROVE  Words(x, n) \in Vlis(n) /\ Value(Words(x, n)) = x % BaseTo(n)
<1> DEFINE w == Words(x, n)
           S == {i \in 0..n : Below(w)[i] = x % BaseTo(i)}
<1>1. ASSUME NEW i \in 0..(n - 1)
      PROVE  w[i + 1] = (x \div BaseTo(i)) % Base /\ (x \div BaseTo(i)) % Base \in Word
  <2>1. i \in Nat /\ i + 1 \in 1..n /\ (i + 1) - 1 = i
    OBVIOUS
  <2>2. BaseTo(i) \in Nat \ {0} /\ Base \in Nat \ {0}
    BY <2>1, BaseFacts
  <2>3. (x \div BaseTo(i)) \in Int
    BY <2>2, Division
  <2>4. (x \div BaseTo(i)) % Base \in Word
    BY <2>2, <2>3, Division DEF Word
  <2> QED BY <2>1, <2>4 DEF Words
<1>2. w \in Vlis(n)
  <2>1. ASSUME NEW i \in 1..n PROVE (x \div BaseTo(i - 1)) % Base \in Word
    <3>1. i - 1 \in 0..(n - 1)
      OBVIOUS
    <3> QED BY <1>1, <3>1
  <2> QED BY <2>1 DEF Words, Vlis
<1>3. w \in [1..n -> Int]
  BY <1>2, VliOfInts
<1> HIDE DEF w
<1>4. 0 \in S
  <2>1. Below(w)[0] = 0
    BY <1>3, BelowDefined
  <2>2. BaseTo(0) = 1 /\ x % 1 = 0
    BY BaseFacts
  <2> QED BY <2>1, <2>2
<1>5. ASSUME NEW i \in 0..(n - 1), i \in S PROVE i + 1 \in S
  <2>1. Below(w)[i + 1] = Below(w)[i] + w[i + 1] * BaseTo(i)
    BY <1>3, BelowDefined
  <2>2. BaseTo(i) \in Nat \ {0} /\ Base \in Nat \ {0} /\ BaseTo(i + 1) = BaseTo(i) * Base
    BY BaseFacts
  <2>3. x % BaseTo(i + 1) = ((x \div BaseTo(i)) % Base) * BaseTo(i) + (x % BaseTo(i))
    BY <2>2, DivideTwice
  <2>4. (x \div BaseTo(i)) % Base \in Int /\ x % BaseTo(i) \in Int
    <3>1. x \div BaseTo(i) \in Int /\ x % BaseTo(i) \in 0..(BaseTo(i) - 1)
      BY <2>2, Division
    <3> QED BY <2>2, <3>1, Division
  <2>5. ((x \div BaseTo(i)) % Base) * BaseTo(i) \in Int
    BY <2>2, <2>4
  <2>6. Below(w)[i] = x % BaseTo(i) /\ w[i + 1] = (x \div BaseTo(i)) % Base
    BY <1>1, <1>5
  <2>7. Below(w)[i + 1] = x % BaseTo(i + 1)
    <3> DEFINE product == ((x \div BaseTo(i)) % Base) * BaseTo(i)
               rest == x % BaseTo(i)
    <3>1. Below(w)[i + 1] = rest + product /\ x % BaseTo(i + 1) = product + rest
      <4>1. Below(w)[i + 1] = rest + product
        BY <2>1, <2>6
      <4>2. x % BaseTo(i + 1) = product + rest
        BY <2>3
      <4> QED BY <4>1, <4>2
    <3>2. product \in Int /\ rest \in Int
      BY <2>4, <2>5
    <3> HIDE DEF product, rest
    <3> QED BY <3>1, <3>2
  <2> QED BY <2>7
<1> HIDE DEF S
<1>6. 0..n \subseteq S
  BY <1>4, <1>5, IntervalInduction
<1>7. Below(w)[n] = x % BaseTo(n)
  BY <1>6 DEF S
<1> QED BY <1>2, <1>3, <1>7, BelowDefined DEF w

(* Words() and Value() are inverse to each other.                          *)
LEMMA WordsOfValue ==
  ASSUME NEW n \in Nat
  PROVE  /\ \A v \in Vlis(n) : Words(Value(v), n) = v
         /\ \A x \in 0..(BaseTo(n) - 1) : Words(x, n) \in Vlis(n) /\ Value(Words(x, n)) = x
<1>1. BaseTo(n) \in Nat \ {0}
  BY BaseFacts
<1>2. \A b \in Nat \ {0} : \A x \in 0..(b - 1) : x % b = x /\ x \in Int
  OBVIOUS
<1>3. ASSUME NEW x \in 0..(BaseTo(n) - 1)
      PROVE  Words(x, n) \in Vlis(n) /\ Value(Words(x, n)) = x
  BY <1>1, <1>2, WordsExact
<1>4. ASSUME NEW v \in Vlis(n) PROVE Words(Value(v), n) = v
  <2>1. Value(v) \in 0..(BaseTo(n) - 1)
    BY ValueBound
  <2> QED BY <1>3, <2>1, ValueUnique
<1> QED BY <1>3, <1>4

-----------------------------------------------------------------------------
(* What vli_add() and vli_sub() return, by cases.                          *)
LEMMA AddCases ==
  ASSUME NEW n \in Nat, NEW left \in Vlis(n), NEW right \in Vlis(n)
  PROVE  /\ Value(left) + Value(right) < BaseTo(n) =>
              /\ vli_add(left, right).out = 0
              /\ Value(vli_add(left, right).words) = Value(left) + Value(right)
         /\ ~(Value(left) + Value(right) < BaseTo(n)) =>
              /\ vli_add(left, right).out = 1
              /\ Value(vli_add(left, right).words) = Value(left) + Value(right) - BaseTo(n)
<1> DEFINE words == vli_add(left, right).words
           out == vli_add(left, right).out
<1>1. words \in Vlis(n) /\ out \in {0, 1}
      /\ Value(words) + out * BaseTo(n) = Value(left) + Value(right)
  BY AddExact
<1> HIDE DEF words, out
<1>2. /\ Value(words) \in Int /\ 0 <= Value(words) /\ Value(words) < BaseTo(n)
      /\ Value(left) \in Int /\ Value(right) \in Int /\ BaseTo(n) \in Nat \ {0}
  BY <1>1, ValueBound
<1>3. CASE out = 0
  BY <1>1, <1>2, <1>3 DEF words, out
<1>4. CASE out = 1
  BY <1>1, <1>2, <1>4 DEF words, out
<1> QED BY <1>1, <1>3, <1>4

(* Whether a subtraction borrows tells which operand is the smaller.       *)
LEMMA SubCases ==
  ASSUME NEW n \in Nat, NEW left \in Vlis(n), NEW right \in Vlis(n)
  PROVE  /\ Value(right) <= Value(left) =>
              /\ vli_sub(left, right).out = 0
              /\ Value(vli_sub(left, right).words) = Value(left) - Value(right)
         /\ ~(Value(right) <= Value(left)) =>
              /\ vli_sub(left, right).out = 1
              /\ Value(vli_sub(left, right).words) = Value(left) - Value(right) + BaseTo(n)
<1> DEFINE words == vli_sub(left, right).words
           out == vli_sub(left, right).out
<1>1. words \in Vlis(n) /\ out \in {0, 1}
      /\ Value(words) - out * BaseTo(n) = Value(left) - Value(right)
  BY SubExact
<1> HIDE DEF words, out
<1>2. /\ Value(words) \in Int /\ 0 <= Value(words) /\ Value(words) < BaseTo(n)
      /\ Value(left) \in Int /\ Value(right) \in Int /\ BaseTo(n) \in Nat \ {0}
  BY <1>1, ValueBound
<1>3. CASE out = 0
  BY <1>1, <1>2, <1>3 DEF words, out
<1>4. CASE out = 1
  BY <1>1, <1>2, <1>4 DEF words, out
<1> QED BY <1>1, <1>3, <1>4

(* uECC_vli_modAdd() is the sum modulo mod, also where left + right        *)
(* carries out of the words (uECC.c:540-551).                              *)
THEOREM ModAddExact ==
  ASSUME NEW n \in Nat, NEW left \in Vlis(n), NEW right \in Vlis(n), NEW mod \in Vlis(n),
         Value(left) < Value(mod), Value(right) < Value(mod)
  PROVE  /\ vli_modAdd(left, right, mod) \in Vlis(n)
         /\ Value(vli_modAdd(left, right, mod))
              = IF Value(left) + Value(right) < Value(mod) THEN Value(left) + Value(right)
                ELSE Value(left) + Value(right) - Value(mod)
<1> DEFINE sum == vli_add(left, right)
           less == vli_sub(sum.words, mod)
           L == Value(left)
           R == Value(right)
           M == Value(mod)
           B == BaseTo(n)
<1>1. sum.words \in Vlis(n)
  BY AddExact
<1>2. /\ L \in Int /\ 0 <= L /\ R \in Int /\ 0 <= R /\ M \in Int /\ M < B /\ B \in Nat \ {0}
      /\ L < M /\ R < M
  BY ValueBound
<1>3. /\ L + R < B => sum.out = 0 /\ Value(sum.words) = L + R
      /\ ~(L + R < B) => sum.out = 1 /\ Value(sum.words) = L + R - B
  BY AddCases
<1>4. less.words \in Vlis(n)
  BY <1>1, SubExact
<1>5. /\ M <= Value(sum.words) => Value(less.words) = Value(sum.words) - M
      /\ ~(M <= Value(sum.words)) => Value(less.words) = Value(sum.words) - M + B
  BY <1>1, SubCases
<1>6. vli_cmp_unsafe(mod, sum.words) = 1 <=> Value(sum.words) < M
  BY <1>1, CmpUnsafeExact
<1>7. vli_modAdd(left, right, mod)
        = IF sum.out = 1 \/ vli_cmp_unsafe(mod, sum.words) # 1 THEN less.words ELSE sum.words
  BY DEF vli_modAdd
<1> HIDE DEF sum, less, L, R, M, B
<1>8. vli_modAdd(left, right, mod) \in Vlis(n)
  BY <1>1, <1>4, <1>7
<1>9. CASE L + R < B
  <2>1. vli_modAdd(left, right, mod) = IF L + R < M THEN sum.words ELSE less.words
    BY <1>2, <1>3, <1>6, <1>7, <1>9
  <2>2. ~(L + R < M) => Value(less.words) = L + R - M
    BY <1>2, <1>3, <1>5, <1>9
  <2> QED BY <1>3, <1>8, <1>9, <2>1, <2>2 DEF L, R, M
<1>10. CASE ~(L + R < B)
  <2>1. vli_modAdd(left, right, mod) = less.words
    BY <1>3, <1>7, <1>10
  <2>2. Value(less.words) = L + R - M
    BY <1>2, <1>3, <1>5, <1>10
  <2>3. ~(L + R < M)
    BY <1>2, <1>10
  <2> QED BY <1>8, <2>1, <2>2, <2>3 DEF L, R, M
<1> QED BY <1>9, <1>10

(* Differences modulo mod, also where left - right borrows                 *)
(* (uECC.c:554-565).                                                       *)
LEMMA ModSubExact ==
  ASSUME NEW n \in Nat, NEW left \in Vlis(n), NEW right \in Vlis(n), NEW mod \in Vlis(n),
         Value(left) < Value(mod), Value(right) < Value(mod)
  PROVE  /\ vli_modSub(left, right, mod) \in Vlis(n)
         /\ Value(vli_modSub(left, right, mod))
              = IF Value(right) <= Value(left) THEN Value(left) - Value(right)
                ELSE Value(left) - Value(right) + Value(mod)
<1> DEFINE diff == vli_sub(left, right)
           more == vli_add(diff.words, mod)
           L == Value(left)
           R == Value(right)
           M == Value(mod)
           B == BaseTo(n)
<1>1. diff.words \in Vlis(n)
  BY SubExact
<1>2. /\ L \in Int /\ 0 <= L /\ R \in Int /\ 0 <= R /\ M \in Int /\ M < B /\ B \in Nat \ {0}
      /\ L < M /\ R < M
  BY ValueBound
<1>3. /\ R <= L => diff.out = 0 /\ Value(diff.words) = L - R
      /\ ~(R <= L) => diff.out = 1 /\ Value(diff.words) = L - R + B
  BY SubCases
<1>4. more.words \in Vlis(n)
  BY <1>1, AddExact
<1>5. /\ Value(diff.words) + M < B => Value(more.words) = Value(diff.words) + M
      /\ ~(Value(diff.words) + M < B) => Value(more.words) = Value(diff.words) + M - B
  BY <1>1, AddCases
<1>6. vli_modSub(left, right, mod) = IF diff.out = 1 THEN more.words ELSE diff.words
  BY DEF vli_modSub
<1> HIDE DEF diff, more, L, R, M, B
<1>7. vli_modSub(left, right, mod) \in Vlis(n)
  BY <1>1, <1>4, <1>6
<1>8. CASE R <= L
  BY <1>3, <1>6, <1>7, <1>8 DEF L, R, M
<1>9. CASE ~(R <= L)
  <2>1. Value(more.words) = L - R + M
    BY <1>2, <1>3, <1>5, <1>9
  <2> QED BY <1>3, <1>6, <1>7, <1>9, <2>1 DEF L, R, M
<1> QED BY <1>8, <1>9

-----------------------------------------------------------------------------
(* The product.  Three is the type of r0, r1 and r2, and Held what they    *)
(* hold.                                                                   *)
Three == Word \X Word \X Word
Held(r) == r[1] + Base * (r[2] + Base * r[3])

(* The three words a column is added up in.                                *)
LEMMA ThreeFacts ==
  ASSUME NEW r \in Three
  PROVE  /\ r = <<r[1], r[2], r[3]>>
         /\ r[1] \in Word /\ r[2] \in Word /\ r[3] \in Word
         /\ r[1] \in Nat /\ r[2] \in Nat /\ r[3] \in Nat
         /\ Held(r) \in Nat
<1>1. r = <<r[1], r[2], r[3]>> /\ r[1] \in Word /\ r[2] \in Word /\ r[3] \in Word
  BY DEF Three
<1>2. Base \in Nat
  BY BaseFacts
<1>3. r[1] \in Nat /\ r[2] \in Nat /\ r[3] \in Nat
  BY <1>1, <1>2 DEF Word
<1>4. Base * r[3] \in Nat
  BY <1>2, <1>3
<1>5. Base * (r[2] + Base * r[3]) \in Nat
  BY <1>2, <1>3, <1>4
<1> QED BY <1>1, <1>3, <1>5 DEF Held

(* muladd() is exact while the three words do not overflow: r2 counts what *)
(* is carried out of r0 and r1, which hold the sum modulo their size.      *)
LEMMA MuladdExact ==
  ASSUME NEW a \in Word, NEW b \in Word, NEW r \in Three
  PROVE  /\ muladd(a, b, r) \in Three
         /\ Held(r) + a * b < Base * (Base * Base) => Held(muladd(a, b, r)) = Held(r) + a * b
         /\ 0 <= a * b /\ a * b <= (Base - 1) * (Base - 1)
<1> DEFINE BB == Base * Base
           p == a * b
           low == r[2] * Base + r[1]
           r01 == (low + p) % BB
           c == Bool(r01 < p)
           top == (r[3] + c) % Base
<1>0. /\ Base \in Nat \ {0} /\ Base >= 2 /\ a \in Nat /\ b \in Nat /\ a <= Base - 1 /\ b <= Base - 1
      /\ r[1] \in Nat /\ r[2] \in Nat /\ r[3] \in Nat
      /\ r[1] <= Base - 1 /\ r[2] <= Base - 1 /\ r[3] <= Base - 1
  <2>1. Base \in Nat /\ Base >= 2
    BY BaseFacts
  <2>2. r[1] \in Word /\ r[2] \in Word /\ r[3] \in Word
    BY ThreeFacts
  <2> QED BY <2>1, <2>2 DEF Word
<1>1. BB \in Nat \ {0} /\ p \in Nat /\ low \in Nat
  BY <1>0
<1>2. p <= (Base - 1) * (Base - 1)
  <2>1. \A x, y, m \in Nat : x <= m /\ y <= m => x * y <= m * m
    OBVIOUS
  <2> QED BY <1>0, <2>1
<1>3. (Base - 1) * (Base - 1) < BB /\ p < BB
  <2>1. \A m \in Nat : m >= 2 => (m - 1) * (m - 1) < m * m /\ (m - 1) * (m - 1) \in Int
    OBVIOUS
  <2> QED BY <1>0, <1>1, <1>2, <2>1
<1>4. low < BB
  <2>1. \A m \in Nat : \A x, y \in 0..(m - 1) : x * m + y < m * m
    <3>1. \A m \in Nat : \A x \in 0..(m - 1) : x * m <= m * m - m /\ x * m \in Int
      OBVIOUS
    <3> QED BY <3>1
  <2> QED BY <1>0, <2>1
<1>5. muladd(a, b, r) = <<r01 % Base, r01 \div Base, top>>
  BY DEF muladd
<1>6. r01 \in 0..(BB - 1) /\ c \in {0, 1}
  BY <1>1 DEF Bool
<1>7. r01 \div Base \in Int /\ r01 % Base \in 0..(Base - 1) /\ r01 = (r01 \div Base) * Base + (r01 % Base)
      /\ r01 \div Base \in Nat
  <2>1. r01 \in Nat /\ r01 \in Int /\ Base \in Nat \ {0}
    BY <1>0, <1>1, <1>6
  <2> HIDE DEF r01
  <2> QED BY <2>1, Division
<1>8. r01 \div Base \in 0..(Base - 1)
  <2> DEFINE q == r01 \div Base
             m == r01 % Base
  <2>1. q \in Nat /\ m \in Nat /\ q * Base + m < BB
    <3>1. q * Base + m = r01
      BY <1>7
    <3>2. r01 < BB
      BY <1>1, <1>6
    <3> QED BY <1>0, <1>7, <3>1, <3>2
  <2>2. \A x \in Nat : x >= Base => x * Base >= Base * Base
    BY <1>0
  <2>3. q * Base \in Int /\ Base * Base \in Int
    BY <1>0, <2>1
  <2> HIDE DEF q, m
  <2>4. ~(q >= Base)
    BY <2>1, <2>2, <2>3
  <2>5. q \in 0..(Base - 1)
    BY <1>0, <2>1, <2>4
  <2> QED BY <2>5 DEF q
<1>9. top \in 0..(Base - 1)
  BY <1>0, <1>6
<1>10. muladd(a, b, r) \in Three
  BY <1>5, <1>7, <1>8, <1>9 DEF Three, Word
<1>11. r01 + c * BB = low + p
  <2>1. CASE low + p < BB
    <3>1. r01 = low + p
      BY <1>1, <2>1
    <3> QED BY <1>1, <3>1 DEF Bool
  <2>2. CASE ~(low + p < BB)
    <3>1. low + p - BB \in 0..(BB - 1) /\ low + p = 1 * BB + (low + p - BB)
      BY <1>1, <1>3, <1>4, <2>2
    <3> DEFINE rest == low + p - BB
    <3>2. rest \in 0..(BB - 1) /\ low + p = 1 * BB + rest
      BY <3>1
    <3> HIDE DEF rest, BB, low, p
    <3>3. (1 * BB + rest) % BB = rest
      BY <1>1, <3>2, DivisionUnique
    <3>4. r01 = rest
      BY <3>2, <3>3
    <3>5. r01 = low + p - BB
      BY <3>4 DEF rest
    <3>6. c = 1
      BY <1>1, <1>4, <3>5 DEF Bool
    <3> QED BY <1>1, <3>5, <3>6
  <2> QED BY <2>1, <2>2
<1>12. Held(r) = low + BB * r[3]
  <2>1. \A m, x, y, z \in Int : x + m * (y + m * z) = (y * m + x) + (m * m) * z
    OBVIOUS
  <2> QED BY <1>0, <2>1 DEF Held
<1>13. Held(muladd(a, b, r)) = r01 + BB * top
  <2> DEFINE q == r01 \div Base
             m == r01 % Base
             t == top
  <2>1. q \in Int /\ m \in Int /\ t \in Int /\ r01 = q * Base + m
    BY <1>7, <1>9
  <2>2. Held(muladd(a, b, r)) = m + Base * (q + Base * t)
    BY <1>5 DEF Held
  <2>3. \A w, x, y, z \in Int : x + w * (y + w * z) = (y * w + x) + (w * w) * z
    OBVIOUS
  <2> HIDE DEF q, m, t, r01
  <2>4. m + Base * (q + Base * t) = (q * Base + m) + (Base * Base) * t
    BY <1>0, <2>1, <2>3
  <2> QED BY <2>1, <2>2, <2>4 DEF t
<1>14. ASSUME Held(r) + a * b < Base * (Base * Base)
       PROVE  Held(muladd(a, b, r)) = Held(r) + a * b
  <2>1. BB * r[3] \in Nat /\ BB * c \in Nat /\ BB * (r[3] + c) = BB * r[3] + BB * c
    BY <1>0, <1>1, <1>6
  <2>2. r01 + BB * (r[3] + c) = Held(r) + p
    BY <1>1, <1>6, <1>11, <1>12, <2>1
  <2>3. r[3] + c < Base
    <3>1. BB * (r[3] + c) < Base * BB
      <4>1. Held(r) + p < Base * BB
        BY <1>14
      <4>2. Held(r) \in Nat /\ BB * (r[3] + c) \in Nat /\ Base * BB \in Nat
        BY <1>0, <1>1, <2>1, ThreeFacts
      <4> HIDE DEF BB, p, c, r01
      <4> QED BY <1>1, <1>6, <2>2, <4>1, <4>2
    <3>2. \A x \in Nat : x >= Base => BB * x >= Base * BB
      BY <1>0, <1>1
    <3>3. r[3] + c \in Nat
      BY <1>0, <1>6
    <3>4. BB * (r[3] + c) \in Int /\ Base * BB \in Int
      BY <1>0, <1>1, <2>1
    <3> HIDE DEF BB, c
    <3> QED BY <1>0, <3>1, <3>2, <3>3, <3>4
  <2>4. top = r[3] + c
    <3>1. \A z \in 0..(Base - 1) : z % Base = z
      BY <1>0
    <3>2. r[3] + c \in 0..(Base - 1)
      BY <1>0, <1>6, <2>3
    <3> QED BY <3>1, <3>2
  <2> QED BY <1>13, <2>2, <2>4
<1>15. (Base - 1) * (Base - 1) \in Int
  BY <1>0
<1> QED BY <1>1, <1>2, <1>10, <1>14

(* Digits that are 0 add nothing.                                          *)
LEMMA BelowFlat ==
  ASSUME NEW n \in Nat, NEW v \in [1..n -> Int], NEW a \in 0..n, NEW b \in a..n,
         \A j \in (a + 1)..b : v[j] = 0
  PROVE  Below(v)[b] = Below(v)[a]
<1> DEFINE S == {k \in 0..(b - a) : Below(v)[a + k] = Below(v)[a]}
<1>1. 0 \in S
  OBVIOUS
<1>2. ASSUME NEW k \in 0..((b - a) - 1), k \in S PROVE k + 1 \in S
  <2>1. a + k \in 0..(n - 1) /\ (a + k) + 1 = a + (k + 1) /\ (a + k) + 1 \in (a + 1)..b /\ a + k \in Nat
        /\ a + k \in 0..n
    OBVIOUS
  <2>2. Below(v)[(a + k) + 1] = Below(v)[a + k] + v[(a + k) + 1] * BaseTo(a + k)
    BY <2>1, BelowDefined
  <2>3. v[(a + k) + 1] = 0 /\ BaseTo(a + k) \in Int
    <3>1. BaseTo(a + k) \in Int
      BY <2>1, BaseFacts
    <3>2. v[(a + k) + 1] = 0
      BY <2>1
    <3> QED BY <3>1, <3>2
  <2>4. Below(v)[a + k] \in Int
    <3>1. Below(v) \in [0..n -> Int]
      BY BelowDefined
    <3> QED BY <2>1, <3>1
  <2>5. Below(v)[(a + k) + 1] = Below(v)[a + k]
    BY <2>2, <2>3, <2>4
  <2>6. Below(v)[a + k] = Below(v)[a]
    BY <1>2
  <2> QED BY <2>1, <2>5, <2>6
<1> HIDE DEF S
<1>3. b - a \in Nat
  OBVIOUS
<1>4. 0..(b - a) \subseteq S
  BY <1>1, <1>2, <1>3, IntervalInduction
<1>5. b - a \in S
  BY <1>3, <1>4
<1>6. a + (b - a) = b
  OBVIOUS
<1> QED BY <1>5, <1>6 DEF S

(* Powers multiply.                                                        *)
LEMMA BaseToPlus ==
  ASSUME NEW i \in Nat, NEW j \in Nat
  PROVE  BaseTo(i + j) = BaseTo(i) * BaseTo(j)
<1>1. WordBits \in Nat
  BY BaseFacts
<1>2. WordBits * i \in Nat /\ WordBits * j \in Nat /\ WordBits * (i + j) = WordBits * i + WordBits * j
  BY <1>1
<1> QED BY <1>2, Pow2Plus DEF BaseTo

(* The products of the columns before column k, and those of column k, as  *)
(* digits at the place of the word of left.                                *)
Clip(x, n) == IF x < 0 THEN 0 ELSE IF x > n THEN n ELSE x
Products(left, right, n, k) ==
  [j \in 1..n |-> left[j] * Below(right)[Clip(k - (j - 1), n)]]
InColumn(n, k, j) == 0 <= k - (j - 1) /\ k - (j - 1) < n
ColumnProducts(left, right, n, k) ==
  [j \in 1..n |->
     IF InColumn(n, k, j)
     THEN left[j] * (right[(k - (j - 1)) + 1] * BaseTo(k - (j - 1))) ELSE 0]

(* The products of the columns up to k, word by word: they add up to the   *)
(* product of the values.                                                  *)
LEMMA ProductsDefined ==
  ASSUME NEW n \in Nat \ {0}, NEW left \in Vlis(n), NEW right \in Vlis(n)
  PROVE  /\ Value(Products(left, right, n, 0)) = 0
         /\ Value(Products(left, right, n, 2 * n - 1)) = Value(left) * Value(right)
         /\ \A k \in Nat :
              /\ ColumnProducts(left, right, n, k) \in [1..n -> Int]
              /\ Value(Products(left, right, n, k)) \in Int
              /\ Value(Products(left, right, n, k + 1))
                   = Value(Products(left, right, n, k)) + Value(ColumnProducts(left, right, n, k))
<1>1. left \in [1..n -> Int] /\ right \in [1..n -> Int]
  BY VliOfInts
<1>2. /\ Below(right) \in [0..n -> Int] /\ Below(right)[0] = 0 /\ Value(right) = Below(right)[n]
      /\ \A i \in 0..(n - 1) : Below(right)[i + 1] = Below(right)[i] + right[i + 1] * BaseTo(i)
  BY <1>1, BelowDefined
<1>3. ASSUME NEW k \in Int PROVE Products(left, right, n, k) \in [1..n -> Int]
  <2>1. ASSUME NEW j \in 1..n PROVE left[j] * Below(right)[Clip(k - (j - 1), n)] \in Int
    <3>1. Clip(k - (j - 1), n) \in 0..n
      BY DEF Clip
    <3> QED BY <1>1, <1>2, <3>1
  <2> QED BY <2>1 DEF Products
<1>4. ASSUME NEW k \in Nat PROVE ColumnProducts(left, right, n, k) \in [1..n -> Int]
  <2>1. ASSUME NEW j \in 1..n, InColumn(n, k, j)
        PROVE  left[j] * (right[(k - (j - 1)) + 1] * BaseTo(k - (j - 1))) \in Int
    <3>1. k - (j - 1) \in Nat /\ (k - (j - 1)) + 1 \in 1..n
      BY <2>1 DEF InColumn
    <3>2. BaseTo(k - (j - 1)) \in Int
      BY <3>1, BaseFacts
    <3>3. right[(k - (j - 1)) + 1] \in Int /\ left[j] \in Int
      BY <1>1, <3>1
    <3> QED BY <3>2, <3>3
  <2> QED BY <2>1 DEF ColumnProducts
<1>5. ASSUME NEW k \in Nat
      PROVE  Value(Products(left, right, n, k + 1))
               = Value(Products(left, right, n, k)) + Value(ColumnProducts(left, right, n, k))
  <2> DEFINE v == Products(left, right, n, k + 1)
             l == Products(left, right, n, k)
             r == ColumnProducts(left, right, n, k)
  <2>1. v \in [1..n -> Int] /\ l \in [1..n -> Int] /\ r \in [1..n -> Int]
    <3>1. k \in Int /\ k + 1 \in Int
      OBVIOUS
    <3>2. v \in [1..n -> Int]
      BY <1>3, <3>1
    <3>3. l \in [1..n -> Int]
      BY <1>3, <3>1
    <3> QED BY <1>4, <3>2, <3>3
  <2>2. ASSUME NEW j \in 1..n PROVE v[j] = l[j] + 1 * r[j]
    <3> DEFINE i == k - (j - 1)
    <3>1. v[j] = left[j] * Below(right)[Clip(i + 1, n)] /\ l[j] = left[j] * Below(right)[Clip(i, n)]
      <4>1. (k + 1) - (j - 1) = i + 1
        OBVIOUS
      <4> QED BY <4>1 DEF Products
    <3>2. r[j] = IF 0 <= i /\ i < n THEN left[j] * (right[i + 1] * BaseTo(i)) ELSE 0
      BY DEF ColumnProducts, InColumn
    <3>3. i \in Int /\ left[j] \in Int
      BY <1>1
    <3> HIDE DEF i, v, l, r
    <3>4. CASE 0 <= i /\ i < n
      <4>1. Clip(i + 1, n) = i + 1 /\ Clip(i, n) = i /\ i \in 0..(n - 1) /\ i \in 0..n /\ i + 1 \in 1..n
            /\ i \in Nat
        BY <3>3, <3>4 DEF Clip
      <4>2. Below(right)[i + 1] = Below(right)[i] + right[i + 1] * BaseTo(i) /\ Below(right)[i] \in Int
        BY <1>2, <4>1
      <4>3. right[i + 1] * BaseTo(i) \in Int
        <5>1. BaseTo(i) \in Int
          BY <4>1, BaseFacts
        <5>2. right[i + 1] \in Int
          BY <1>1, <4>1
        <5> QED BY <5>1, <5>2
      <4>4. \A x, y \in Int : left[j] * (x + y) = left[j] * x + 1 * (left[j] * y)
        BY <3>3
      <4>5. left[j] * Below(right)[i + 1]
              = left[j] * Below(right)[i] + 1 * (left[j] * (right[i + 1] * BaseTo(i)))
        BY <4>2, <4>3, <4>4
      <4> QED BY <3>1, <3>2, <3>4, <4>1, <4>5
    <3>5. CASE ~(0 <= i /\ i < n)
      <4>1. Clip(i + 1, n) = Clip(i, n) /\ Clip(i, n) \in 0..n
        BY <3>3, <3>5 DEF Clip
      <4>2. l[j] \in Int
        BY <2>1
      <4> QED BY <3>1, <3>2, <3>5, <4>1, <4>2
    <3> QED BY <3>4, <3>5
  <2> HIDE DEF v, l, r
  <2>3. Value(v) = Value(l) + 1 * Value(r)
    <3> DEFINE sign == 1
    <3>1. sign \in Int /\ \A j \in 1..n : v[j] = l[j] + sign * r[j]
      BY <2>2
    <3> HIDE DEF sign
    <3>2. Value(v) = Value(l) + sign * Value(r)
      BY <2>1, <3>1, ValueOfSums
    <3> QED BY <3>2 DEF sign
  <2>4. Value(r) \in Int
    <3>1. Below(r) \in [0..n -> Int] /\ Value(r) = Below(r)[n]
      BY <2>1, BelowDefined
    <3> QED BY <3>1
  <2> QED BY <2>3, <2>4 DEF v, l, r
<1>6. Value(Products(left, right, n, 0)) = 0
  <2>1. ASSUME NEW j \in 1..n PROVE left[j] * Below(right)[Clip(0 - (j - 1), n)] = 0
    <3>1. Clip(0 - (j - 1), n) = 0
      BY DEF Clip
    <3> QED BY <1>1, <1>2, <3>1
  <2>2. Products(left, right, n, 0) = vli_clear(n)
    BY <2>1 DEF Products, vli_clear
  <2> QED BY <2>2, ZeroExact
<1>7. Value(Products(left, right, n, 2 * n - 1)) = Value(left) * Value(right)
  <2> DEFINE v == Products(left, right, n, 2 * n - 1)
             zero == vli_clear(n)
             R == Value(right)
  <2>1. v \in [1..n -> Int] /\ zero \in [1..n -> Int] /\ R \in Int /\ Value(left) \in Int /\ Value(zero) = 0
    <3>1. zero \in Vlis(n) /\ Value(zero) = 0
      BY ZeroExact
    <3>2. zero \in [1..n -> Int] /\ R \in Int /\ Value(left) \in Int
      BY <3>1, VliOfInts, ValueBound
    <3>3. v \in [1..n -> Int]
      <4>1. 2 * n - 1 \in Int
        OBVIOUS
      <4> QED BY <1>3, <4>1
    <3> QED BY <3>1, <3>2, <3>3
  <2>2. ASSUME NEW j \in 1..n PROVE v[j] = zero[j] + R * left[j]
    <3>1. Clip((2 * n - 1) - (j - 1), n) = n
      BY DEF Clip
    <3>2. v[j] = left[j] * R
      BY <1>2, <3>1 DEF Products
    <3>3. zero[j] = 0
      BY DEF vli_clear
    <3>4. left[j] \in Int
      BY <1>1
    <3> HIDE DEF v, zero, R
    <3> QED BY <2>1, <3>2, <3>3, <3>4
  <2> HIDE DEF v, zero, R
  <2>3. Value(v) = Value(zero) + R * Value(left)
    <3>1. R \in Int /\ \A j \in 1..n : v[j] = zero[j] + R * left[j]
      BY <2>1, <2>2
    <3>2. v \in [1..n -> Int] /\ zero \in [1..n -> Int] /\ n \in Nat
      BY <2>1
    <3> QED BY <1>1, <3>1, <3>2, ValueOfSums
  <2> QED BY <2>1, <2>3 DEF v, R
<1>8. ASSUME NEW k \in Nat PROVE Value(Products(left, right, n, k)) \in Int
  <2>1. Products(left, right, n, k) \in [1..n -> Int]
    BY <1>3
  <2>2. Below(Products(left, right, n, k)) \in [0..n -> Int]
        /\ Value(Products(left, right, n, k)) = Below(Products(left, right, n, k))[n]
    BY <2>1, BelowDefined
  <2> QED BY <2>2
<1> QED BY <1>4, <1>5, <1>6, <1>7, <1>8

(* The loop over a column of products.                                     *)
First(n, k) == IF k < n THEN 0 ELSE k + 1 - n
Last(n, k) == IF k < n THEN k ELSE n - 1
ColumnRuns(sum, left, right, n, k, r) ==
  /\ sum \in [0..(Last(n, k) - First(n, k) + 1) -> Three] /\ sum[0] = r
  /\ Column(left, right, k, r) = sum[Last(n, k) - First(n, k) + 1]
  /\ \A i \in 0..(Last(n, k) - First(n, k)) :
       sum[i + 1] = muladd(left[(First(n, k) + i) + 1], right[(k - (First(n, k) + i)) + 1], sum[i])

(* The products that the code takes into column k are those that belong    *)
(* there.                                                                  *)
LEMMA ColumnRange ==
  ASSUME NEW n \in Nat \ {0}, NEW k \in 0..(2 * n - 2)
  PROVE  /\ First(n, k) \in Nat /\ Last(n, k) \in Nat
         /\ First(n, k) <= Last(n, k) /\ Last(n, k) <= n - 1
         /\ k - First(n, k) < n /\ Last(n, k) <= k
         /\ \A j \in 1..n : InColumn(n, k, j) <=> First(n, k) <= j - 1 /\ j - 1 <= Last(n, k)
BY DEF First, Last, InColumn

(* The loop of a column turn by turn.                                      *)
LEMMA ColumnDefined ==
  ASSUME NEW n \in Nat \ {0}, NEW left \in Vlis(n), NEW right \in Vlis(n),
         NEW k \in 0..(2 * n - 2), NEW r \in Three
  PROVE  \E sum : ColumnRuns(sum, left, right, n, k, r)
<1> DEFINE first == First(n, k)
           last == Last(n, k)
           N == last - first + 1
           turns == [i \in 0..(N - 1) |->
                       [x \in Three |->
                          muladd(left[(first + i) + 1], right[(k - (first + i)) + 1], x)]]
           G(g) == [i \in 0..N |->
                      IF i = 0 THEN r
                      ELSE LET j == first + i - 1
                           IN muladd(left[j + 1], right[k - j + 1], g[i - 1])]
           Sum == CHOOSE g : g = G(g)
<1>0. /\ first \in Nat /\ last \in Nat /\ first <= last /\ last <= n - 1
      /\ k - first < n /\ last <= k
  BY ColumnRange
<1>1. Column(left, right, k, r) = Sum[N]
  <2>1. Len(left) = n
    BY LenOfVli DEF Vlis
  <2> QED BY <2>1 DEF Column, First, Last
<1> HIDE DEF first, last
<1>2. ASSUME NEW i \in 0..(N - 1), NEW x \in Three
      PROVE  muladd(left[(first + i) + 1], right[(k - (first + i)) + 1], x) \in Three
  <2>1. (first + i) + 1 \in 1..n /\ (k - (first + i)) + 1 \in 1..n
    BY <1>0
  <2>2. left[(first + i) + 1] \in Word /\ right[(k - (first + i)) + 1] \in Word
    BY <2>1 DEF Vlis
  <2> QED BY <2>2, MuladdExact
<1>3. turns \in [0..(N - 1) -> [Three -> Three]] /\ N \in Nat
  BY <1>0, <1>2
<1> HIDE DEF N
<1>4. PICK f : FollowsUpTo(f, N, Three, r, turns)
  <2> HIDE DEF turns
  <2> QED BY <1>3, FiniteRecursionExists
<1>5. f = G(f)
  <2>1. ASSUME NEW i \in 0..N, i # 0
        PROVE  turns[i - 1][f[i - 1]]
                 = LET j == first + i - 1 IN muladd(left[j + 1], right[k - j + 1], f[i - 1])
    <3>1. i - 1 \in 0..(N - 1) /\ i - 1 \in 0..N /\ first + i - 1 = first + (i - 1)
          /\ k - (first + i - 1) + 1 = (k - (first + (i - 1))) + 1
      BY <1>0, <1>3, <2>1
    <3>2. f[i - 1] \in Three
      BY <1>4, <3>1 DEF FollowsUpTo
    <3> QED BY <3>1, <3>2
  <2> HIDE DEF turns
  <2>2. f = [i \in 0..N |-> IF i = 0 THEN r ELSE turns[i - 1][f[i - 1]]]
    BY <1>4 DEF FollowsUpTo
  <2> QED BY <2>1, <2>2
<1>6. Sum = G(Sum)
  <2> HIDE DEF G
  <2> QED BY <1>5
<1> HIDE DEF Sum
<1>7. \A i \in 0..N : Sum[i] = IF i = 0 THEN r
                               ELSE LET j == first + i - 1
                                    IN muladd(left[j + 1], right[k - j + 1], Sum[i - 1])
  BY <1>6
<1>8. ASSUME NEW i \in 0..(N - 1)
      PROVE  Sum[i + 1] = muladd(left[(first + i) + 1], right[(k - (first + i)) + 1], Sum[i])
  <2>1. i + 1 \in 0..N /\ i + 1 # 0 /\ first + (i + 1) - 1 = first + i /\ (i + 1) - 1 = i
        /\ k - (first + (i + 1) - 1) + 1 = (k - (first + i)) + 1
    BY <1>0, <1>3
  <2>2. Sum[i + 1] = LET j == first + (i + 1) - 1
                     IN muladd(left[j + 1], right[k - j + 1], Sum[(i + 1) - 1])
    BY <1>7, <2>1
  <2> QED BY <2>1, <2>2
<1>9. Sum[0] = r
  BY <1>3, <1>7
<1> DEFINE S == {i \in 0..N : Sum[i] \in Three}
<1>10. 0..N \subseteq S
  <2>1. 0 \in S
    BY <1>3, <1>9
  <2>2. ASSUME NEW i \in 0..(N - 1), i \in S PROVE i + 1 \in S
    <3>1. Sum[i] \in Three
      BY <2>2
    <3>2. Sum[i + 1] \in Three
      BY <1>2, <1>8, <3>1
    <3> QED BY <1>3, <3>2
  <2> HIDE DEF S
  <2> QED BY <1>3, <2>1, <2>2, IntervalInduction
<1>11. Sum \in [0..N -> Three]
  <2>1. Sum = [i \in 0..N |-> Sum[i]]
    BY <1>6
  <2> QED BY <1>10, <2>1
<1>12. N = Last(n, k) - First(n, k) + 1 /\ first = First(n, k) /\ N - 1 = Last(n, k) - First(n, k)
  BY <1>0 DEF N, first, last
<1>13. ColumnRuns(Sum, left, right, n, k, r)
  <2>1. Column(left, right, k, r) = Sum[N]
    BY <1>1 DEF Sum, N
  <2>2. \A i \in 0..(N - 1) :
          Sum[i + 1] = muladd(left[(first + i) + 1], right[(k - (first + i)) + 1], Sum[i])
    BY <1>8
  <2> QED BY <1>9, <1>11, <1>12, <2>1, <2>2 DEF ColumnRuns
<1> QED BY <1>13

(* A column that begins with no more than n * (Base - 1) does not overflow *)
(* the three words, and adds the products of the column.                   *)
LEMMA ColumnExact ==
  ASSUME NEW n \in Nat \ {0}, n <= Base, NEW left \in Vlis(n), NEW right \in Vlis(n),
         NEW k \in 0..(2 * n - 2), NEW r \in Three, Held(r) <= n * (Base - 1)
  PROVE  /\ Column(left, right, k, r) \in Three
         /\ Held(Column(left, right, k, r)) <= n * ((Base - 1) * Base)
         /\ Held(Column(left, right, k, r)) * BaseTo(k)
              = Held(r) * BaseTo(k) + Value(ColumnProducts(left, right, n, k))
<1> DEFINE first == First(n, k)
           last == Last(n, k)
           N == last - first + 1
           M == (Base - 1) * (Base - 1)
           B == BaseTo(k)
           added == ColumnProducts(left, right, n, k)
<1>0. /\ first \in Nat /\ last \in Nat /\ first <= last /\ last <= n - 1
      /\ k - first < n /\ last <= k
      /\ \A j \in 1..n : InColumn(n, k, j) <=> first <= j - 1 /\ j - 1 <= last
  BY ColumnRange
<1>1. PICK sum : ColumnRuns(sum, left, right, n, k, r)
  BY ColumnDefined
<1>2. /\ sum \in [0..N -> Three] /\ sum[0] = r /\ Column(left, right, k, r) = sum[N]
      /\ \A i \in 0..(N - 1) :
           sum[i + 1] = muladd(left[(first + i) + 1], right[(k - (first + i)) + 1], sum[i])
  <2>1. N - 1 = last - first
    BY <1>0
  <2> QED BY <1>1, <2>1 DEF ColumnRuns
<1>3. Base \in Nat /\ Base >= 2 /\ B \in Nat /\ k \in Nat
  BY BaseFacts
<1>4. M \in Nat
  BY <1>3
<1>5. added \in [1..n -> Int] /\ Below(added) \in [0..n -> Int] /\ Value(added) = Below(added)[n]
      /\ \A i \in 0..(n - 1) : Below(added)[i + 1] = Below(added)[i] + added[i + 1] * BaseTo(i)
  <2>1. added \in [1..n -> Int]
    BY <1>3, ProductsDefined
  <2> HIDE DEF added
  <2> QED BY <2>1, BelowDefined
<1>6. Below(added)[first] = 0
  <2>1. ASSUME NEW j \in (0 + 1)..first PROVE added[j] = 0
    <3>1. j \in 1..n /\ ~(first <= j - 1)
      BY <1>0
    <3>2. ~InColumn(n, k, j)
      BY <1>0, <3>1
    <3> QED BY <3>1, <3>2 DEF ColumnProducts
  <2>2. first \in 0..n /\ 0 \in 0..n
    BY <1>0
  <2> HIDE DEF added, first
  <2>3. Below(added)[first] = Below(added)[0]
    BY <1>5, <2>1, <2>2, BelowFlat
  <2> QED BY <1>5, <2>3, BelowDefined
<1>7. Below(added)[first + N] = Value(added)
  <2>1. first + N = last + 1 /\ last + 1 \in 0..n /\ n \in (last + 1)..n
    BY <1>0
  <2>2. ASSUME NEW j \in ((last + 1) + 1)..n PROVE added[j] = 0
    <3>1. j \in 1..n /\ ~(j - 1 <= last)
      BY <1>0
    <3>2. ~InColumn(n, k, j)
      BY <1>0, <3>1
    <3> QED BY <3>1, <3>2 DEF ColumnProducts
  <2> HIDE DEF added, last
  <2>3. Below(added)[n] = Below(added)[last + 1]
    BY <1>5, <2>1, <2>2, BelowFlat
  <2> QED BY <1>5, <2>1, <2>3
<1>8. ASSUME NEW i \in 0..(N - 1)
      PROVE  /\ left[(first + i) + 1] \in Word /\ right[(k - (first + i)) + 1] \in Word
             /\ Below(added)[(first + i) + 1]
                  = Below(added)[first + i]
                      + (left[(first + i) + 1] * right[(k - (first + i)) + 1]) * B
             /\ Below(added)[first + i] \in Int /\ Below(added)[(first + i) + 1] \in Int
  <2> DEFINE t == first + i
             a == left[t + 1]
             b == right[(k - t) + 1]
  <2>1. /\ t + 1 \in 1..n /\ (t + 1) - 1 = t /\ (k - t) + 1 \in 1..n /\ t \in 0..(n - 1)
        /\ k - t \in Nat /\ t \in Nat /\ t \in 0..n /\ t + 1 \in 0..n
        /\ first <= (t + 1) - 1 /\ (t + 1) - 1 <= last /\ (k - t) + t = k
    BY <1>0
  <2>2. a \in Word /\ b \in Word /\ a \in Int /\ b \in Int
    <3>1. a \in Word /\ b \in Word
      BY <2>1 DEF Vlis
    <3> QED BY <1>3, <3>1 DEF Word
  <2>3. InColumn(n, k, t + 1)
    BY <1>0, <2>1
  <2>4. added[t + 1] = a * (b * BaseTo(k - t))
    BY <2>1, <2>3 DEF ColumnProducts
  <2>5. BaseTo(k - t) * BaseTo(t) = B
    <3>1. BaseTo((k - t) + t) = BaseTo(k - t) * BaseTo(t)
      BY <2>1, BaseToPlus
    <3> QED BY <2>1, <3>1
  <2>6. BaseTo(k - t) \in Int /\ BaseTo(t) \in Int
    BY <2>1, BaseFacts
  <2>7. Below(added)[t + 1] = Below(added)[t] + added[t + 1] * BaseTo(t)
    BY <1>5, <2>1
  <2>8. Below(added)[t] \in Int /\ Below(added)[t + 1] \in Int
    BY <1>5, <2>1
  <2> HIDE DEF t, a, b, added, B, first
  <2>9. (a * (b * BaseTo(k - t))) * BaseTo(t) = (a * b) * (BaseTo(k - t) * BaseTo(t))
    <3>1. \A x, y, z, w \in Int : (x * (y * z)) * w = (x * y) * (z * w)
      OBVIOUS
    <3> QED BY <2>2, <2>6, <3>1
  <2>10. Below(added)[t + 1] = Below(added)[t] + (a * b) * B
    BY <2>4, <2>5, <2>7, <2>9
  <2> QED BY <2>2, <2>8, <2>10 DEF t, a, b
<1> HIDE DEF added, first, last, N, M, B
<1> DEFINE Exact(i) == /\ Held(sum[i]) <= n * (Base - 1) + i * M
                       /\ Held(sum[i]) * B = Held(r) * B + Below(added)[first + i]
           S == {i \in 0..N : Exact(i)}
<1>9. N \in Nat /\ N <= n /\ N >= 1 /\ first \in Nat /\ first + 0 = first
  BY <1>0 DEF N
<1>10. 0 \in S
  <2>1. Held(r) \in Nat /\ Held(r) * B \in Int
    BY <1>3, ThreeFacts
  <2> QED BY <1>2, <1>3, <1>4, <1>6, <1>9, <2>1
<1>11. ASSUME NEW i \in 0..(N - 1), i \in S PROVE i + 1 \in S
  <2> DEFINE a == left[(first + i) + 1]
             b == right[(k - (first + i)) + 1]
  <2>1. /\ a \in Word /\ b \in Word
        /\ Below(added)[(first + i) + 1] = Below(added)[first + i] + (a * b) * B
        /\ Below(added)[first + i] \in Int
        /\ sum[i + 1] = muladd(a, b, sum[i]) /\ sum[i] \in Three
        /\ (first + i) + 1 = first + (i + 1)
    <3>1. i \in 0..N
      BY <1>9
    <3> QED BY <1>2, <1>8, <1>9, <3>1
  <2> HIDE DEF a, b
  <2>2. /\ Held(sum[i]) + a * b < Base * (Base * Base) => Held(sum[i + 1]) = Held(sum[i]) + a * b
        /\ 0 <= a * b /\ a * b <= M
    BY <2>1, MuladdExact DEF M
  <2>3. Held(sum[i]) \in Nat /\ a * b \in Int /\ Held(r) \in Nat
    <3>1. a \in Int /\ b \in Int
      BY <1>3, <2>1 DEF Word
    <3> QED BY <2>1, <3>1, ThreeFacts
  <2>4. Held(sum[i]) <= n * (Base - 1) + i * M
        /\ Held(sum[i]) * B = Held(r) * B + Below(added)[first + i]
    BY <1>11
  <2>5. Held(sum[i]) + a * b <= n * (Base - 1) + (i + 1) * M
    <3>1. (i + 1) * M = i * M + M /\ i * M \in Int /\ n * (Base - 1) \in Int
      BY <1>3, <1>4, <1>9
    <3> QED BY <1>4, <2>2, <2>3, <2>4, <3>1
  <2>6. n * (Base - 1) + (i + 1) * M < Base * (Base * Base)
    <3>1. (i + 1) * M <= n * M
      <4>1. \A x, y, z \in Nat : x <= y => x * z <= y * z
        OBVIOUS
      <4>2. i + 1 \in Nat /\ i + 1 <= n
        BY <1>9
      <4> QED BY <1>4, <4>1, <4>2
    <3>2. n * (Base - 1) + n * M = n * ((Base - 1) * Base)
      <4>1. \A x, y \in Int : x * (y - 1) + x * ((y - 1) * (y - 1)) = x * ((y - 1) * y)
        OBVIOUS
      <4> QED BY <1>3, <4>1 DEF M
    <3>3. n * ((Base - 1) * Base) <= Base * ((Base - 1) * Base)
      <4>1. \A x, y, z \in Nat : x <= y => x * z <= y * z
        OBVIOUS
      <4>2. (Base - 1) * Base \in Nat
        BY <1>3
      <4> QED BY <1>3, <4>1, <4>2
    <3>4. Base * ((Base - 1) * Base) < Base * (Base * Base)
      <4>1. \A x \in Nat : x >= 2 => x * ((x - 1) * x) = x * (x * x) - x * x /\ x * x > 0
                           /\ x * x \in Int /\ x * (x * x) \in Int
        OBVIOUS
      <4> QED BY <1>3, <4>1
    <3>5. /\ (i + 1) * M \in Int /\ n * M \in Int /\ n * (Base - 1) \in Int
          /\ n * ((Base - 1) * Base) \in Int /\ Base * ((Base - 1) * Base) \in Int
          /\ Base * (Base * Base) \in Int
      BY <1>3, <1>4, <1>9
    <3> QED BY <3>1, <3>2, <3>3, <3>4, <3>5
  <2>7. Held(sum[i + 1]) = Held(sum[i]) + a * b
    <3>1. /\ n * (Base - 1) + (i + 1) * M \in Int /\ Base * (Base * Base) \in Int
      BY <1>3, <1>4, <1>9
    <3> QED BY <2>2, <2>3, <2>5, <2>6, <3>1
  <2>8. Held(sum[i + 1]) * B = Held(r) * B + Below(added)[first + (i + 1)]
    <3>1. (Held(sum[i]) + a * b) * B = Held(sum[i]) * B + (a * b) * B
      BY <1>3, <2>3
    <3>2. Held(sum[i]) * B \in Int /\ (a * b) * B \in Int /\ Held(r) * B \in Int
      BY <1>3, <2>3
    <3> QED BY <2>1, <2>4, <2>7, <3>1, <3>2
  <2> QED BY <1>9, <2>5, <2>7, <2>8
<1> HIDE DEF S
<1>12. 0..N \subseteq S
  BY <1>9, <1>10, <1>11, IntervalInduction
<1>13. Exact(N)
  BY <1>9, <1>12 DEF S
<1>14. Held(sum[N]) <= n * ((Base - 1) * Base)
  <2>1. N * M <= n * M
    <3>1. \A x, y, z \in Nat : x <= y => x * z <= y * z
      OBVIOUS
    <3> QED BY <1>4, <1>9, <3>1
  <2>2. n * (Base - 1) + n * M = n * ((Base - 1) * Base)
    <3>1. \A x, y \in Int : x * (y - 1) + x * ((y - 1) * (y - 1)) = x * ((y - 1) * y)
      OBVIOUS
    <3> QED BY <1>3, <3>1 DEF M
  <2>3. sum[N] \in Three
    BY <1>2, <1>9
  <2>4. Held(sum[N]) \in Nat
    BY <2>3, ThreeFacts
  <2>5. N * M \in Int /\ n * M \in Int /\ n * (Base - 1) \in Int
    BY <1>3, <1>4, <1>9
  <2> QED BY <1>13, <2>1, <2>2, <2>4, <2>5
<1>15. sum[N] \in Three
  BY <1>2, <1>9
<1> QED BY <1>2, <1>7, <1>13, <1>14, <1>15 DEF added, B, N, first, last

(* The loop over the columns.                                              *)
MultTurn(left, right, k, s) ==
  LET c == Column(left, right, k, s.r)
  IN [result |-> Append(s.result, c[1]), r |-> <<c[2], c[3], 0>>]
MultRuns(turn, left, right, n) ==
  /\ turn[0] = [result |-> <<>>, r |-> <<0, 0, 0>>]
  /\ vli_mult(left, right) = Append(turn[2 * n - 1].result, turn[2 * n - 1].r[1])
  /\ \A k \in 0..(2 * n - 2) : turn[k + 1] = MultTurn(left, right, k, turn[k])

(* The loop over the columns turn by turn.                                 *)
LEMMA MultDefined ==
  ASSUME NEW n \in Nat \ {0}, NEW left \in Vlis(n), NEW right \in Vlis(n)
  PROVE  \E turn : MultRuns(turn, left, right, n)
<1> DEFINE A == [result : Seq(Word), r : Three]
           a == [result |-> <<>>, r |-> <<0, 0, 0>>]
           N == 2 * n - 1
           step == [k \in 0..(N - 1) |-> [s \in A |-> MultTurn(left, right, k, s)]]
           G(g) == [k \in 0..N |-> IF k = 0 THEN a ELSE MultTurn(left, right, k - 1, g[k - 1])]
           Turn == CHOOSE g : g = G(g)
<1>0. Len(left) = n
  BY LenOfVli DEF Vlis
<1>1. vli_mult(left, right) = Append(Turn[N].result, Turn[N].r[1])
  BY <1>0 DEF vli_mult, MultTurn
<1>2. N \in Nat /\ N - 1 = 2 * n - 2
  OBVIOUS
<1> HIDE DEF N
<1>3. ASSUME NEW k \in 0..(N - 1), NEW s \in A PROVE MultTurn(left, right, k, s) \in A
  <2> DEFINE c == Column(left, right, k, s.r)
  <2>1. s.r \in Three /\ s.result \in Seq(Word) /\ k \in 0..(2 * n - 2)
    BY <1>2
  <2>2. c \in Three
    <3>1. PICK sum : ColumnRuns(sum, left, right, n, k, s.r)
      BY <2>1, ColumnDefined
    <3>2. Last(n, k) - First(n, k) + 1 \in 0..(Last(n, k) - First(n, k) + 1)
      BY <2>1, ColumnRange
    <3> QED BY <3>1, <3>2 DEF ColumnRuns
  <2> HIDE DEF c, A
  <2>3. c[1] \in Word /\ <<c[2], c[3], 0>> \in Three
    BY <2>2, ThreeFacts, BaseFacts DEF Three
  <2>4. Append(s.result, c[1]) \in Seq(Word)
    BY <2>1, <2>3
  <2> QED BY <2>3, <2>4 DEF MultTurn, A, c
<1>4. step \in [0..(N - 1) -> [A -> A]]
  <2> HIDE DEF A
  <2> QED BY <1>3
<1>5. a \in A
  <2>1. <<0, 0, 0>> \in Three
    BY BaseFacts DEF Three
  <2> QED BY <2>1
<1>6. PICK f : FollowsUpTo(f, N, A, a, step)
  <2> HIDE DEF A, a, step
  <2> QED BY <1>2, <1>4, <1>5, FiniteRecursionExists
<1>7. f = G(f)
  <2>1. ASSUME NEW k \in 0..N, k # 0
        PROVE  step[k - 1][f[k - 1]] = MultTurn(left, right, k - 1, f[k - 1])
    <3>1. k - 1 \in 0..(N - 1) /\ k - 1 \in 0..N
      BY <1>2, <2>1
    <3>2. f[k - 1] \in A
      BY <1>6, <3>1 DEF FollowsUpTo
    <3> HIDE DEF A
    <3> QED BY <3>1, <3>2
  <2> HIDE DEF step, a
  <2>2. f = [k \in 0..N |-> IF k = 0 THEN a ELSE step[k - 1][f[k - 1]]]
    BY <1>6 DEF FollowsUpTo
  <2> QED BY <2>1, <2>2
<1>8. Turn = G(Turn)
  <2> HIDE DEF G
  <2> QED BY <1>7
<1> HIDE DEF Turn
<1>9. \A k \in 0..N : Turn[k] = IF k = 0 THEN a ELSE MultTurn(left, right, k - 1, Turn[k - 1])
  BY <1>8
<1>10. Turn[0] = a
  BY <1>2, <1>9
<1>11. ASSUME NEW k \in 0..(2 * n - 2) PROVE Turn[k + 1] = MultTurn(left, right, k, Turn[k])
  <2>1. k + 1 \in 0..N /\ k + 1 # 0 /\ (k + 1) - 1 = k
    BY <1>2
  <2> QED BY <1>9, <2>1
<1>12. MultRuns(Turn, left, right, n)
  <2>1. N = 2 * n - 1
    BY DEF N
  <2> QED BY <1>1, <1>10, <1>11, <2>1 DEF MultRuns
<1> QED BY <1>12

(* uECC_vli_mult() is exact: the three words that a column is added up in  *)
(* lose no carry (uECC.c:416-445).                                         *)
THEOREM MultExact ==
  ASSUME NEW n \in Nat \ {0}, n <= Base, NEW left \in Vlis(n), NEW right \in Vlis(n)
  PROVE  /\ vli_mult(left, right) \in Vlis(2 * n)
         /\ Value(vli_mult(left, right)) = Value(left) * Value(right)
<1> DEFINE N == 2 * n - 1
           sums(k) == Value(Products(left, right, n, k))
<1>1. PICK turn : MultRuns(turn, left, right, n)
  BY MultDefined
<1> DEFINE Exact(k) ==
             /\ turn[k].result \in Vlis(k) /\ turn[k].r \in Three
             /\ Held(turn[k].r) <= n * (Base - 1)
             /\ Value(turn[k].result) + Held(turn[k].r) * BaseTo(k) = sums(k)
           S == {k \in 0..N : Exact(k)}
<1>2. Base \in Nat /\ Base >= 2 /\ N \in Nat /\ N - 1 = 2 * n - 2
  BY BaseFacts
<1>3. 0 \in S
  <2>1. turn[0].result = <<>> /\ turn[0].r = <<0, 0, 0>>
    BY <1>1 DEF MultRuns
  <2>2. <<0, 0, 0>> \in Three /\ Held(<<0, 0, 0>>) = 0
    BY BaseFacts DEF Three, Held
  <2>3. <<>> \in Vlis(0) /\ <<>> \in [1..0 -> Int]
    BY DEF Vlis
  <2>4. Value(<<>>) = 0
    <3>1. Value(<<>>) = Below(<<>>)[0] /\ Below(<<>>)[0] = 0
      BY <2>3, BelowDefined
    <3> QED BY <3>1
  <2>5. sums(0) = 0
    BY ProductsDefined
  <2>6. BaseTo(0) = 1 /\ 0 <= n * (Base - 1)
    BY <1>2, BaseFacts
  <2>7. Exact(0)
    BY <2>1, <2>2, <2>3, <2>4, <2>5, <2>6
  <2> QED BY <1>2, <2>7
<1>4. ASSUME NEW k \in 0..(N - 1), k \in S PROVE k + 1 \in S
  <2> DEFINE s == turn[k]
             c == Column(left, right, k, s.r)
             r2 == <<c[2], c[3], 0>>
             B == BaseTo(k)
  <2>1. k \in 0..(2 * n - 2) /\ k \in Nat /\ k + 1 \in 0..N
    BY <1>2
  <2>2. turn[k + 1].result = Append(s.result, c[1]) /\ turn[k + 1].r = r2
    <3>1. turn[k + 1] = MultTurn(left, right, k, turn[k])
      BY <1>1, <2>1 DEF MultRuns
    <3>2. turn[k + 1] = [result |-> Append(s.result, c[1]), r |-> r2]
      BY <3>1 DEF MultTurn
    <3> QED BY <3>2
  <2>3. /\ s.result \in Vlis(k) /\ s.r \in Three /\ Held(s.r) <= n * (Base - 1)
        /\ Value(s.result) + Held(s.r) * B = sums(k)
    BY <1>4
  <2>4. /\ c \in Three /\ Held(c) <= n * ((Base - 1) * Base)
        /\ Held(c) * B = Held(s.r) * B + Value(ColumnProducts(left, right, n, k))
    BY <2>1, <2>3, ColumnExact
  <2>5. sums(k + 1) = sums(k) + Value(ColumnProducts(left, right, n, k)) /\ sums(k) \in Int
    BY <2>1, ProductsDefined
  <2>6. Value(ColumnProducts(left, right, n, k)) \in Int
    <3> DEFINE added == ColumnProducts(left, right, n, k)
    <3>1. added \in [1..n -> Int]
      BY <2>1, ProductsDefined
    <3> HIDE DEF added
    <3>2. Below(added) \in [0..n -> Int] /\ Value(added) = Below(added)[n]
      BY <3>1, BelowDefined
    <3>3. Value(added) \in Int
      BY <3>2
    <3> QED BY <3>3 DEF added
  <2> HIDE DEF s, c, B, sums
  <2>7. c[1] \in Word /\ c[1] \in Nat /\ c[2] \in Nat /\ c[3] \in Nat /\ r2 \in Three
        /\ Held(c) \in Nat
    <3>1. c[1] \in Word /\ c[2] \in Word /\ c[3] \in Word
      BY <2>4, ThreeFacts
    <3>2. r2 \in Three
      BY <3>1, BaseFacts DEF Three
    <3> QED BY <2>4, <3>1, <3>2, ThreeFacts
  <2>8. Held(r2) \in Nat /\ Held(c) = c[1] + Base * Held(r2)
    <3>1. Held(r2) = c[2] + Base * c[3]
      <4>1. Held(r2) = c[2] + Base * (c[3] + Base * 0)
        BY DEF Held
      <4> QED BY <1>2, <2>7, <4>1
    <3>2. Held(r2) \in Nat
      BY <2>7, ThreeFacts
    <3> QED BY <3>1, <3>2 DEF Held
  <2>9. Held(r2) <= n * (Base - 1)
    <3>1. Base * Held(r2) <= (n * (Base - 1)) * Base
      <4>1. n * ((Base - 1) * Base) = (n * (Base - 1)) * Base
        BY <1>2
      <4>2. Base * Held(r2) \in Int /\ (n * (Base - 1)) * Base \in Int
        BY <1>2, <2>8
      <4> QED BY <2>4, <2>7, <2>8, <4>1, <4>2
    <3>2. \A b, x, y \in Nat : b >= 2 /\ b * x <= y * b => x <= y
      <4>1. ASSUME NEW b \in Nat, NEW x \in Nat, NEW y \in Nat, b >= 2, ~(x <= y)
            PROVE  ~(b * x <= y * b)
        <5>1. PICK z \in Nat : x = y + 1 + z
          <6>1. x - y - 1 \in Nat /\ x = y + 1 + (x - y - 1)
            BY <4>1
          <6> QED BY <6>1
        <5>2. b * x = b * y + b + b * z /\ b * z >= 0 /\ b * z \in Int /\ b * y \in Int /\ b * y = y * b
          BY <5>1
        <5> QED BY <4>1, <5>2
      <4> QED BY <4>1
    <3>3. n * (Base - 1) \in Nat
      BY <1>2
    <3> QED BY <1>2, <2>8, <3>1, <3>2, <3>3
  <2>10. Append(s.result, c[1]) \in Vlis(k + 1)
    <3>1. s.result \in [1..k -> Word]
      BY <2>3 DEF Vlis
    <3> QED BY <2>1, <2>7, <3>1, Appended DEF Vlis
  <2>11. Value(Append(s.result, c[1])) = Value(s.result) + c[1] * B
    <3>1. s.result \in [1..k -> Int] /\ c[1] \in Int
      BY <2>1, <2>3, <2>7, VliOfInts
    <3> QED BY <2>1, <3>1, ValueOfAppend DEF B
  <2>12. Held(r2) * BaseTo(k + 1) = (Base * Held(r2)) * B
    <3>1. BaseTo(k + 1) = B * Base /\ B \in Nat
      BY <2>1, BaseFacts DEF B
    <3>2. \A x, y, z \in Int : x * (y * z) = (z * x) * y
      OBVIOUS
    <3> QED BY <1>2, <2>8, <3>1, <3>2
  <2>13. Value(Append(s.result, c[1])) + Held(r2) * BaseTo(k + 1) = sums(k + 1)
    <3>1. B \in Nat /\ Value(s.result) \in Int
      BY <2>1, <2>3, BaseFacts, ValueBound DEF B
    <3>2. Held(c) * B = c[1] * B + (Base * Held(r2)) * B
      <4>1. \A x, y, z \in Int : (x + y) * z = x * z + y * z
        OBVIOUS
      <4>2. Base * Held(r2) \in Int
        BY <1>2, <2>8
      <4> QED BY <2>7, <2>8, <3>1, <4>1, <4>2
    <3>3. c[1] * B \in Int /\ (Base * Held(r2)) * B \in Int /\ Held(s.r) * B \in Int
      <4>1. Held(s.r) \in Int
        BY <2>3, ThreeFacts
      <4> QED BY <1>2, <2>7, <2>8, <3>1, <4>1
    <3> QED BY <2>3, <2>4, <2>5, <2>6, <2>11, <2>12, <3>1, <3>2, <3>3
  <2>14. Exact(k + 1)
    BY <2>2, <2>7, <2>9, <2>10, <2>13 DEF sums
  <2> QED BY <2>1, <2>14
<1> HIDE DEF S
<1>5. 0..N \subseteq S
  BY <1>2, <1>3, <1>4, IntervalInduction
<1> DEFINE result == turn[N].result
           r == turn[N].r
           L == Value(left)
           R == Value(right)
<1>6. /\ result \in Vlis(N) /\ r \in Three
      /\ Value(result) + Held(r) * BaseTo(N) = sums(N)
  BY <1>2, <1>5 DEF S
<1>7. sums(N) = L * R
  BY ProductsDefined
<1>8. vli_mult(left, right) = Append(result, r[1])
  BY <1>1 DEF MultRuns
<1> HIDE DEF result, r, sums
<1>9. L * R < BaseTo(2 * n)
  <2>1. /\ L \in Int /\ 0 <= L /\ L < BaseTo(n) /\ R \in Int /\ 0 <= R /\ R < BaseTo(n)
        /\ BaseTo(n) \in Nat
    BY ValueBound
  <2>2. BaseTo(2 * n) = BaseTo(n) * BaseTo(n)
    <3>1. 2 * n = n + n
      OBVIOUS
    <3> QED BY <3>1, BaseToPlus
  <2>3. \A b \in Nat : \A x, y \in 0..(b - 1) : x * y < b * b
    <3>1. \A b \in Nat : \A x, y \in 0..(b - 1) : x * y <= x * b /\ x * b <= b * b - b
                                               /\ x * y \in Int /\ x * b \in Int /\ b * b \in Int
      OBVIOUS
    <3> QED BY <3>1
  <2> HIDE DEF L, R
  <2> QED BY <2>1, <2>2, <2>3
<1>10. BaseTo(2 * n) = BaseTo(N) * Base /\ BaseTo(N) \in Nat \ {0} /\ N + 1 = 2 * n
  <2>1. N + 1 = 2 * n
    OBVIOUS
  <2> QED BY <1>2, <2>1, BaseFacts
<1> HIDE DEF N
<1>11. Held(r) \in Nat /\ Value(result) \in Nat
  <2>1. Value(result) \in Int /\ 0 <= Value(result)
    BY <1>2, <1>6, ValueBound
  <2> QED BY <1>6, <2>1, ThreeFacts
<1>12. Held(r) < Base
  <2>1. Held(r) * BaseTo(N) < BaseTo(N) * Base
    <3>1. Held(r) * BaseTo(N) \in Int /\ BaseTo(N) * Base \in Int
      BY <1>2, <1>10, <1>11
    <3> QED BY <1>6, <1>7, <1>9, <1>10, <1>11, <3>1
  <2>2. \A x, y, b \in Nat : x >= y => x * b >= b * y
    OBVIOUS
  <2>3. Held(r) * BaseTo(N) \in Int /\ BaseTo(N) * Base \in Int
    BY <1>2, <1>10, <1>11
  <2> QED BY <1>2, <1>10, <1>11, <2>1, <2>2, <2>3
<1>13. Held(r) = r[1]
  <2>1. r[1] \in Nat /\ r[2] \in Nat /\ r[3] \in Nat
    BY <1>6, ThreeFacts
  <2> DEFINE high == r[2] + Base * r[3]
  <2>2. high \in Nat /\ Held(r) = r[1] + Base * high
    BY <1>2, <2>1 DEF Held
  <2> HIDE DEF high
  <2>3. \A x \in Nat : x >= 1 => Base * x >= Base
    BY <1>2
  <2>4. Base * high \in Int
    BY <1>2, <2>2
  <2>5. high = 0
    BY <1>2, <1>12, <2>1, <2>2, <2>3, <2>4
  <2> QED BY <1>2, <2>1, <2>2, <2>5
<1>14. r[1] \in Word /\ result \in [1..N -> Word] /\ result \in [1..N -> Int] /\ r[1] \in Int
  <2>1. r[1] \in Word
    BY <1>6, ThreeFacts
  <2>2. result \in [1..N -> Word] /\ result \in [1..N -> Int]
    BY <1>2, <1>6, VliOfInts DEF Vlis
  <2> QED BY <1>2, <2>1, <2>2 DEF Word
<1>15. Append(result, r[1]) \in Vlis(2 * n)
  BY <1>2, <1>10, <1>14, Appended DEF Vlis
<1>16. Value(Append(result, r[1])) = Value(result) + r[1] * BaseTo(N)
  BY <1>2, <1>14, ValueOfAppend
<1> QED BY <1>6, <1>7, <1>8, <1>13, <1>15, <1>16

-----------------------------------------------------------------------------
(* The length of a vli in bits.                                            *)
LEMMA NumDigitsDefined ==
  ASSUME NEW n \in Nat, NEW v \in Vlis(n)
  PROVE  /\ vli_numDigits(v) \in 0..n
         /\ vli_numDigits(v) = 0 \/ v[vli_numDigits(v)] # 0
         /\ \A i \in (vli_numDigits(v) + 1)..n : v[i] = 0
<1> DEFINE P(d) == (d = 0 \/ v[d] # 0) /\ \A i \in (d + 1)..n : v[i] = 0
           T == {n - i : i \in {j \in 1..n : v[j] # 0}}
<1>0. Len(v) = n
  BY LenOfVli DEF Vlis
<1>1. \E d \in 0..n : P(d)
  <2>1. CASE \A j \in 1..n : v[j] = 0
    <3>1. P(0) /\ 0 \in 0..n
      BY <2>1
    <3> QED BY <3>1
  <2>2. CASE ~(\A j \in 1..n : v[j] = 0)
    <3>1. T \in SUBSET Nat /\ T # {}
      BY <2>2
    <3> HIDE DEF T
    <3>2. PICK m \in T : \A k \in T : m <= k
      BY <3>1, LeastNatural
    <3>3. PICK d \in 1..n : v[d] # 0 /\ m = n - d
      BY DEF T
    <3>4. ASSUME NEW i \in (d + 1)..n PROVE v[i] = 0
      <4>1. i \in 1..n /\ ~(n - d <= n - i)
        BY <3>3
      <4>2. CASE v[i] # 0
        <5>1. n - i \in T
          BY <4>1, <4>2 DEF T
        <5> QED BY <3>2, <3>3, <4>1, <5>1
      <4> QED BY <4>2
    <3>5. P(d) /\ d \in 0..n
      BY <3>3, <3>4
    <3> QED BY <3>5
  <2> QED BY <2>1, <2>2
<1>2. vli_numDigits(v) = CHOOSE d \in 0..n : P(d)
  BY <1>0 DEF vli_numDigits
<1> HIDE DEF P
<1>3. vli_numDigits(v) \in 0..n /\ P(vli_numDigits(v))
  BY <1>1, <1>2
<1> QED BY <1>3 DEF P

(* The length of one word.                                                 *)
LEMMA DigitBitsDefined ==
  ASSUME NEW digit \in Word
  PROVE  /\ DigitBits(digit) \in 0..WordBits
         /\ digit < Pow2[DigitBits(digit)]
         /\ DigitBits(digit) = 0 \/ Pow2[DigitBits(digit) - 1] <= digit
<1> DEFINE P(b) == digit < Pow2[b] /\ (b = 0 \/ Pow2[b - 1] <= digit)
           T == {b \in Nat : digit < Pow2[b]}
<1>0. WordBits \in Nat /\ Base \in Nat /\ digit \in Int /\ digit < Base
  BY BaseFacts DEF Word
<1>1. \E b \in 0..WordBits : P(b)
  <2>1. T \in SUBSET Nat /\ WordBits \in T
    BY <1>0 DEF Base
  <2> HIDE DEF T
  <2>2. PICK b \in T : \A k \in T : b <= k
    BY <2>1, LeastNatural
  <2>3. b \in Nat /\ b <= WordBits /\ digit < Pow2[b]
    BY <2>1, <2>2 DEF T
  <2>4. b = 0 \/ Pow2[b - 1] <= digit
    <3>1. CASE b # 0 /\ ~(Pow2[b - 1] <= digit)
      <4>1. b - 1 \in Nat
        BY <2>3, <3>1
      <4>2. Pow2[b - 1] \in Int
        BY <4>1, Pow2Defined
      <4>3. b - 1 \in T
        BY <1>0, <3>1, <4>1, <4>2 DEF T
      <4> QED BY <2>2, <2>3, <4>3
    <3> QED BY <3>1
  <2>5. P(b) /\ b \in 0..WordBits
    BY <1>0, <2>3, <2>4
  <2> QED BY <2>5
<1>2. DigitBits(digit) = CHOOSE b \in 0..WordBits : P(b)
  BY DEF DigitBits
<1> HIDE DEF P
<1>3. DigitBits(digit) \in 0..WordBits /\ P(DigitBits(digit))
  BY <1>1, <1>2
<1> QED BY <1>3 DEF P

(* uECC_vli_numBits() is the length of the number in bits, and             *)
(* vli_numDigits() in words (uECC.c:237-264).                              *)
THEOREM NumBitsExact ==
  ASSUME NEW n \in Nat, NEW v \in Vlis(n), 0 < Value(v)
  PROVE  /\ vli_numDigits(v) \in 1..n
         /\ vli_numBits(v) \in Nat \ {0}
         /\ (vli_numDigits(v) - 1) * WordBits < vli_numBits(v)
         /\ vli_numBits(v) <= vli_numDigits(v) * WordBits
         /\ Pow2[vli_numBits(v) - 1] <= Value(v) /\ Value(v) < Pow2[vli_numBits(v)]
         /\ Value(v) = Below(v)[vli_numDigits(v)]
<1> DEFINE d == vli_numDigits(v)
           b == DigitBits(v[d])
<1>1. v \in [1..n -> Int] /\ Below(v) \in [0..n -> Int] /\ Value(v) = Below(v)[n] /\ Below(v)[0] = 0
      /\ \A i \in 0..(n - 1) : Below(v)[i + 1] = Below(v)[i] + v[i + 1] * BaseTo(i)
  <2>1. v \in [1..n -> Int]
    BY VliOfInts
  <2> QED BY <2>1, BelowDefined
<1>2. d \in 0..n /\ (d = 0 \/ v[d] # 0) /\ \A i \in (d + 1)..n : v[i] = 0
  BY NumDigitsDefined
<1> HIDE DEF d
<1>3. Value(v) = Below(v)[d]
  <2>1. n \in d..n
    BY <1>2
  <2> QED BY <1>1, <1>2, <2>1, BelowFlat
<1>4. d \in 1..n /\ v[d] # 0 /\ d - 1 \in Nat /\ d - 1 \in 0..(n - 1) /\ (d - 1) + 1 = d /\ d - 1 \in 0..n
  <2>1. d # 0
    BY <1>1, <1>3
  <2> QED BY <1>2, <2>1
<1>5. v[d] \in Word /\ v[d] \in Int /\ 0 < v[d]
  <2>1. v[d] \in Word
    BY <1>4 DEF Vlis
  <2>2. v[d] \in 0..(Base - 1) /\ Base \in Nat
    BY <2>1, BaseFacts DEF Word
  <2> QED BY <1>4, <2>1, <2>2
<1>6. b \in 0..WordBits /\ v[d] < Pow2[b] /\ (b = 0 \/ Pow2[b - 1] <= v[d])
  BY <1>5, DigitBitsDefined
<1> HIDE DEF b
<1>7. WordBits \in Nat /\ Pow2[0] = 1
  BY BaseFacts, Pow2Defined
<1>8. b \in 1..WordBits /\ Pow2[b - 1] <= v[d] /\ b - 1 \in Nat /\ b \in Nat
  BY <1>5, <1>6, <1>7
<1> DEFINE w == (d - 1) * WordBits
           low == Below(v)[d - 1]
           B == Pow2[w]
<1>9. w \in Nat /\ d * WordBits = w + WordBits
  BY <1>4, <1>7
<1>10. vli_numBits(v) = w + b
  BY <1>4 DEF vli_numBits, d, b
<1>11. B = BaseTo(d - 1)
  <2>1. WordBits * (d - 1) = (d - 1) * WordBits
    BY <1>4, <1>7
  <2> QED BY <2>1 DEF BaseTo
<1>12. low \in 0..(B - 1) /\ B \in Nat \ {0}
  <2>1. low \in 0..(BaseTo(d - 1) - 1)
    BY <1>4, BelowBound
  <2> QED BY <1>4, <1>11, <2>1, BaseFacts
<1>13. Value(v) = low + v[d] * B
  <2>1. Below(v)[(d - 1) + 1] = Below(v)[d - 1] + v[(d - 1) + 1] * BaseTo(d - 1)
    BY <1>1, <1>4
  <2> QED BY <1>3, <1>4, <1>11, <2>1
<1>14. Pow2[w + b] = B * Pow2[b] /\ Pow2[w + (b - 1)] = B * Pow2[b - 1]
       /\ Pow2[b] \in Nat /\ Pow2[b - 1] \in Nat
  BY <1>8, <1>9, Pow2Plus, Pow2Defined
<1>15. w + (b - 1) = (w + b) - 1
  BY <1>8, <1>9
<1> HIDE DEF w, low, B
<1>16. B * Pow2[b - 1] <= Value(v)
  <2>1. \A x, y, z \in Nat : x <= y => z * x <= y * z
    OBVIOUS
  <2>2. B * Pow2[b - 1] <= v[d] * B
    BY <1>5, <1>8, <1>12, <1>14, <2>1
  <2>3. B * Pow2[b - 1] \in Int /\ v[d] * B \in Int
    BY <1>5, <1>12, <1>14
  <2> QED BY <1>12, <1>13, <2>2, <2>3
<1>17. Value(v) < B * Pow2[b]
  <2>1. \A x, y, z \in Nat : x < y => x * z + z <= z * y
    OBVIOUS
  <2>2. v[d] * B + B <= B * Pow2[b]
    BY <1>5, <1>6, <1>12, <1>14, <2>1
  <2>3. B * Pow2[b] \in Int /\ v[d] * B \in Int
    BY <1>5, <1>12, <1>14
  <2> QED BY <1>12, <1>13, <2>2, <2>3
<1>18. w + b \in Nat \ {0} /\ w < w + b /\ w + b <= d * WordBits
  BY <1>7, <1>8, <1>9
<1> QED BY <1>3, <1>4, <1>10, <1>14, <1>15, <1>16, <1>17, <1>18 DEF d, w

-----------------------------------------------------------------------------
(* Half of a vli, with a bit that comes in at the top.                     *)
LEMMA BaseEven ==
  /\ Base \div 2 \in Nat /\ Base = 2 * (Base \div 2)
  /\ \A x \in Word : x \div 2 \in 0..((Base \div 2) - 1) /\ x % 2 \in {0, 1} /\ x = 2 * (x \div 2) + (x % 2)
<1>1. WordBits - 1 \in Nat /\ (WordBits - 1) + 1 = WordBits
  BY BaseFacts
<1>2. Base = 2 * Pow2[WordBits - 1] /\ Pow2[WordBits - 1] \in Nat
  BY <1>1, Pow2Defined DEF Base
<1>3. Base \div 2 \in Nat /\ Base = 2 * (Base \div 2)
  BY <1>2
<1>4. ASSUME NEW x \in Word
      PROVE  x \div 2 \in 0..((Base \div 2) - 1) /\ x % 2 \in {0, 1} /\ x = 2 * (x \div 2) + (x % 2)
  <2>1. x \in 0..(Base - 1)
    BY DEF Word
  <2> QED BY <1>2, <2>1
<1> QED BY <1>3, <1>4

(* A shift down by one bit halves the value, and the bit that comes in     *)
(* counts half the base to the n.                                          *)
LEMMA ShiftInExact ==
  ASSUME NEW n \in Nat \ {0}, NEW v \in Vlis(n), NEW bit \in {0, 1}
  PROVE  /\ ShiftIn(v, bit) \in Vlis(n)
         /\ 2 * Value(ShiftIn(v, bit)) = Value(v) - (v[1] % 2) + bit * BaseTo(n)
         /\ v[1] % 2 \in {0, 1}
<1> DEFINE s == ShiftIn(v, bit)
           H == Base \div 2
           next(i) == IF i = n THEN bit ELSE v[i + 1] % 2
           Exact(i) == 2 * Below(s)[i] = Below(v)[i] - (v[1] % 2) + next(i) * BaseTo(i)
           S == {i \in 0..n : Exact(i)}
<1>0. Len(v) = n
  BY LenOfVli DEF Vlis
<1>1. /\ H \in Nat /\ Base = 2 * H
      /\ \A x \in Word : x \div 2 \in 0..(H - 1) /\ x % 2 \in {0, 1} /\ x = 2 * (x \div 2) + (x % 2)
  BY BaseEven
<1> HIDE DEF H
<1>2. \A i \in 1..n : v[i] \in Word
  BY DEF Vlis
<1>3. \A i \in 0..n : next(i) \in {0, 1}
  <2>1. ASSUME NEW i \in 0..n, i # n PROVE v[i + 1] % 2 \in {0, 1}
    <3>1. v[i + 1] \in Word
      BY <1>2, <2>1
    <3> QED BY <1>1, <3>1
  <2> QED BY <2>1
<1>4. \A i \in 1..n : s[i] = v[i] \div 2 + next(i) * H
  BY <1>0 DEF ShiftIn, H
<1> HIDE DEF next
<1>5. s \in Vlis(n)
  <2>1. ASSUME NEW i \in 1..n PROVE v[i] \div 2 + next(i) * H \in Word
    <3>1. v[i] \div 2 \in 0..(H - 1) /\ next(i) \in {0, 1}
      BY <1>1, <1>2, <1>3
    <3> QED BY <1>1, <3>1 DEF Word
  <2>2. s = [i \in 1..n |-> s[i]]
    BY <1>0 DEF ShiftIn
  <2> HIDE DEF s
  <2>3. \A i \in 1..n : s[i] \in Word
    BY <1>4, <2>1
  <2> QED BY <2>2, <2>3 DEF Vlis
<1> HIDE DEF s
<1>6. /\ v \in [1..n -> Int] /\ Below(v) \in [0..n -> Int] /\ Value(v) = Below(v)[n] /\ Below(v)[0] = 0
      /\ \A i \in 0..(n - 1) : Below(v)[i + 1] = Below(v)[i] + v[i + 1] * BaseTo(i)
  <2>1. v \in [1..n -> Int]
    BY VliOfInts
  <2> QED BY <2>1, BelowDefined
<1>7. /\ s \in [1..n -> Int] /\ Below(s) \in [0..n -> Int] /\ Value(s) = Below(s)[n] /\ Below(s)[0] = 0
      /\ \A i \in 0..(n - 1) : Below(s)[i + 1] = Below(s)[i] + s[i + 1] * BaseTo(i)
  <2>1. s \in [1..n -> Int]
    BY <1>5, VliOfInts
  <2> QED BY <2>1, BelowDefined
<1>8. v[1] % 2 \in {0, 1}
  BY <1>1, <1>2
<1>9. 0 \in S
  <2>1. next(0) = v[1] % 2
    BY DEF next
  <2>2. BaseTo(0) = 1 /\ Below(s)[0] = 0 /\ Below(v)[0] = 0
    BY <1>6, <1>7, BaseFacts
  <2>3. 2 * 0 = 0 - (v[1] % 2) + (v[1] % 2) * 1
    BY <1>8
  <2>4. Exact(0)
    BY <2>1, <2>2, <2>3
  <2> QED BY <2>4
<1>10. ASSUME NEW i \in 0..(n - 1), i \in S PROVE i + 1 \in S
  <2> DEFINE B == BaseTo(i)
             h == v[i + 1] \div 2
             m == v[i + 1] % 2
             x == next(i + 1)
  <2>1. i + 1 \in 1..n /\ i + 1 \in 0..n /\ i \in 0..n /\ i \in Nat
    OBVIOUS
  <2>2. Below(v)[i + 1] = Below(v)[i] + v[i + 1] * B /\ Below(v)[i] \in Int
    BY <1>6, <2>1
  <2>3. Below(s)[i + 1] = Below(s)[i] + s[i + 1] * B /\ Below(s)[i] \in Int
    BY <1>7, <2>1
  <2>4. v[i + 1] = 2 * h + m /\ h \in Int /\ m \in Int
    <3>1. v[i + 1] \in Word
      BY <1>2, <2>1
    <3>2. h \in 0..(H - 1) /\ m \in {0, 1} /\ v[i + 1] = 2 * h + m
      BY <1>1, <3>1
    <3> QED BY <1>1, <3>2
  <2>5. s[i + 1] = h + x * H /\ x \in Int
    BY <1>3, <1>4, <2>1
  <2>6. next(i) = m
    BY <2>1 DEF next
  <2>7. BaseTo(i + 1) = B * Base /\ B \in Int
    BY <2>1, BaseFacts
  <2>8. 2 * Below(s)[i] = Below(v)[i] - (v[1] % 2) + m * B
    BY <1>10, <2>6
  <2> HIDE DEF B, h, m, x
  <2>9. 2 * (s[i + 1] * B) = 2 * (h * B) + x * BaseTo(i + 1)
    <3>1. \A hh, xx, y, z \in Int : 2 * ((hh + xx * y) * z) = 2 * (hh * z) + xx * (z * (2 * y))
      OBVIOUS
    <3> QED BY <1>1, <2>4, <2>5, <2>7, <3>1
  <2>10. v[i + 1] * B = 2 * (h * B) + m * B
    <3>1. \A hh, mm, z \in Int : (2 * hh + mm) * z = 2 * (hh * z) + mm * z
      OBVIOUS
    <3> QED BY <2>4, <2>7, <3>1
  <2>11. /\ h * B \in Int /\ m * B \in Int /\ x * BaseTo(i + 1) \in Int
         /\ s[i + 1] * B \in Int /\ v[i + 1] * B \in Int
    <3>1. BaseTo(i + 1) \in Int
      BY <1>1, <2>7
    <3>2. s[i + 1] \in Int /\ v[i + 1] \in Int
      BY <1>6, <1>7, <2>1
    <3> QED BY <2>4, <2>5, <2>7, <3>1, <3>2
  <2>12. 2 * Below(s)[i + 1] = Below(v)[i + 1] - (v[1] % 2) + x * BaseTo(i + 1)
    <3> DEFINE m1 == v[1] % 2
               hB == h * B
               mB == m * B
               sB == s[i + 1] * B
               vB == v[i + 1] * B
               top == x * BaseTo(i + 1)
    <3>1. /\ m1 \in Int /\ hB \in Int /\ mB \in Int /\ sB \in Int /\ vB \in Int /\ top \in Int
          /\ 2 * sB = 2 * hB + top /\ vB = 2 * hB + mB
          /\ 2 * Below(s)[i] = Below(v)[i] - m1 + mB
          /\ Below(s)[i + 1] = Below(s)[i] + sB /\ Below(v)[i + 1] = Below(v)[i] + vB
      BY <1>8, <2>2, <2>3, <2>8, <2>9, <2>10, <2>11
    <3> HIDE DEF m1, hB, mB, sB, vB, top
    <3>2. 2 * Below(s)[i + 1] = Below(v)[i + 1] - m1 + top
      <4>1. Below(s)[i] \in Int /\ Below(v)[i] \in Int
        BY <2>2, <2>3
      <4>2. 2 * (Below(s)[i] + sB) = (Below(v)[i] + vB) - m1 + top
        BY <3>1, <4>1
      <4> QED BY <3>1, <4>2
    <3> QED BY <3>2 DEF m1, top
  <2> QED BY <2>1, <2>12 DEF x
<1> HIDE DEF S
<1>11. 0..n \subseteq S
  BY <1>9, <1>10, IntervalInduction
<1>12. Exact(n) /\ next(n) = bit
  BY <1>11 DEF S, next
<1> QED BY <1>5, <1>6, <1>7, <1>8, <1>12 DEF s

(* The lowest bit of a vli is that of its lowest word.                     *)
LEMMA EvenExact ==
  ASSUME NEW n \in Nat \ {0}, NEW v \in Vlis(n)
  PROVE  \E h \in Nat : Value(v) = 2 * h + (v[1] % 2)
<1>1. 2 * Value(ShiftIn(v, 0)) = Value(v) - (v[1] % 2) + 0 * BaseTo(n) /\ v[1] % 2 \in {0, 1}
      /\ ShiftIn(v, 0) \in Vlis(n)
  BY ShiftInExact
<1> DEFINE h == Value(ShiftIn(v, 0))
<1>2. h \in Int /\ 0 <= h /\ Value(v) \in Int /\ BaseTo(n) \in Int
  BY <1>1, ValueBound
<1>3. 2 * h = Value(v) - (v[1] % 2) + 0 * BaseTo(n)
  BY <1>1
<1> HIDE DEF h
<1>4. h \in Nat /\ Value(v) = 2 * h + (v[1] % 2)
  BY <1>1, <1>2, <1>3
<1> QED BY <1>4

(* Halving the multiple in its two parts halves the whole of it.           *)
LEMMA HalveMultipleIsShift ==
  ASSUME NEW n \in Nat \ {0}, NEW v \in Vlis(2 * n)
  PROVE  HalveMultiple(v, n) = ShiftIn(v, 0)
<1> DEFINE low == SubSeq(v, 1, n)
           high == SubSeq(v, n + 1, 2 * n)
           l == ShiftIn(low, high[1] % 2)
           h == ShiftIn(high, 0)
<1>1. v \in Seq(Word) /\ Len(v) = 2 * n
  BY LenOfVli DEF Vlis
<1>2. Len(low) = n /\ Len(high) = n /\ low \in Seq(Word) /\ high \in Seq(Word)
      /\ (\A i \in 1..n : low[i] = v[i]) /\ (\A i \in 1..n : high[i] = v[n + i])
  <2>1. low \in Seq(Word) /\ Len(low) = n /\ \A i \in 1..n : low[i] = v[i]
    BY <1>1
  <2>2. high \in Seq(Word) /\ Len(high) = n /\ \A i \in 1..n : high[i] = v[n + i]
    BY <1>1
  <2> QED BY <2>1, <2>2
<1> HIDE DEF low, high
<1>3. low \in [1..n -> Word] /\ high \in [1..n -> Word]
  BY <1>2, LenProperties
<1>4. 1 \in 1..n /\ high[1] % 2 \in {0, 1}
  <2>1. 1 \in 1..n
    OBVIOUS
  <2>2. high[1] \in Word
    BY <1>3, <2>1
  <2> QED BY <2>1, <2>2, BaseEven
<1>5. l \in [1..n -> Word] /\ h \in [1..n -> Word]
  BY <1>3, <1>4, ShiftInExact DEF Vlis
<1>6. /\ \A i \in 1..n : l[i] = low[i] \div 2 + (IF i = n THEN high[1] % 2 ELSE low[i + 1] % 2) * (Base \div 2)
      /\ \A i \in 1..n : h[i] = high[i] \div 2 + (IF i = n THEN 0 ELSE high[i + 1] % 2) * (Base \div 2)
  BY <1>2 DEF ShiftIn
<1>7. HalveMultiple(v, n) = l \o h
  BY DEF HalveMultiple, vli_rshift1, low, high
<1> HIDE DEF l, h
<1>8. Len(l) = n /\ Len(h) = n /\ l \in Seq(Word) /\ h \in Seq(Word)
  BY <1>5, LenOfVli
<1>9. /\ Len(l \o h) = 2 * n /\ l \o h \in Seq(Word)
      /\ \A i \in 1..(2 * n) : (l \o h)[i] = IF i <= n THEN l[i] ELSE h[i - n]
  BY <1>8
<1>10. ASSUME NEW i \in 1..(2 * n)
       PROVE  (l \o h)[i]
                = v[i] \div 2 + (IF i = 2 * n THEN 0 ELSE v[i + 1] % 2) * (Base \div 2)
  <2>1. CASE i <= n
    <3>1. i \in 1..n /\ i # 2 * n /\ (l \o h)[i] = l[i]
      BY <1>9, <2>1
    <3>2. l[i] = low[i] \div 2 + (IF i = n THEN high[1] % 2 ELSE low[i + 1] % 2) * (Base \div 2)
      BY <1>6, <3>1
    <3>3. low[i] = v[i] /\ high[1] = v[n + 1] /\ (i # n => low[i + 1] = v[i + 1])
      BY <1>2, <1>4, <3>1
    <3> QED BY <3>1, <3>2, <3>3
  <2>2. CASE ~(i <= n)
    <3>1. i - n \in 1..n /\ (l \o h)[i] = h[i - n] /\ n + (i - n) = i /\ (i - n = n <=> i = 2 * n)
      BY <1>9, <2>2
    <3>2. h[i - n] = high[i - n] \div 2 + (IF i - n = n THEN 0 ELSE high[(i - n) + 1] % 2) * (Base \div 2)
      BY <1>6, <3>1
    <3>3. high[i - n] = v[i]
      BY <1>2, <3>1
    <3>4. i # 2 * n => high[(i - n) + 1] = v[i + 1]
      <4>1. i # 2 * n => (i - n) + 1 \in 1..n /\ n + ((i - n) + 1) = i + 1
        BY <3>1
      <4> QED BY <1>2, <4>1
    <3> QED BY <3>1, <3>2, <3>3, <3>4
  <2> QED BY <2>1, <2>2
<1>11. l \o h = [i \in 1..(2 * n) |-> (l \o h)[i]]
  <2> DEFINE w == l \o h
  <2>1. w \in Seq(Word) /\ Len(w) = 2 * n
    BY <1>9
  <2> HIDE DEF w
  <2>2. w \in [1..(2 * n) -> Word]
    BY <2>1, LenProperties
  <2>3. w = [i \in 1..(2 * n) |-> w[i]]
    BY <2>2
  <2> QED BY <2>3 DEF w
<1>12. ShiftIn(v, 0)
         = [i \in 1..(2 * n) |->
              v[i] \div 2 + (IF i = 2 * n THEN 0 ELSE v[i + 1] % 2) * (Base \div 2)]
  BY <1>1 DEF ShiftIn
<1> QED BY <1>7, <1>10, <1>11, <1>12

-----------------------------------------------------------------------------
(* mod, moved to the top of twice its words.                               *)
LEMMA ShiftedWord ==
  ASSUME NEW bs \in 0..(WordBits - 1), NEW x \in Word
  PROVE  /\ Pow2[bs] \in Nat \ {0} /\ Pow2[WordBits - bs] \in Nat \ {0}
         /\ x \div Pow2[WordBits - bs] \in 0..(Pow2[bs] - 1)
         /\ (x * Pow2[bs]) % Base \in 0..(Base - Pow2[bs])
         /\ x * Pow2[bs] = ((x * Pow2[bs]) % Base) + (x \div Pow2[WordBits - bs]) * Base
<1> DEFINE P == Pow2[bs]
           K == Pow2[WordBits - bs]
           h == x \div K
           m == x % K
<1>1. bs \in Nat /\ WordBits - bs \in Nat /\ bs + (WordBits - bs) = WordBits
  BY BaseFacts
<1>2. P \in Nat \ {0} /\ K \in Nat \ {0} /\ Base = P * K
  BY <1>1, Pow2Plus, Pow2Defined DEF Base
<1>3. x \in Int /\ 0 <= x /\ x < Base
  BY BaseFacts DEF Word
<1> HIDE DEF P, K
<1>4. h \in Int /\ m \in 0..(K - 1) /\ x = h * K + m
  BY <1>2, <1>3, Division
<1> HIDE DEF h, m
<1>5. x * P = h * Base + m * P
  <2>1. \A y, z, w, v \in Int : (y * z + w) * v = y * (v * z) + w * v
    OBVIOUS
  <2> QED BY <1>2, <1>4, <2>1
<1>6. m * P \in 0..(Base - P) /\ m * P \in Int
  <2>1. \A y \in Nat : \A z \in 0..(y - 1) : \A w \in Nat : 0 <= z * w /\ z * w <= w * y - w /\ z * w \in Int
    OBVIOUS
  <2>2. Base \in Int
    BY BaseFacts
  <2> QED BY <1>2, <1>4, <2>1, <2>2
<1>7. (x * P) % Base = m * P
  <2>1. Base \in Nat \ {0}
    BY BaseFacts
  <2>2. m * P \in 0..(Base - 1)
    BY <1>2, <1>6, <2>1
  <2> DEFINE r == m * P
  <2>3. r \in 0..(Base - 1) /\ x * P = h * Base + r
    BY <1>5, <2>2
  <2> HIDE DEF r
  <2>4. (h * Base + r) % Base = r
    BY <1>4, <2>1, <2>3, DivisionUnique
  <2> QED BY <2>3, <2>4 DEF r
<1>8. h \in 0..(P - 1)
  <2>1. \A y, z, w \in Nat : y >= z => y * w >= z * w
    OBVIOUS
  <2>2. ~(h >= P)
    <3>1. h >= P => h * K >= P * K
      BY <1>2, <1>4, <2>1
    <3>2. h * K \in Int /\ P * K \in Int
      BY <1>2, <1>4
    <3> QED BY <1>2, <1>3, <1>4, <3>1, <3>2
  <2>3. h >= 0
    <3>1. x \in Nat
      BY <1>3
    <3>2. x \div K \in Nat
      <4>1. x \in Int /\ K \in Nat \ {0}
        BY <1>2, <1>3
      <4> HIDE DEF h
      <4> QED BY <3>1, <4>1, Division
    <3> QED BY <3>2 DEF h
  <2> QED BY <1>2, <1>4, <2>2, <2>3
<1>9. x * P = ((x * P) % Base) + h * Base
  <2>1. h * Base \in Int
    BY <1>4, BaseFacts
  <2> QED BY <1>5, <1>6, <1>7, <2>1
<1> QED BY <1>2, <1>6, <1>7, <1>8, <1>9 DEF P, K, h

(* mod is shifted to the top of the product's words without losing a bit.  *)
LEMMA ShiftedExact ==
  ASSUME NEW n \in Nat \ {0}, NEW mod \in Vlis(n), 0 < Value(mod),
         NEW shift, shift = 2 * n * WordBits - vli_numBits(mod)
  PROVE  /\ shift \in Nat
         /\ Shifted(mod, shift) \in Vlis(2 * n)
         /\ Value(Shifted(mod, shift)) = Value(mod) * Pow2[shift]
         /\ BaseTo(2 * n) <= 2 * (Value(mod) * Pow2[shift])
<1> DEFINE d == vli_numDigits(mod)
           nb == vli_numBits(mod)
           ws == shift \div WordBits
           bs == shift % WordBits
           P == Pow2[bs]
           K == Pow2[WordBits - bs]
           c(j) == IF j = 0 THEN 0 ELSE mod[j] \div K
           up(j) == (mod[j] * P) % Base
           v == Shifted(mod, shift)
           M == Value(mod)
<1>0. WordBits \in Nat \ {0} /\ Base \in Nat /\ Base >= 2
  BY BaseFacts
<1>1. /\ d \in 1..n /\ nb \in Nat \ {0} /\ (d - 1) * WordBits < nb /\ nb <= d * WordBits
      /\ Pow2[nb - 1] <= M /\ M < Pow2[nb] /\ M = Below(mod)[d]
  BY NumBitsExact
<1> HIDE DEF d, nb, M
<1>2. shift \in Nat /\ ws + d = 2 * n /\ ws \in Nat /\ bs \in 0..(WordBits - 1)
      /\ shift = ws * WordBits + bs
  <2> DEFINE q == 2 * n - d
             r == d * WordBits - nb
  <2>1. d * WordBits = (d - 1) * WordBits + WordBits /\ d * WordBits \in Int /\ (d - 1) * WordBits \in Int
    BY <1>0, <1>1
  <2>2. q \in Nat /\ r \in 0..(WordBits - 1)
    BY <1>0, <1>1, <2>1
  <2>3. 2 * n * WordBits = q * WordBits + d * WordBits /\ q * WordBits \in Nat
    BY <1>0, <1>1
  <2>4. shift = q * WordBits + r
    BY <1>1, <2>1, <2>3 DEF nb
  <2>5. shift \in Nat
    BY <2>2, <2>3, <2>4
  <2>6. q + d = 2 * n
    BY <1>1
  <2> HIDE DEF q, r
  <2>7. shift \div WordBits = q /\ shift % WordBits = r
    <3>1. q \in Int
      BY <2>2
    <3>2. (q * WordBits + r) \div WordBits = q /\ (q * WordBits + r) % WordBits = r
      BY <1>0, <2>2, <3>1, DivisionUnique
    <3> QED BY <2>4, <3>2
  <2> QED BY <2>2, <2>4, <2>5, <2>6, <2>7
<1> HIDE DEF ws, bs
<1>3. \A x \in Word :
        /\ P \in Nat \ {0} /\ K \in Nat \ {0} /\ x \div K \in 0..(P - 1) /\ (x * P) % Base \in 0..(Base - P)
        /\ x * P = ((x * P) % Base) + (x \div K) * Base
  BY <1>2, ShiftedWord
<1>4. P \in Nat \ {0} /\ K \in Nat \ {0}
  BY <1>3, BaseFacts
<1>5. \A j \in 1..n : mod[j] \in Word
  BY DEF Vlis
<1> HIDE DEF P, K
<1>6. ASSUME NEW j \in 0..n PROVE c(j) \in 0..(P - 1)
  BY <1>3, <1>4, <1>5
<1>7. \A j \in 1..n : up(j) \in 0..(Base - P) /\ mod[j] * P = up(j) + c(j) * Base
  <2>1. ASSUME NEW j \in 1..n PROVE up(j) \in 0..(Base - P) /\ mod[j] * P = up(j) + c(j) * Base
    <3>1. mod[j] \in Word /\ j # 0
      BY <1>5
    <3> QED BY <1>3, <3>1
  <2> QED BY <2>1
<1>8. v = [i \in 1..(2 * n) |->
             (IF i - ws \in 1..n THEN up(i - ws) ELSE 0)
               + (IF i - ws - 1 \in 1..n THEN c(i - ws - 1) ELSE 0)]
  <2>1. Len(mod) = n
    BY LenOfVli DEF Vlis
  <2>2. \A j \in 1..n : c(j) = mod[j] \div K
    OBVIOUS
  <2> QED BY <2>1, <2>2 DEF Shifted, ws, bs, P, K
<1> HIDE DEF c, up
<1>9. ASSUME NEW i \in 1..(2 * n) PROVE v[i] = IF i <= ws THEN 0 ELSE up(i - ws) + c(i - ws - 1)
  <2>1. v[i] = (IF i - ws \in 1..n THEN up(i - ws) ELSE 0)
                 + (IF i - ws - 1 \in 1..n THEN c(i - ws - 1) ELSE 0)
    BY <1>8
  <2>2. CASE i <= ws
    <3>1. ~(i - ws \in 1..n) /\ ~(i - ws - 1 \in 1..n)
      BY <1>2, <2>2
    <3> QED BY <2>1, <2>2, <3>1
  <2>3. CASE ~(i <= ws)
    <3>1. i - ws \in 1..n /\ (i - ws - 1 \in 1..n \/ i - ws - 1 = 0)
      BY <1>1, <1>2, <2>3
    <3>2. c(0) = 0
      BY DEF c
    <3> QED BY <2>1, <2>3, <3>1, <3>2
  <2> QED BY <2>2, <2>3
<1>10. v \in Vlis(2 * n)
  <2>1. ASSUME NEW i \in 1..(2 * n) PROVE v[i] \in Word
    <3>1. CASE i <= ws
      BY <1>9, <3>1, BaseFacts
    <3>2. CASE ~(i <= ws)
      <4>1. i - ws \in 1..n /\ i - ws - 1 \in 0..n
        BY <1>1, <1>2, <3>2
      <4>2. up(i - ws) \in 0..(Base - P) /\ c(i - ws - 1) \in 0..(P - 1)
        BY <1>6, <1>7, <4>1
      <4>3. v[i] = up(i - ws) + c(i - ws - 1)
        BY <1>9, <3>2
      <4> QED BY <1>0, <1>4, <4>2, <4>3 DEF Word
    <3> QED BY <3>1, <3>2
  <2>2. v = [i \in 1..(2 * n) |-> v[i]]
    BY <1>8
  <2> HIDE DEF v
  <2> QED BY <2>1, <2>2 DEF Vlis
<1> HIDE DEF v
<1>11. /\ v \in [1..(2 * n) -> Int] /\ Below(v) \in [0..(2 * n) -> Int] /\ Value(v) = Below(v)[2 * n]
       /\ Below(v)[0] = 0
       /\ \A i \in 0..(2 * n - 1) : Below(v)[i + 1] = Below(v)[i] + v[i + 1] * BaseTo(i)
  <2>1. v \in [1..(2 * n) -> Int] /\ 2 * n \in Nat
    BY <1>10, VliOfInts
  <2> QED BY <2>1, BelowDefined
<1>12. /\ mod \in [1..n -> Int] /\ Below(mod) \in [0..n -> Int] /\ Below(mod)[0] = 0
       /\ \A i \in 0..(n - 1) : Below(mod)[i + 1] = Below(mod)[i] + mod[i + 1] * BaseTo(i)
  <2>1. mod \in [1..n -> Int]
    BY VliOfInts
  <2> QED BY <2>1, BelowDefined
<1>13. Below(v)[ws] = 0
  <2>1. 2 * n \in Nat /\ 0 \in 0..(2 * n) /\ ws \in 0..(2 * n)
    BY <1>1, <1>2
  <2>2. \A j \in (0 + 1)..ws : v[j] = 0
    BY <1>1, <1>2, <1>9
  <2>3. Below(v)[ws] = Below(v)[0]
    BY <1>11, <2>1, <2>2, BelowFlat
  <2> QED BY <1>11, <2>3
<1> DEFINE W == BaseTo(ws)
           Exact(j) == Below(v)[ws + j] = W * (P * Below(mod)[j]) - BaseTo(ws + j) * c(j)
           S == {j \in 0..d : Exact(j)}
<1>14. W \in Nat \ {0} /\ \A j \in 0..d : BaseTo(ws + j) \in Nat /\ BaseTo(ws + j) = W * BaseTo(j)
                                         /\ BaseTo(j) \in Nat
  <2>1. W \in Nat \ {0}
    BY <1>2, BaseFacts
  <2>2. ASSUME NEW j \in 0..d
        PROVE  BaseTo(ws + j) \in Nat /\ BaseTo(ws + j) = W * BaseTo(j) /\ BaseTo(j) \in Nat
    <3>1. j \in Nat /\ ws + j \in Nat
      BY <1>1, <1>2
    <3> QED BY <1>2, <3>1, BaseFacts, BaseToPlus
  <2> QED BY <2>1, <2>2
<1> HIDE DEF W
<1>15. 0 \in S
  <2>1. c(0) = 0 /\ ws + 0 = ws
    BY <1>2 DEF c
  <2>2. BaseTo(ws) * 0 = 0 /\ W * (P * 0) = 0
    BY <1>2, <1>4, <1>14, BaseFacts
  <2>3. Exact(0)
    BY <1>12, <1>13, <2>1, <2>2
  <2> QED BY <1>1, <2>3
<1>16. ASSUME NEW j \in 0..(d - 1), j \in S PROVE j + 1 \in S
  <2> DEFINE B == BaseTo(j)
             x == mod[j + 1]
             u == up(j + 1)
             c1 == c(j + 1)
             c0 == c(j)
             b == Below(mod)[j]
  <2>1. /\ j \in 0..(n - 1) /\ j + 1 \in 1..n /\ j \in 0..n /\ j + 1 \in 0..n /\ j + 1 \in 0..d /\ j \in 0..d
        /\ ws + j \in 0..(2 * n - 1) /\ (ws + j) + 1 = ws + (j + 1) /\ (ws + j) + 1 \in 1..(2 * n)
        /\ ~((ws + j) + 1 <= ws) /\ ((ws + j) + 1) - ws = j + 1 /\ ((ws + j) + 1) - ws - 1 = j
        /\ ws + j \in 0..(2 * n) /\ j \in Nat /\ ws + j \in Nat
    BY <1>1, <1>2
  <2>2. Below(v)[(ws + j) + 1] = Below(v)[ws + j] + v[(ws + j) + 1] * BaseTo(ws + j)
    BY <1>11, <2>1
  <2>3. v[(ws + j) + 1] = u + c0
    BY <1>9, <2>1
  <2>4. Below(mod)[j + 1] = b + x * B /\ b \in Int /\ x \in Int
    BY <1>12, <2>1
  <2>5. x * P = u + c1 * Base /\ u \in Int /\ c1 \in Int /\ c0 \in Int
    <3>1. u \in 0..(Base - P) /\ x * P = u + c1 * Base
      BY <1>7, <2>1
    <3>2. c1 \in 0..(P - 1) /\ c0 \in 0..(P - 1)
      BY <1>6, <2>1
    <3> QED BY <1>0, <1>4, <3>1, <3>2
  <2>6. BaseTo(ws + j) = W * B /\ B \in Nat /\ BaseTo(ws + (j + 1)) = (W * B) * Base
    <3>1. BaseTo((ws + j) + 1) = BaseTo(ws + j) * Base
      BY <2>1, BaseFacts
    <3> QED BY <1>14, <2>1, <3>1
  <2>7. Below(v)[ws + j] = W * (P * b) - (W * B) * c0 /\ Below(v)[ws + j] \in Int
    <3>1. Exact(j)
      BY <1>16
    <3> QED BY <1>11, <2>1, <2>6, <3>1
  <2> HIDE DEF B, x, u, c1, c0, b
  <2> DEFINE WB == W * B
  <2>8. WB \in Int
    BY <1>14, <2>6
  <2>9. W * (P * (b + x * B)) = W * (P * b) + (u + c1 * Base) * WB
    <3>1. \A w, p, y, z, t \in Int : w * (p * (y + z * t)) = w * (p * y) + (z * p) * (w * t)
      OBVIOUS
    <3> QED BY <1>4, <1>14, <2>4, <2>5, <2>6, <3>1
  <2> HIDE DEF WB
  <2>10. (u + c1 * Base) * WB = u * WB + (WB * Base) * c1
    BY <1>0, <2>5, <2>8
  <2>11. (u + c0) * WB = u * WB + WB * c0
    BY <2>5, <2>8
  <2>12. /\ u * WB \in Int /\ WB * c0 \in Int /\ (WB * Base) * c1 \in Int /\ W * (P * b) \in Int
         /\ (u + c1 * Base) * WB \in Int
    BY <1>0, <1>4, <1>14, <2>4, <2>5, <2>8
  <2>13. Below(v)[ws + (j + 1)] = W * (P * Below(mod)[j + 1]) - BaseTo(ws + (j + 1)) * c1
    <3> DEFINE X == W * (P * b)
               U == u * WB
               C0 == WB * c0
               C1 == (WB * Base) * c1
    <3>1. X \in Int /\ U \in Int /\ C0 \in Int /\ C1 \in Int
      BY <2>12
    <3>2. Below(v)[ws + (j + 1)] = (X - C0) + (U + C0)
      BY <2>1, <2>2, <2>3, <2>6, <2>7, <2>11 DEF WB
    <3>3. W * (P * Below(mod)[j + 1]) = X + (U + C1)
      BY <2>4, <2>9, <2>10
    <3>4. BaseTo(ws + (j + 1)) * c1 = C1
      BY <2>6 DEF WB
    <3> HIDE DEF X, U, C0, C1
    <3> QED BY <3>1, <3>2, <3>3, <3>4
  <2> QED BY <2>1, <2>13 DEF c1
<1> HIDE DEF S
<1>17. 0..d \subseteq S
  <2>1. d \in Nat
    BY <1>1
  <2> QED BY <1>15, <1>16, <2>1, IntervalInduction
<1>18. Value(v) = W * (P * M) - BaseTo(2 * n) * c(d)
  <2>1. Exact(d)
    BY <1>1, <1>17 DEF S
  <2> QED BY <1>1, <1>2, <1>11, <2>1
<1>19. W * P = Pow2[shift] /\ Pow2[shift] \in Nat \ {0}
  <2>1. WordBits * ws = ws * WordBits /\ WordBits * ws \in Nat /\ bs \in Nat
    BY <1>0, <1>2
  <2> QED BY <1>2, <2>1, Pow2Plus, Pow2Defined DEF W, P, BaseTo
<1>20. M \in Int /\ 0 < M
  BY <1>1, ValueBound DEF M
<1>21. W * (P * M) = M * Pow2[shift]
  <2>1. \A x, y, z \in Int : x * (y * z) = z * (x * y)
    OBVIOUS
  <2> QED BY <1>4, <1>14, <1>19, <1>20, <2>1
<1>22. shift + nb = 2 * n * WordBits /\ BaseTo(2 * n) = Pow2[shift + nb]
       /\ BaseTo(2 * n) = Pow2[shift] * Pow2[nb] /\ Pow2[nb] = 2 * Pow2[nb - 1] /\ Pow2[nb - 1] \in Nat
       /\ Pow2[nb] \in Nat
  <2>1. shift + nb = 2 * n * WordBits
    BY <1>0, <1>1 DEF nb
  <2>2. WordBits * (2 * n) = 2 * n * WordBits
    BY <1>0
  <2>3. nb \in Nat /\ nb - 1 \in Nat /\ (nb - 1) + 1 = nb
    BY <1>1
  <2>4. Pow2[shift + nb] = Pow2[shift] * Pow2[nb]
    BY <1>2, <2>3, Pow2Plus
  <2>5. Pow2[nb] = 2 * Pow2[nb - 1] /\ Pow2[nb - 1] \in Nat /\ Pow2[nb] \in Nat
    BY <2>3, Pow2Defined
  <2> QED BY <2>1, <2>2, <2>4, <2>5 DEF BaseTo
<1>23. M * Pow2[shift] < BaseTo(2 * n) /\ BaseTo(2 * n) <= 2 * (M * Pow2[shift])
  <2>1. \A x, y, z \in Nat : x < y /\ z > 0 => x * z < z * y
    OBVIOUS
  <2>2. \A x, y, z \in Nat : x <= y => z * (2 * x) <= 2 * (y * z)
    OBVIOUS
  <2> QED BY <1>1, <1>19, <1>20, <1>22, <2>1, <2>2
<1>24. c(d) = 0
  <2>1. c(d) \in Nat
    <3>1. d \in 0..n
      BY <1>1
    <3> QED BY <1>4, <1>6, <3>1
  <2>2. 0 <= Value(v) /\ Value(v) \in Int
    <3>1. 2 * n \in Nat
      OBVIOUS
    <3> QED BY <1>10, <3>1, ValueBound
  <2>3. \A x, y \in Nat : y >= 1 => x * y >= x
    OBVIOUS
  <2>4. BaseTo(2 * n) \in Nat
    BY BaseFacts
  <2>5. M * Pow2[shift] \in Int /\ BaseTo(2 * n) * c(d) \in Int
    BY <1>19, <1>20, <2>1, <2>4
  <2> QED BY <1>18, <1>21, <1>23, <2>1, <2>2, <2>3, <2>4, <2>5
<1>25. Value(v) = M * Pow2[shift]
  <2>1. BaseTo(2 * n) * 0 = 0
    BY BaseFacts
  <2>2. M * Pow2[shift] \in Int
    BY <1>19, <1>20
  <2> QED BY <1>18, <1>21, <1>24, <2>1, <2>2
<1> QED BY <1>2, <1>10, <1>23, <1>25 DEF v, M

-----------------------------------------------------------------------------
(* The words of an integer that is less do for all of it.                  *)
LEMMA LowWords ==
  ASSUME NEW n \in Nat \ {0}, NEW v \in Vlis(2 * n), Value(v) < BaseTo(n)
  PROVE  SubSeq(v, 1, n) \in Vlis(n) /\ Value(SubSeq(v, 1, n)) = Value(v)
<1>1. 2 * n \in Nat /\ Value(v) \in 0..(BaseTo(n) - 1)
  BY ValueBound, BaseFacts
<1>2. v = Words(Value(v), 2 * n)
  BY <1>1, WordsOfValue
<1>3. v \in Seq(Word) /\ Len(v) = 2 * n
  BY <1>1, LenOfVli DEF Vlis
<1>4. SubSeq(v, 1, n) \in Seq(Word) /\ Len(SubSeq(v, 1, n)) = n /\ \A i \in 1..n : SubSeq(v, 1, n)[i] = v[i]
  BY <1>3
<1> DEFINE w == SubSeq(v, 1, n)
<1> HIDE DEF w
<1>5. w \in [1..n -> Word] /\ \A i \in 1..n : w[i] = v[i]
  BY <1>4, LenProperties DEF w
<1>6. \A i \in 1..n : v[i] = (Value(v) \div BaseTo(i - 1)) % Base
  <2>1. ASSUME NEW i \in 1..n PROVE Words(Value(v), 2 * n)[i] = (Value(v) \div BaseTo(i - 1)) % Base
    <3>1. i \in 1..(2 * n)
      OBVIOUS
    <3> QED BY <3>1 DEF Words
  <2> QED BY <1>2, <2>1
<1>7. w = Words(Value(v), n)
  BY <1>5, <1>6 DEF Words
<1>8. Words(Value(v), n) \in Vlis(n) /\ Value(Words(Value(v), n)) = Value(v)
  BY <1>1, WordsOfValue
<1> QED BY <1>7, <1>8 DEF w

(* The loop of vli_mmod(), turn by turn.                                   *)
MmodTurn(n, s) ==
  LET diff == vli_sub(s.current, s.multiple)
  IN [current |-> IF diff.out = 1 THEN s.current ELSE diff.words,
      multiple |-> HalveMultiple(s.multiple, n)]
MmodRuns(turn, product, mod, n, shift) ==
  /\ turn[0] = [current |-> product, multiple |-> Shifted(mod, shift)]
  /\ vli_mmod(product, mod) = SubSeq(turn[shift + 1].current, 1, n)
  /\ \A i \in 0..shift : turn[i + 1] = MmodTurn(n, turn[i])

(* The loop of vli_mmod() turn by turn.                                    *)
LEMMA MmodDefined ==
  ASSUME NEW n \in Nat \ {0}, NEW product \in Vlis(2 * n), NEW mod \in Vlis(n), 0 < Value(mod),
         NEW shift, shift = 2 * n * WordBits - vli_numBits(mod)
  PROVE  \E turn : MmodRuns(turn, product, mod, n, shift)
<1> DEFINE V == Vlis(2 * n)
           A == [current : V, multiple : V]
           a == [current |-> product, multiple |-> Shifted(mod, shift)]
           N == shift + 1
           step == [i \in 0..(N - 1) |-> [s \in A |-> MmodTurn(n, s)]]
           G(g) == [i \in 0..N |-> IF i = 0 THEN a ELSE MmodTurn(n, g[i - 1])]
           Turn == CHOOSE g : g = G(g)
<1>0. Len(mod) = n
  BY LenOfVli DEF Vlis
<1>1. vli_mmod(product, mod) = SubSeq(Turn[N].current, 1, n)
  BY <1>0 DEF vli_mmod, MmodTurn
<1>2. shift \in Nat /\ N \in Nat /\ N - 1 = shift /\ Shifted(mod, shift) \in V
  <2>1. shift \in Nat /\ Shifted(mod, shift) \in V
    BY ShiftedExact
  <2> QED BY <2>1
<1> HIDE DEF N
<1>3. ASSUME NEW s \in A PROVE MmodTurn(n, s) \in A
  <2>1. s.current \in V /\ s.multiple \in V /\ 2 * n \in Nat
    OBVIOUS
  <2>2. vli_sub(s.current, s.multiple).words \in V
    BY <2>1, SubExact
  <2>3. HalveMultiple(s.multiple, n) \in V
    <3>1. 2 * n \in Nat \ {0} /\ 0 \in {0, 1}
      OBVIOUS
    <3>2. ShiftIn(s.multiple, 0) \in V
      BY <2>1, <3>1, ShiftInExact
    <3> QED BY <2>1, <3>2, HalveMultipleIsShift
  <2> HIDE DEF V
  <2> QED BY <2>1, <2>2, <2>3 DEF MmodTurn
<1>4. step \in [0..(N - 1) -> [A -> A]] /\ a \in A
  <2>1. a \in A
    BY <1>2
  <2> HIDE DEF A, a
  <2> QED BY <1>3, <2>1
<1>5. PICK f : FollowsUpTo(f, N, A, a, step)
  <2> HIDE DEF A, a, step
  <2> QED BY <1>2, <1>4, FiniteRecursionExists
<1>6. f = G(f)
  <2>1. ASSUME NEW i \in 0..N, i # 0 PROVE step[i - 1][f[i - 1]] = MmodTurn(n, f[i - 1])
    <3>1. i - 1 \in 0..(N - 1) /\ i - 1 \in 0..N
      BY <1>2, <2>1
    <3>2. f[i - 1] \in A
      BY <1>5, <3>1 DEF FollowsUpTo
    <3> HIDE DEF A
    <3> QED BY <3>1, <3>2
  <2> HIDE DEF step, a
  <2>2. f = [i \in 0..N |-> IF i = 0 THEN a ELSE step[i - 1][f[i - 1]]]
    BY <1>5 DEF FollowsUpTo
  <2> QED BY <2>1, <2>2
<1>7. Turn = G(Turn)
  <2> HIDE DEF G
  <2> QED BY <1>6
<1> HIDE DEF Turn
<1>8. \A i \in 0..N : Turn[i] = IF i = 0 THEN a ELSE MmodTurn(n, Turn[i - 1])
  BY <1>7
<1>9. Turn[0] = a
  BY <1>2, <1>8
<1>10. ASSUME NEW i \in 0..shift PROVE Turn[i + 1] = MmodTurn(n, Turn[i])
  <2>1. i + 1 \in 0..N /\ i + 1 # 0 /\ (i + 1) - 1 = i
    BY <1>2
  <2> QED BY <1>8, <2>1
<1>11. MmodRuns(Turn, product, mod, n, shift)
  <2>1. N = shift + 1
    BY DEF N
  <2> QED BY <1>1, <1>9, <1>10, <2>1 DEF MmodRuns
<1> QED BY <1>11

(* One turn: the multiple is subtracted where it fits, and halved.         *)
LEMMA MmodTurnExact ==
  ASSUME NEW n \in Nat \ {0}, NEW current \in Vlis(2 * n), NEW multiple \in Vlis(2 * n),
         Value(current) < 2 * Value(multiple),
         NEW s, s = [current |-> current, multiple |-> multiple]
  PROVE  /\ MmodTurn(n, s).current \in Vlis(2 * n)
         /\ MmodTurn(n, s).multiple \in Vlis(2 * n)
         /\ Value(MmodTurn(n, s).current)
              = IF Value(multiple) <= Value(current) THEN Value(current) - Value(multiple)
                ELSE Value(current)
         /\ Value(MmodTurn(n, s).current) < Value(multiple)
         /\ \A h \in Int : Value(multiple) = 2 * h => Value(MmodTurn(n, s).multiple) = h
<1> DEFINE C == Value(current)
           m == Value(multiple)
           diff == vli_sub(current, multiple)
           half == ShiftIn(multiple, 0)
           t == MmodTurn(n, s)
<1>0. 2 * n \in Nat \ {0} /\ 0 \in {0, 1}
  OBVIOUS
<1>1. t.current = (IF diff.out = 1 THEN current ELSE diff.words) /\ t.multiple = half
  BY HalveMultipleIsShift DEF MmodTurn
<1>2. /\ m <= C => diff.out = 0 /\ Value(diff.words) = C - m
      /\ ~(m <= C) => diff.out = 1
      /\ diff.words \in Vlis(2 * n)
  BY <1>0, SubCases, SubExact
<1>3. /\ half \in Vlis(2 * n) /\ 2 * Value(half) = m - (multiple[1] % 2) + 0 * BaseTo(2 * n)
      /\ multiple[1] % 2 \in {0, 1}
  BY <1>0, ShiftInExact
<1>4. C \in Int /\ m \in Int /\ C < 2 * m
  BY <1>0, ValueBound
<1>5. Value(half) \in Int /\ BaseTo(2 * n) \in Int
  BY <1>0, <1>3, ValueBound, BaseFacts
<1> HIDE DEF C, m, diff, half, t
<1>6. t.current \in Vlis(2 * n) /\ t.multiple \in Vlis(2 * n)
  BY <1>1, <1>2, <1>3
<1>7. Value(t.current) = IF m <= C THEN C - m ELSE C
  BY <1>1, <1>2 DEF C
<1>8. Value(t.current) < m
  BY <1>4, <1>7
<1>9. ASSUME NEW h \in Int, m = 2 * h PROVE Value(t.multiple) = h
  <2> DEFINE low == multiple[1] % 2
             H == Value(half)
  <2>1. 0 * BaseTo(2 * n) = 0
    BY <1>5
  <2>2. low \in {0, 1} /\ 2 * H = 2 * h - low + 0 /\ H \in Int
    BY <1>3, <1>5, <1>9, <2>1
  <2> HIDE DEF low, H
  <2>3. H = h
    BY <2>2
  <2> QED BY <1>1, <2>3 DEF H
<1> QED BY <1>6, <1>7, <1>8, <1>9 DEF C, m, t

(* uECC_vli_mmod() leaves the remainder, for every modulus that has its    *)
(* top word: shifting and subtracting in the two buffers loses nothing     *)
(* (uECC.c:569-610).                                                       *)
THEOREM MmodExact ==
  ASSUME NEW n \in Nat \ {0}, NEW product \in Vlis(2 * n), NEW mod \in Vlis(n),
         BaseTo(n - 1) <= Value(mod)
  PROVE  /\ vli_mmod(product, mod) \in Vlis(n)
         /\ Value(vli_mmod(product, mod)) = Value(product) % Value(mod)
<1> DEFINE shift == 2 * n * WordBits - vli_numBits(mod)
           M == Value(mod)
           P == Value(product)
<1>0. 2 * n \in Nat \ {0} /\ 2 * n \in Nat /\ 0 < Value(mod)
  <2>1. n - 1 \in Nat /\ 2 * n \in Nat \ {0} /\ Value(mod) \in Int
    BY ValueBound
  <2>2. BaseTo(n - 1) \in Nat \ {0}
    BY <2>1, BaseFacts
  <2> HIDE DEF shift, M, P
  <2> QED BY <2>1, <2>2
<1>1. /\ shift \in Nat /\ Shifted(mod, shift) \in Vlis(2 * n)
      /\ Value(Shifted(mod, shift)) = M * Pow2[shift] /\ BaseTo(2 * n) <= 2 * (M * Pow2[shift])
  BY <1>0, ShiftedExact
<1>2. PICK turn : MmodRuns(turn, product, mod, n, shift)
  BY <1>0, MmodDefined
<1> HIDE DEF shift
<1> DEFINE Exact(i) ==
             /\ turn[i] = [current |-> turn[i].current, multiple |-> turn[i].multiple]
             /\ turn[i].current \in Vlis(2 * n) /\ turn[i].multiple \in Vlis(2 * n)
             /\ Value(turn[i].current) < M * Pow2[shift + 1 - i]
             /\ \E q \in Int : P = q * M + Value(turn[i].current)
             /\ i <= shift => Value(turn[i].multiple) = M * Pow2[shift - i]
           S == {i \in 0..(shift + 1) : Exact(i)}
<1>3. M \in Nat \ {0} /\ P \in Int /\ P < BaseTo(2 * n) /\ M < BaseTo(n)
  <2>1. M \in Int /\ M < BaseTo(n)
    BY ValueBound
  <2>2. P \in Int /\ P < BaseTo(2 * n)
    BY <1>0, ValueBound
  <2> QED BY <1>0, <2>1, <2>2
<1> HIDE DEF M, P
<1>4. \A j \in Nat : Pow2[j] \in Nat \ {0} /\ Pow2[j + 1] = 2 * Pow2[j]
  BY Pow2Defined
<1>5. 0 \in S
  <2>1. turn[0] = [current |-> product, multiple |-> Shifted(mod, shift)]
    BY <1>2 DEF MmodRuns
  <2>2. shift + 1 - 0 = shift + 1 /\ shift - 0 = shift
    BY <1>1
  <2>3. M * Pow2[shift + 1] = 2 * (M * Pow2[shift]) /\ M * Pow2[shift] \in Int /\ BaseTo(2 * n) \in Int
    BY <1>0, <1>1, <1>3, <1>4, BaseFacts
  <2>4. P < M * Pow2[shift + 1]
    BY <1>1, <1>3, <2>3
  <2>5. P = 0 * M + P /\ 0 \in Int
    BY <1>3
  <2>6. Exact(0)
    BY <1>1, <2>1, <2>2, <2>4, <2>5 DEF P
  <2> QED BY <1>1, <2>6
<1>6. ASSUME NEW i \in 0..((shift + 1) - 1), i \in S PROVE i + 1 \in S
  <2> DEFINE cur == turn[i].current
             mul == turn[i].multiple
             next == turn[i + 1]
             p == Pow2[shift - i]
  <2>1. /\ i \in 0..shift /\ i + 1 \in 0..(shift + 1) /\ shift - i \in Nat
        /\ shift + 1 - i = (shift - i) + 1 /\ shift + 1 - (i + 1) = shift - i /\ i <= shift
    BY <1>1
  <2>2. /\ turn[i] = [current |-> cur, multiple |-> mul]
        /\ cur \in Vlis(2 * n) /\ mul \in Vlis(2 * n)
        /\ Value(cur) < M * Pow2[shift + 1 - i] /\ Value(mul) = M * p
    BY <1>6, <2>1
  <2>3. PICK q \in Int : P = q * M + Value(cur)
    BY <1>6
  <2>4. next = MmodTurn(n, turn[i])
    BY <1>2, <2>1 DEF MmodRuns
  <2>5. p \in Nat \ {0} /\ Pow2[shift + 1 - i] = 2 * p
    BY <1>4, <2>1
  <2> HIDE DEF cur, mul, next, p
  <2>6. Value(cur) < 2 * Value(mul)
    <3>1. M * (2 * p) = 2 * (M * p)
      BY <1>3, <2>5
    <3> QED BY <2>2, <2>5, <3>1
  <2>7. /\ next.current \in Vlis(2 * n) /\ next.multiple \in Vlis(2 * n)
        /\ Value(next.current) = (IF Value(mul) <= Value(cur) THEN Value(cur) - Value(mul) ELSE Value(cur))
        /\ Value(next.current) < Value(mul)
        /\ \A h \in Int : Value(mul) = 2 * h => Value(next.multiple) = h
    BY <2>2, <2>4, <2>6, MmodTurnExact
  <2>8. next = [current |-> next.current, multiple |-> next.multiple]
    BY <2>4 DEF MmodTurn
  <2>9. Value(next.current) < M * Pow2[shift + 1 - (i + 1)]
    BY <2>1, <2>2, <2>7 DEF p
  <2>10. \E r \in Int : P = r * M + Value(next.current)
    <3>1. Value(cur) \in Int /\ M * p \in Int /\ q * M \in Int
      BY <1>0, <1>3, <2>2, <2>3, <2>5, ValueBound
    <3>2. CASE Value(mul) <= Value(cur)
      <4>1. (q + p) * M = q * M + M * p
        BY <1>3, <2>3, <2>5
      <4>2. P = (q + p) * M + Value(next.current)
        BY <2>2, <2>3, <2>7, <3>1, <3>2, <4>1
      <4>3. q + p \in Int
        BY <2>3, <2>5
      <4> QED BY <4>2, <4>3
    <3>3. CASE ~(Value(mul) <= Value(cur))
      BY <2>3, <2>7, <3>3
    <3> QED BY <3>2, <3>3
  <2>11. i + 1 <= shift => Value(next.multiple) = M * Pow2[shift - (i + 1)]
    <3>1. ASSUME i + 1 <= shift PROVE Value(next.multiple) = M * Pow2[shift - (i + 1)]
      <4>1. shift - (i + 1) \in Nat /\ (shift - (i + 1)) + 1 = shift - i
        BY <1>1, <3>1
      <4> DEFINE h == M * Pow2[shift - (i + 1)]
      <4>2. p = 2 * Pow2[shift - (i + 1)] /\ Pow2[shift - (i + 1)] \in Nat
        BY <1>4, <4>1 DEF p
      <4>3. h \in Int /\ M * p = 2 * h
        BY <1>3, <4>2
      <4> HIDE DEF h
      <4>4. Value(next.multiple) = h
        BY <2>2, <2>7, <4>3
      <4> QED BY <4>4 DEF h
    <3> QED BY <3>1
  <2>12. Exact(i + 1)
    BY <2>7, <2>8, <2>9, <2>10, <2>11 DEF next
  <2> QED BY <2>1, <2>12
<1> HIDE DEF S
<1>7. 0..(shift + 1) \subseteq S
  <2>1. shift + 1 \in Nat
    BY <1>1
  <2> QED BY <1>5, <1>6, <2>1, IntervalInduction
<1> DEFINE cur == turn[shift + 1].current
<1>8. cur \in Vlis(2 * n) /\ Value(cur) < M /\ \E q \in Int : P = q * M + Value(cur)
  <2>1. shift + 1 \in 0..(shift + 1) /\ shift + 1 - (shift + 1) = 0
    BY <1>1
  <2>2. Exact(shift + 1)
    BY <1>7, <2>1 DEF S
  <2>3. Pow2[0] = 1
    BY Pow2Defined
  <2> QED BY <1>3, <2>1, <2>2, <2>3
<1>9. vli_mmod(product, mod) = SubSeq(cur, 1, n)
  BY <1>2 DEF MmodRuns
<1> HIDE DEF cur
<1>10. 0 <= Value(cur) /\ Value(cur) \in Int
  BY <1>0, <1>8, ValueBound
<1>11. Value(cur) < BaseTo(n) /\ BaseTo(n) \in Int
  BY <1>3, <1>8, <1>10, BaseFacts
<1>12. SubSeq(cur, 1, n) \in Vlis(n) /\ Value(SubSeq(cur, 1, n)) = Value(cur)
  BY <1>8, <1>11, LowWords
<1>13. Value(cur) = P % M
  <2>1. PICK q \in Int : P = q * M + Value(cur)
    BY <1>8
  <2>2. Value(cur) \in 0..(M - 1)
    BY <1>3, <1>8, <1>10
  <2>3. (q * M + Value(cur)) % M = Value(cur)
    BY <1>3, <2>2, DivisionUnique
  <2> QED BY <2>1, <2>3
<1> QED BY <1>9, <1>12, <1>13 DEF M, P

(* uECC_vli_modMult() is the product modulo mod (uECC.c:612-620).          *)
THEOREM ModMultExact ==
  ASSUME NEW n \in Nat \ {0}, n <= Base, NEW left \in Vlis(n), NEW right \in Vlis(n),
         NEW mod \in Vlis(n), BaseTo(n - 1) <= Value(mod)
  PROVE  /\ vli_modMult(left, right, mod) \in Vlis(n)
         /\ Value(vli_modMult(left, right, mod)) = (Value(left) * Value(right)) % Value(mod)
<1>1. /\ vli_mult(left, right) \in Vlis(2 * n)
      /\ Value(vli_mult(left, right)) = Value(left) * Value(right)
  BY MultExact
<1> QED BY <1>1, MmodExact DEF vli_modMult

-----------------------------------------------------------------------------
(* Inverses.  Inside the loop of vli_modInv(), u x is a and v x is b       *)
(* modulo mod, and whatever divides a and b divides x and mod.             *)
Divides(g, x) == \E z \in Int : x = g * z
Congruent(x, y, m) == \E q \in Int : x = y + q * m
Coprime(x, m) == \A g \in Nat : Divides(g, x) /\ Divides(g, m) => g = 1
EuclidInv(a, b, u, v, x, m) ==
  /\ u \in 0..(m - 1) /\ v \in 0..(m - 1)
  /\ Congruent(u * x, a, m) /\ Congruent(v * x, b, m)
  /\ \A g \in Nat : Divides(g, a) /\ Divides(g, b) => Divides(g, x) /\ Divides(g, m)

(* What is congruent twice over is congruent, for an odd modulus.          *)
LEMMA HalfCongruent ==
  ASSUME NEW x \in Int, NEW y \in Int, NEW t \in Int, NEW h \in Nat, NEW m, m = 2 * h + 1,
         2 * x = 2 * y + t * m
  PROVE  Congruent(x, y, m)
<1> DEFINE r == x - y - h * t
<1>1. t * m = 2 * (h * t) + t /\ h * t \in Int
  OBVIOUS
<1>2. t = 2 * r /\ r \in Int
  BY <1>1
<1> HIDE DEF r
<1>3. t * m = 2 * (r * m) /\ r * m \in Int
  BY <1>2
<1>4. x = y + r * m
  BY <1>3
<1> QED BY <1>2, <1>4 DEF Congruent

(* A divisor of two numbers divides their combinations.                    *)
LEMMA DividesSum ==
  ASSUME NEW g \in Nat, NEW x \in Int, NEW y \in Int, NEW k \in Int, NEW l \in Int,
         Divides(g, x), Divides(g, y)
  PROVE  Divides(g, k * x + l * y)
<1>1. PICK z \in Int : x = g * z
  BY DEF Divides
<1>2. PICK w \in Int : y = g * w
  BY DEF Divides
<1>3. k * (g * z) + l * (g * w) = g * (k * z + l * w)
  <2>1. k * (g * z) = g * (k * z) /\ l * (g * w) = g * (l * w)
    BY <1>1, <1>2
  <2>2. k * z \in Int /\ l * w \in Int
    BY <1>1, <1>2
  <2>3. g * (k * z) + g * (l * w) = g * (k * z + l * w)
    BY <2>2
  <2> QED BY <2>1, <2>3
<1>4. k * z + l * w \in Int
  BY <1>1, <1>2
<1> QED BY <1>1, <1>2, <1>3, <1>4 DEF Divides

(* Half the difference keeps what binary Euclid keeps: the common divisors *)
(* of a and b, and that u x = a and v x = b modulo m.                      *)
LEMMA EuclidStep ==
  ASSUME NEW a \in Int, NEW b \in Int, NEW u \in Int, NEW v \in Int, NEW x \in Int,
         NEW h \in Nat, NEW m, m = 2 * h + 1, EuclidInv(a, b, u, v, x, m),
         NEW f \in Int, NEW e \in Int, NEW a2 \in Int, NEW u2 \in 0..(m - 1),
         2 * a2 = a - f * b, 2 * u2 = u - f * v + e * m
  PROVE  EuclidInv(a2, b, u2, v, x, m)
<1>0. m \in Int
  OBVIOUS
<1>1. PICK q \in Int : u * x = a + q * m
  BY DEF EuclidInv, Congruent
<1>2. PICK p \in Int : v * x = b + p * m
  BY DEF EuclidInv, Congruent
<1>3. Congruent(u2 * x, a2, m)
  <2> DEFINE t == q - f * p + e * x
  <2>1. 2 * (u2 * x) = (u - f * v + e * m) * x
    <3>1. 2 * (u2 * x) = (2 * u2) * x
      BY <1>0
    <3> QED BY <3>1
  <2>2. (u - f * v + e * m) * x = u * x - f * (v * x) + e * (m * x)
    <3>1. f * v \in Int /\ e * m \in Int
      BY <1>0
    <3>2. \A i, j, k \in Int : (i - j + k) * x = i * x - j * x + k * x
      OBVIOUS
    <3>3. (f * v) * x = f * (v * x) /\ (e * m) * x = e * (m * x)
      BY <1>0
    <3> QED BY <3>1, <3>2, <3>3
  <2>3. f * (b + p * m) = f * b + f * (p * m)
    BY <1>0, <1>2
  <2>4. t * m = q * m - f * (p * m) + e * (m * x)
    <3>1. \A i, j, k \in Int : (i - j + k) * m = i * m - j * m + k * m
      BY <1>0
    <3>2. f * p \in Int /\ e * x \in Int
      BY <1>2
    <3>3. (f * p) * m = f * (p * m) /\ (e * x) * m = e * (m * x)
      BY <1>0, <1>2
    <3> QED BY <1>1, <3>1, <3>2, <3>3
  <2>5. t \in Int
    BY <1>1, <1>2
  <2> HIDE DEF t
  <2>6. 2 * (u2 * x) = 2 * a2 + t * m
    <3> DEFINE qm == q * m
               fb == f * b
               fpm == f * (p * m)
               emx == e * (m * x)
    <3>1. qm \in Int /\ fb \in Int /\ fpm \in Int /\ emx \in Int
      BY <1>0, <1>1, <1>2
    <3>2. 2 * (u2 * x) = (a + qm) - (fb + fpm) + emx
      BY <1>1, <1>2, <2>1, <2>2, <2>3
    <3>3. 2 * a2 = a - fb /\ t * m = qm - fpm + emx
      BY <2>4
    <3> HIDE DEF qm, fb, fpm, emx
    <3> QED BY <3>1, <3>2, <3>3
  <2>7. u2 * x \in Int
    BY <1>0
  <2> QED BY <2>5, <2>6, <2>7, HalfCongruent
<1>4. ASSUME NEW g \in Nat, Divides(g, a2), Divides(g, b) PROVE Divides(g, x) /\ Divides(g, m)
  <2>1. Divides(g, 2 * a2 + f * b)
    BY <1>4, DividesSum
  <2>2. 2 * a2 + f * b = a
    <3>1. f * b \in Int
      OBVIOUS
    <3> QED BY <3>1
  <2>3. Divides(g, a)
    BY <2>1, <2>2
  <2> QED BY <1>4, <2>3 DEF EuclidInv
<1>5. v \in 0..(m - 1) /\ Congruent(v * x, b, m)
  BY DEF EuclidInv
<1> QED BY <1>3, <1>4, <1>5 DEF EuclidInv

(* The two sides of it are alike.                                          *)
LEMMA EuclidSwap ==
  ASSUME NEW a, NEW b, NEW u, NEW v, NEW x, NEW m, EuclidInv(a, b, u, v, x, m)
  PROVE  EuclidInv(b, a, v, u, x, m)
BY DEF EuclidInv

-----------------------------------------------------------------------------
(* What the helpers of vli_modInv() return.                                *)
LEMMA UpdateExact ==
  ASSUME NEW n \in Nat \ {0}, NEW uv \in Vlis(n), NEW mod \in Vlis(n)
  PROVE  /\ modInv_update(uv, mod) \in Vlis(n)
         /\ \A h \in Nat : Value(mod) = 2 * h + 1 /\ Value(uv) < Value(mod) =>
              /\ Value(modInv_update(uv, mod)) < Value(mod)
              /\ \E e \in Int : 2 * Value(modInv_update(uv, mod)) = Value(uv) + e * Value(mod)
<1> DEFINE U == Value(uv)
           M == Value(mod)
           sum == vli_add(uv, mod)
           low == uv[1] % 2
<1>1. U \in Int /\ 0 <= U /\ M \in Int /\ BaseTo(n) \in Int
  BY ValueBound
<1>2. PICK g \in Nat : U = 2 * g + low
  BY EvenExact
<1>3. low \in {0, 1}
  BY ShiftInExact
<1>4. CASE Even(uv)
  <2>1. low = 0
    BY <1>4 DEF Even
  <2> DEFINE y == ShiftIn(uv, 0)
  <2>2. modInv_update(uv, mod) = y
    BY <1>4 DEF modInv_update
  <2>3. y \in Vlis(n) /\ 2 * Value(y) = U - low + 0 * BaseTo(n)
    BY ShiftInExact
  <2> HIDE DEF y, low, U, M
  <2>4. Value(y) \in Int
    BY <2>3, ValueBound
  <2>5. 0 * BaseTo(n) = 0
    BY <1>1
  <2>6. 2 * Value(y) = U
    BY <1>1, <2>1, <2>3, <2>5
  <2>7. 2 * Value(y) = U + 0 * M
    BY <1>1, <2>6
  <2>8. U < M => Value(y) < M
    BY <1>1, <2>4, <2>6
  <2> QED BY <2>2, <2>3, <2>7, <2>8 DEF U, M
<1>5. CASE ~Even(uv)
  <2>1. low = 1
    BY <1>3, <1>5 DEF Even
  <2> DEFINE y == ShiftIn(sum.words, sum.out)
             l2 == sum.words[1] % 2
             K == sum.out * BaseTo(n)
  <2>2. modInv_update(uv, mod) = y
    BY <1>5 DEF modInv_update
  <2>3. sum.words \in Vlis(n) /\ sum.out \in {0, 1} /\ Value(sum.words) + K = U + M
    BY AddExact
  <2>4. y \in Vlis(n) /\ 2 * Value(y) = Value(sum.words) - l2 + K /\ l2 \in {0, 1}
    BY <2>3, ShiftInExact
  <2>5. K \in Int
    BY <1>1, <2>3
  <2> HIDE DEF y, low, U, M, sum, l2, K
  <2>6. Value(y) \in Int /\ Value(sum.words) \in Int
    BY <2>3, <2>4, ValueBound
  <2>7. ASSUME NEW h \in Nat, M = 2 * h + 1, U < M
        PROVE  Value(y) < M /\ \E e \in Int : 2 * Value(y) = U + e * M
    <3>1. 2 * Value(y) = U + M - l2
      BY <1>1, <2>3, <2>4, <2>5, <2>6
    <3>2. l2 = 0
      BY <1>2, <2>1, <2>4, <2>6, <2>7, <3>1
    <3>3. 2 * Value(y) = U + 1 * M
      BY <1>1, <3>1, <3>2
    <3>4. Value(y) < M
      BY <1>1, <2>6, <2>7, <3>3
    <3> QED BY <3>3, <3>4
  <2> QED BY <2>2, <2>4, <2>7 DEF U, M
<1> QED BY <1>4, <1>5

(* (u - v) / 2 modulo mod, in the words (uECC.c:722-726, 730-734).         *)
LEMMA HalfDifferenceExact ==
  ASSUME NEW n \in Nat \ {0}, NEW u \in Vlis(n), NEW v \in Vlis(n), NEW mod \in Vlis(n)
  PROVE  /\ HalfDifference(u, v, mod) \in Vlis(n)
         /\ \A h \in Nat : Value(mod) = 2 * h + 1 /\ Value(u) < Value(mod) /\ Value(v) < Value(mod) =>
              /\ Value(HalfDifference(u, v, mod)) < Value(mod)
              /\ \E e \in Int :
                   2 * Value(HalfDifference(u, v, mod)) = Value(u) - Value(v) + e * Value(mod)
<1> DEFINE U == Value(u)
           V == Value(v)
           M == Value(mod)
           B == BaseTo(n)
           sum == vli_add(u, mod).words
           above == IF vli_cmp_unsafe(u, v) < 0 THEN sum ELSE u
           diff == vli_sub(above, v).words
           y == modInv_update(diff, mod)
<1>1. /\ U \in Int /\ 0 <= U /\ U < B /\ V \in Int /\ 0 <= V /\ V < B /\ M \in Int /\ 0 <= M /\ M < B
      /\ B \in Int
  BY ValueBound
<1>2. vli_cmp_unsafe(u, v) < 0 <=> U < V
  <2>1. vli_cmp_unsafe(u, v) \in {-1, 0, 1} /\ (vli_cmp_unsafe(u, v) = -1 <=> U < V)
    BY CmpUnsafeExact
  <2> QED BY <2>1
<1>3. HalfDifference(u, v, mod) = y
  BY DEF HalfDifference
<1>4. sum \in Vlis(n) /\ Value(sum) = IF U + M < B THEN U + M ELSE U + M - B
  BY AddExact, AddCases
<1>5. above \in Vlis(n) /\ above = IF U < V THEN sum ELSE u
  BY <1>2, <1>4
<1> HIDE DEF sum, above
<1>6. diff \in Vlis(n)
      /\ Value(diff) = IF V <= Value(above) THEN Value(above) - V ELSE Value(above) - V + B
  BY <1>5, SubExact, SubCases
<1> HIDE DEF diff
<1>7. /\ y \in Vlis(n)
      /\ \A h \in Nat : M = 2 * h + 1 /\ Value(diff) < M =>
           Value(y) < M /\ \E e \in Int : 2 * Value(y) = Value(diff) + e * M
  BY <1>6, UpdateExact
<1> HIDE DEF U, V, M, B, y
<1>8. ASSUME NEW h \in Nat, M = 2 * h + 1, U < M, V < M
      PROVE  Value(y) < M /\ \E e \in Int : 2 * Value(y) = U - V + e * M
  <2>1. CASE U < V
    <3>1. Value(diff) = U - V + M
      BY <1>1, <1>4, <1>5, <1>6, <1>8, <2>1
    <3>2. Value(diff) < M
      BY <1>1, <2>1, <3>1
    <3>3. PICK e \in Int : 2 * Value(y) = Value(diff) + e * M
      BY <1>7, <1>8, <3>2
    <3>4. (e + 1) * M = M + e * M /\ e * M \in Int
      BY <1>1
    <3>5. 2 * Value(y) = U - V + (e + 1) * M
      BY <1>1, <3>1, <3>3, <3>4
    <3>6. e + 1 \in Int
      OBVIOUS
    <3>7. Value(y) < M
      BY <1>7, <1>8, <3>2
    <3> QED BY <3>5, <3>6, <3>7
  <2>2. CASE ~(U < V)
    <3>1. Value(diff) = U - V
      BY <1>1, <1>5, <1>6, <2>2 DEF U
    <3>2. Value(diff) < M
      BY <1>1, <1>8, <3>1
    <3> QED BY <1>7, <1>8, <3>1, <3>2
  <2> QED BY <2>1, <2>2
<1> QED BY <1>3, <1>7, <1>8 DEF U, V, M

(* Half of an even vli, and half of an even difference.                    *)
LEMMA HalvedExact ==
  ASSUME NEW n \in Nat \ {0}, NEW v \in Vlis(n)
  PROVE  /\ Halved(v) \in Vlis(n)
         /\ Even(v) => 2 * Value(Halved(v)) = Value(v)
<1>1. /\ ShiftIn(v, 0) \in Vlis(n)
      /\ 2 * Value(ShiftIn(v, 0)) = Value(v) - (v[1] % 2) + 0 * BaseTo(n)
  BY ShiftInExact
<1>2. Value(v) \in Int /\ 0 * BaseTo(n) = 0
  BY ValueBound, BaseFacts
<1>3. ASSUME Even(v) PROVE 2 * Value(ShiftIn(v, 0)) = Value(v)
  <2>1. v[1] % 2 = 0
    BY <1>3 DEF Even
  <2> QED BY <1>1, <1>2, <2>1
<1> QED BY <1>1, <1>3 DEF Halved, vli_rshift1

(* (a - b) / 2, in the words (uECC.c:720-721, 728-729).                    *)
LEMMA DiffersExact ==
  ASSUME NEW n \in Nat \ {0}, NEW left \in Vlis(n), NEW right \in Vlis(n)
  PROVE  /\ Differs(left, right) \in Vlis(n)
         /\ ~Even(left) /\ ~Even(right) /\ Value(right) < Value(left) =>
              2 * Value(Differs(left, right)) = Value(left) - Value(right)
<1> DEFINE diff == vli_sub(left, right).words
           D == Value(diff)
           H == Value(ShiftIn(diff, 0))
           low == diff[1] % 2
           L == Value(left)
           R == Value(right)
<1>1. diff \in Vlis(n) /\ (R <= L => D = L - R)
  BY SubExact, SubCases
<1>2. ShiftIn(diff, 0) \in Vlis(n) /\ 2 * H = D - low + 0 * BaseTo(n) /\ low \in {0, 1}
  BY <1>1, ShiftInExact
<1>3. Differs(left, right) = ShiftIn(diff, 0)
  BY DEF Differs, vli_rshift1
<1>4. L \in Int /\ R \in Int /\ D \in Int /\ H \in Int /\ 0 * BaseTo(n) = 0
  BY <1>1, <1>2, ValueBound, BaseFacts
<1>5. \E g \in Nat : L = 2 * g + (left[1] % 2)
  BY EvenExact
<1>6. \E g \in Nat : R = 2 * g + (right[1] % 2)
  BY EvenExact
<1>7. left[1] % 2 \in {0, 1} /\ right[1] % 2 \in {0, 1}
  BY ShiftInExact
<1> HIDE DEF diff, D, H, low, L, R
<1>8. ASSUME ~Even(left), ~Even(right), R < L PROVE 2 * H = L - R
  <2>1. left[1] % 2 = 1 /\ right[1] % 2 = 1
    BY <1>7, <1>8 DEF Even
  <2>2. D = L - R
    BY <1>1, <1>4, <1>8
  <2>3. \E g \in Int : D = 2 * g
    <3>1. PICK g \in Nat : L = 2 * g + 1
      BY <1>5, <2>1
    <3>2. PICK f \in Nat : R = 2 * f + 1
      BY <1>6, <2>1
    <3>3. D = 2 * (g - f) /\ g - f \in Int
      BY <2>2, <3>1, <3>2
    <3> QED BY <3>3
  <2>4. low = 0
    BY <1>2, <1>4, <2>3
  <2> QED BY <1>2, <1>4, <2>2, <2>4
<1> QED BY <1>2, <1>3, <1>8 DEF H, L, R

-----------------------------------------------------------------------------
(* One turn of vli_modInv()'s loop.  a and b stay positive.                *)
Positive(n) == {x \in Vlis(n) : ~vli_isZero(x)}
EuclidStates(n) == [a : Positive(n), b : Positive(n), u : Vlis(n), v : Vlis(n)]
EuclidKept(a, b, u, v, x, m) == EuclidInv(Value(a), Value(b), Value(u), Value(v), x, m)

(* What is positive, and that it is a vli of a positive value.             *)
LEMMA PositiveExact ==
  ASSUME NEW n \in Nat
  PROVE  \A v : v \in Positive(n) <=> v \in Vlis(n) /\ Value(v) \in Int /\ 0 < Value(v)
<1>1. ASSUME NEW v \in Vlis(n) PROVE Value(v) \in Int /\ 0 <= Value(v)
  BY ValueBound
<1>2. ASSUME NEW v \in Vlis(n) PROVE vli_isZero(v) <=> Value(v) = 0
  BY ZeroExact
<1>3. ASSUME NEW v \in Vlis(n) PROVE ~vli_isZero(v) <=> 0 < Value(v)
  BY <1>1, <1>2
<1> QED BY <1>1, <1>3 DEF Positive

(* A turn that finds a even halves it, and u with it.                      *)
LEMMA HalvingTurn ==
  ASSUME NEW n \in Nat \ {0}, NEW a \in Positive(n), NEW b \in Positive(n),
         NEW u \in Vlis(n), NEW v \in Vlis(n), NEW mod \in Vlis(n), Even(a)
  PROVE  /\ Halved(a) \in Positive(n) /\ Value(Halved(a)) < Value(a)
         /\ modInv_update(u, mod) \in Vlis(n)
         /\ \A x \in Int, h \in Nat :
              Value(mod) = 2 * h + 1 /\ EuclidKept(a, b, u, v, x, Value(mod)) =>
              EuclidKept(Halved(a), b, modInv_update(u, mod), v, x, Value(mod))
<1> DEFINE M == Value(mod)
           y == modInv_update(u, mod)
<1>1. /\ a \in Vlis(n) /\ Value(a) \in Int /\ 0 < Value(a)
      /\ b \in Vlis(n) /\ Value(b) \in Int
  BY PositiveExact
<1>2. Halved(a) \in Vlis(n) /\ 2 * Value(Halved(a)) = Value(a)
  BY <1>1, HalvedExact
<1>3. Value(Halved(a)) \in Int /\ Value(u) \in Int /\ Value(v) \in Int /\ M \in Int
  BY <1>2, ValueBound
<1>4. 0 < Value(Halved(a)) /\ Value(Halved(a)) < Value(a)
  BY <1>1, <1>2, <1>3
<1>5. /\ y \in Vlis(n)
      /\ \A h \in Nat : M = 2 * h + 1 /\ Value(u) < M =>
           Value(y) < M /\ \E e \in Int : 2 * Value(y) = Value(u) + e * M
  BY UpdateExact
<1>6. Value(y) \in Int /\ 0 <= Value(y)
  BY <1>5, ValueBound
<1> HIDE DEF M, y
<1>7. ASSUME NEW x \in Int, NEW h \in Nat, M = 2 * h + 1, EuclidKept(a, b, u, v, x, M)
      PROVE  EuclidKept(Halved(a), b, y, v, x, M)
  <2>1. EuclidInv(Value(a), Value(b), Value(u), Value(v), x, M)
    BY <1>7 DEF EuclidKept
  <2>2. Value(u) \in 0..(M - 1)
    BY <2>1 DEF EuclidInv
  <2>3. Value(u) < M
    BY <1>3, <2>2
  <2>4. Value(y) < M
    BY <1>5, <1>7, <2>3
  <2>5. PICK e \in Int : 2 * Value(y) = Value(u) + e * M
    BY <1>5, <1>7, <2>3
  <2>6. Value(y) \in 0..(M - 1)
    BY <1>3, <1>6, <2>4
  <2>7. 0 * Value(b) = 0 /\ 0 * Value(v) = 0 /\ e * M \in Int
    BY <1>1, <1>3
  <2>8. 2 * Value(Halved(a)) = Value(a) - 0 * Value(b)
    BY <1>1, <1>2, <2>7
  <2>9. 2 * Value(y) = Value(u) - 0 * Value(v) + e * M
    BY <1>3, <2>5, <2>7
  <2>10. EuclidInv(Value(Halved(a)), Value(b), Value(y), Value(v), x, M)
    <3>1. 0 \in Int
      OBVIOUS
    <3> QED BY <1>1, <1>3, <1>7, <2>1, <2>6, <2>8, <2>9, <3>1, EuclidStep
  <2> QED BY <2>10 DEF EuclidKept
<1>8. \A x \in Int, h \in Nat :
        M = 2 * h + 1 /\ EuclidKept(a, b, u, v, x, M) => EuclidKept(Halved(a), b, y, v, x, M)
  BY <1>7
<1> QED BY <1>2, <1>4, <1>3, <1>5, <1>8, PositiveExact DEF M, y

(* A turn that finds both odd takes half their difference.                 *)
LEMMA DifferenceTurn ==
  ASSUME NEW n \in Nat \ {0}, NEW a \in Positive(n), NEW b \in Positive(n),
         NEW u \in Vlis(n), NEW v \in Vlis(n), NEW mod \in Vlis(n),
         ~Even(a), ~Even(b), Value(b) < Value(a)
  PROVE  /\ Differs(a, b) \in Positive(n) /\ Value(Differs(a, b)) < Value(a)
         /\ HalfDifference(u, v, mod) \in Vlis(n)
         /\ \A x \in Int, h \in Nat :
              Value(mod) = 2 * h + 1 /\ EuclidKept(a, b, u, v, x, Value(mod)) =>
              EuclidKept(Differs(a, b), b, HalfDifference(u, v, mod), v, x, Value(mod))
<1> DEFINE M == Value(mod)
           y == HalfDifference(u, v, mod)
           d == Differs(a, b)
<1>1. /\ a \in Vlis(n) /\ Value(a) \in Int /\ 0 < Value(a)
      /\ b \in Vlis(n) /\ Value(b) \in Int /\ 0 < Value(b)
  BY PositiveExact
<1>2. d \in Vlis(n) /\ 2 * Value(d) = Value(a) - Value(b)
  BY <1>1, DiffersExact
<1>3. Value(d) \in Int /\ Value(u) \in Int /\ Value(v) \in Int /\ M \in Int
  BY <1>2, ValueBound
<1>4. 0 < Value(d) /\ Value(d) < Value(a)
  BY <1>1, <1>2, <1>3
<1>5. /\ y \in Vlis(n)
      /\ \A h \in Nat : M = 2 * h + 1 /\ Value(u) < M /\ Value(v) < M =>
           Value(y) < M /\ \E e \in Int : 2 * Value(y) = Value(u) - Value(v) + e * M
  BY HalfDifferenceExact
<1>6. Value(y) \in Int /\ 0 <= Value(y)
  BY <1>5, ValueBound
<1> HIDE DEF M, y, d
<1>7. ASSUME NEW x \in Int, NEW h \in Nat, M = 2 * h + 1, EuclidKept(a, b, u, v, x, M)
      PROVE  EuclidKept(d, b, y, v, x, M)
  <2>1. EuclidInv(Value(a), Value(b), Value(u), Value(v), x, M)
    BY <1>7 DEF EuclidKept
  <2>2. Value(u) \in 0..(M - 1) /\ Value(v) \in 0..(M - 1)
    BY <2>1 DEF EuclidInv
  <2>3. Value(u) < M /\ Value(v) < M
    BY <1>3, <2>2
  <2>4. Value(y) < M
    BY <1>5, <1>7, <2>3
  <2>5. PICK e \in Int : 2 * Value(y) = Value(u) - Value(v) + e * M
    BY <1>5, <1>7, <2>3
  <2>6. Value(y) \in 0..(M - 1)
    BY <1>3, <1>6, <2>4
  <2>7. 1 * Value(b) = Value(b) /\ 1 * Value(v) = Value(v) /\ e * M \in Int
    BY <1>1, <1>3
  <2>8. 2 * Value(d) = Value(a) - 1 * Value(b)
    BY <1>1, <1>2, <2>7
  <2>9. 2 * Value(y) = Value(u) - 1 * Value(v) + e * M
    BY <1>3, <2>5, <2>7
  <2>10. EuclidInv(Value(d), Value(b), Value(y), Value(v), x, M)
    <3>1. 1 \in Int
      OBVIOUS
    <3> QED BY <1>1, <1>3, <1>7, <2>1, <2>6, <2>8, <2>9, <3>1, EuclidStep
  <2> QED BY <2>10 DEF EuclidKept
<1>8. \A x \in Int, h \in Nat :
        M = 2 * h + 1 /\ EuclidKept(a, b, u, v, x, M) => EuclidKept(d, b, y, v, x, M)
  BY <1>7
<1> QED BY <1>2, <1>4, <1>3, <1>5, <1>8, PositiveExact DEF M, y, d

(* A turn leaves positive a and b, the smaller one no larger, and keeps    *)
(* the invariant.                                                          *)
EuclidMeasure(s) == Value(s.a) + Value(s.b)
EuclidGoes(s, t, n, mod) ==
  /\ t \in EuclidStates(n)
  /\ EuclidMeasure(t) < EuclidMeasure(s)
  /\ \A x \in Int, h \in Nat :
       Value(mod) = 2 * h + 1 /\ EuclidKept(s.a, s.b, s.u, s.v, x, Value(mod)) =>
       EuclidKept(t.a, t.b, t.u, t.v, x, Value(mod))
(* One turn makes a or b smaller and keeps what is to be kept.             *)
LEMMA EuclidTurnExact ==
  ASSUME NEW n \in Nat \ {0}, NEW mod \in Vlis(n), NEW s \in EuclidStates(n), s.a # s.b
  PROVE  EuclidGoes(s, EuclidTurn(s, mod), n, mod)
<1> DEFINE cmp == vli_cmp_unsafe(s.a, s.b)
           M == Value(mod)
           t == EuclidTurn(s, mod)
<1>0. s.a \in Positive(n) /\ s.b \in Positive(n) /\ s.u \in Vlis(n) /\ s.v \in Vlis(n)
  BY DEF EuclidStates
<1>1. s.a \in Vlis(n) /\ s.b \in Vlis(n) /\ Value(s.a) \in Int /\ Value(s.b) \in Int
  BY <1>0, PositiveExact
<1>2. /\ cmp \in {-1, 0, 1} /\ cmp # 0
      /\ (cmp = 1 <=> Value(s.b) < Value(s.a)) /\ (cmp = -1 <=> Value(s.a) < Value(s.b))
  BY <1>1, CmpUnsafeExact
<1>3. cmp > 0 <=> cmp = 1
  BY <1>2
<1>4. cmp < 0 <=> cmp = -1
  BY <1>2
<1> HIDE DEF cmp
<1>5. CASE Even(s.a)
  <2> DEFINE na == Halved(s.a)
             nu == modInv_update(s.u, mod)
  <2>1. t = [s EXCEPT !.a = na, !.u = nu]
    BY <1>5 DEF EuclidTurn
  <2>2. /\ na \in Positive(n) /\ Value(na) < Value(s.a) /\ nu \in Vlis(n)
        /\ \A x \in Int, h \in Nat :
             Value(mod) = 2 * h + 1 /\ EuclidKept(s.a, s.b, s.u, s.v, x, Value(mod)) =>
             EuclidKept(na, s.b, nu, s.v, x, Value(mod))
    BY <1>0, <1>5, HalvingTurn
  <2> HIDE DEF na, nu, t
  <2>3. t \in EuclidStates(n) /\ t.a = na /\ t.b = s.b /\ t.u = nu /\ t.v = s.v
    BY <1>0, <2>1, <2>2 DEF EuclidStates
  <2>4. EuclidMeasure(t) < EuclidMeasure(s)
    <3>1. Value(na) \in Int
      BY <2>2, PositiveExact
    <3> QED BY <1>1, <2>2, <2>3, <3>1 DEF EuclidMeasure
  <2>5. EuclidGoes(s, t, n, mod)
    BY <2>2, <2>3, <2>4 DEF EuclidGoes
  <2> QED BY <2>5 DEF t
<1>6. CASE ~Even(s.a) /\ Even(s.b)
  <2> DEFINE nb == Halved(s.b)
             nv == modInv_update(s.v, mod)
  <2>1. t = [s EXCEPT !.b = nb, !.v = nv]
    BY <1>6 DEF EuclidTurn
  <2>2. /\ nb \in Positive(n) /\ Value(nb) < Value(s.b) /\ nv \in Vlis(n)
        /\ \A x \in Int, h \in Nat :
             Value(mod) = 2 * h + 1 /\ EuclidKept(s.b, s.a, s.v, s.u, x, Value(mod)) =>
             EuclidKept(nb, s.a, nv, s.u, x, Value(mod))
    BY <1>0, <1>6, HalvingTurn
  <2> HIDE DEF nb, nv, t
  <2>3. t \in EuclidStates(n) /\ t.a = s.a /\ t.b = nb /\ t.u = s.u /\ t.v = nv
    BY <1>0, <2>1, <2>2 DEF EuclidStates
  <2>4. EuclidMeasure(t) < EuclidMeasure(s)
    <3>1. Value(nb) \in Int
      BY <2>2, PositiveExact
    <3> QED BY <1>1, <2>2, <2>3, <3>1 DEF EuclidMeasure
  <2>5. EuclidGoes(s, t, n, mod)
    BY <2>2, <2>3, <2>4, EuclidSwap DEF EuclidGoes, EuclidKept
  <2> QED BY <2>5 DEF t
<1>7. CASE cmp > 0 /\ ~Even(s.a) /\ ~Even(s.b)
  <2> DEFINE na == Differs(s.a, s.b)
             nu == HalfDifference(s.u, s.v, mod)
  <2>1. t = [s EXCEPT !.a = na, !.u = nu]
    BY <1>3, <1>4, <1>7 DEF EuclidTurn, cmp
  <2>2. /\ na \in Positive(n) /\ Value(na) < Value(s.a) /\ nu \in Vlis(n)
        /\ \A x \in Int, h \in Nat :
             Value(mod) = 2 * h + 1 /\ EuclidKept(s.a, s.b, s.u, s.v, x, Value(mod)) =>
             EuclidKept(na, s.b, nu, s.v, x, Value(mod))
    BY <1>0, <1>2, <1>3, <1>7, DifferenceTurn
  <2> HIDE DEF na, nu, t
  <2>3. t \in EuclidStates(n) /\ t.a = na /\ t.b = s.b /\ t.u = nu /\ t.v = s.v
    BY <1>0, <2>1, <2>2 DEF EuclidStates
  <2>4. EuclidMeasure(t) < EuclidMeasure(s)
    <3>1. Value(na) \in Int
      BY <2>2, PositiveExact
    <3> QED BY <1>1, <2>2, <2>3, <3>1 DEF EuclidMeasure
  <2>5. EuclidGoes(s, t, n, mod)
    BY <2>2, <2>3, <2>4 DEF EuclidGoes
  <2> QED BY <2>5 DEF t
<1>8. CASE cmp < 0 /\ ~Even(s.a) /\ ~Even(s.b)
  <2> DEFINE nb == Differs(s.b, s.a)
             nv == HalfDifference(s.v, s.u, mod)
  <2>1. t = [s EXCEPT !.b = nb, !.v = nv]
    <3>1. ~(cmp > 0)
      BY <1>2, <1>8
    <3> QED BY <1>8, <3>1 DEF EuclidTurn, cmp
  <2>2. /\ nb \in Positive(n) /\ Value(nb) < Value(s.b) /\ nv \in Vlis(n)
        /\ \A x \in Int, h \in Nat :
             Value(mod) = 2 * h + 1 /\ EuclidKept(s.b, s.a, s.v, s.u, x, Value(mod)) =>
             EuclidKept(nb, s.a, nv, s.u, x, Value(mod))
    BY <1>0, <1>2, <1>4, <1>8, DifferenceTurn
  <2> HIDE DEF nb, nv, t
  <2>3. t \in EuclidStates(n) /\ t.a = s.a /\ t.b = nb /\ t.u = s.u /\ t.v = nv
    BY <1>0, <2>1, <2>2 DEF EuclidStates
  <2>4. EuclidMeasure(t) < EuclidMeasure(s)
    <3>1. Value(nb) \in Int
      BY <2>2, PositiveExact
    <3> QED BY <1>1, <2>2, <2>3, <3>1 DEF EuclidMeasure
  <2>5. EuclidGoes(s, t, n, mod)
    BY <2>2, <2>3, <2>4, EuclidSwap DEF EuclidGoes, EuclidKept
  <2> QED BY <2>5 DEF t
<1>9. cmp > 0 \/ cmp < 0
  BY <1>2
<1> QED BY <1>5, <1>6, <1>7, <1>8, <1>9

-----------------------------------------------------------------------------
(* vli_modInv(): the loop ends, at a = b, and u is then the inverse.       *)
EuclidResult(f, n, mod) ==
  /\ f \in [EuclidStates(n) -> Vlis(n)]
  /\ \A s \in EuclidStates(n) : f[s] = IF s.a = s.b THEN s.u ELSE f[EuclidTurn(s, mod)]
(* Since a and b get smaller the loop ends, and its recursion has a        *)
(* solution: by induction over the larger of the two.                      *)
LEMMA EuclidDefined ==
  ASSUME NEW n \in Nat \ {0}, NEW mod \in Vlis(n)
  PROVE  \E f : /\ EuclidResult(f, n, mod)
                /\ \A start : Euclid(start, mod) = f[start]
<1> DEFINE S == EuclidStates(n)
           A == Vlis(n)
           D == {s \in S : s.a = s.b}
           out == [s \in S |-> s.u]
           next == [s \in S |-> IF s \in D THEN s ELSE EuclidTurn(s, mod)]
           m == [s \in S |-> EuclidMeasure(s)]
           G(g) == [s \in S |-> IF vli_cmp_unsafe(s.a, s.b) = 0 THEN s.u
                                ELSE g[EuclidTurn(s, mod)]]
           Result == CHOOSE g : g = G(g)
<1>0. Len(mod) = n
  BY LenOfVli DEF Vlis
<1>1. ASSUME NEW start PROVE Euclid(start, mod) = Result[start]
  BY <1>0 DEF Euclid, EuclidStates, Positive, Vlis
<1>2. ASSUME NEW s \in S PROVE vli_cmp_unsafe(s.a, s.b) = 0 <=> s.a = s.b
  <2>1. s.a \in Vlis(n) /\ s.b \in Vlis(n)
    BY DEF EuclidStates, Positive
  <2> QED BY <2>1, CmpUnsafeExact
<1>3. out \in [S -> A]
  BY DEF EuclidStates
<1>4. ASSUME NEW s \in S PROVE EuclidMeasure(s) \in Nat
  <2>1. s.a \in Positive(n) /\ s.b \in Positive(n)
    BY DEF EuclidStates
  <2>2. Value(s.a) \in Int /\ 0 < Value(s.a) /\ Value(s.b) \in Int /\ 0 < Value(s.b)
    BY <2>1, PositiveExact
  <2> QED BY <2>2 DEF EuclidMeasure
<1>5. m \in [S -> Nat]
  BY <1>4
<1>6. ASSUME NEW s \in S \ D
      PROVE  EuclidTurn(s, mod) \in S /\ EuclidMeasure(EuclidTurn(s, mod)) < EuclidMeasure(s)
  BY EuclidTurnExact DEF EuclidGoes
<1>7. next \in [S -> S]
  <2>1. \A s \in S \ D : EuclidTurn(s, mod) \in S
    BY <1>6
  <2> HIDE DEF S, D
  <2> QED BY <2>1
<1>8. \A s \in S \ D : m[next[s]] < m[s]
  <2>1. ASSUME NEW s \in S \ D PROVE m[next[s]] < m[s]
    <3> HIDE DEF S, D
    <3>1. s \in S /\ next[s] = EuclidTurn(s, mod)
      OBVIOUS
    <3> QED BY <1>6, <3>1
  <2> QED BY <2>1
<1>9. PICK f : Loops(f, S, A, D, out, next)
  <2>1. D \in SUBSET S
    OBVIOUS
  <2> HIDE DEF S, A, D, out, next, m
  <2> QED BY <1>3, <1>5, <1>7, <1>8, <2>1, LoopExists
<1>10. /\ f \in [S -> A]
       /\ \A s \in S : f[s] = IF s.a = s.b THEN s.u ELSE f[EuclidTurn(s, mod)]
  <2> HIDE DEF S
  <2> QED BY <1>9 DEF Loops
<1> HIDE DEF S, A
<1>11. f = G(f)
  <2>1. f = [s \in S |-> f[s]]
    BY <1>10
  <2>2. \A s \in S : f[s] = IF vli_cmp_unsafe(s.a, s.b) = 0 THEN s.u ELSE f[EuclidTurn(s, mod)]
    BY <1>2, <1>10
  <2> QED BY <2>1, <2>2
<1>12. Result = G(Result)
  <2> HIDE DEF G
  <2> QED BY <1>11
<1> HIDE DEF Result
<1>13. \A s \in S : Result[s] = IF s.a = s.b THEN s.u ELSE Result[EuclidTurn(s, mod)]
  BY <1>2, <1>12
<1> DEFINE Typed == {k \in Nat : \A s \in S : EuclidMeasure(s) < k => Result[s] \in A}
<1>14. Typed = Nat
  <2>1. 0 \in Typed
    BY <1>4
  <2>2. ASSUME NEW k \in Typed PROVE k + 1 \in Typed
    <3>1. ASSUME NEW s \in S, EuclidMeasure(s) < k + 1 PROVE Result[s] \in A
      <4>1. CASE s.a = s.b
        BY <1>13, <4>1 DEF S, A, EuclidStates
      <4>2. CASE s.a # s.b
        <5>1. s \in S \ D
          BY <4>2
        <5>2. EuclidTurn(s, mod) \in S /\ EuclidMeasure(EuclidTurn(s, mod)) < EuclidMeasure(s)
          BY <1>6, <5>1
        <5>3. EuclidMeasure(EuclidTurn(s, mod)) < k
          BY <1>4, <3>1, <5>2
        <5> QED BY <1>13, <4>2, <5>2, <5>3
      <4> QED BY <4>1, <4>2
    <3> QED BY <3>1
  <2> HIDE DEF Typed
  <2>3. Typed \in SUBSET Nat
    BY DEF Typed
  <2> QED BY <2>1, <2>2, <2>3, SetInduction
<1>15. \A s \in S : Result[s] \in A
  <2>1. ASSUME NEW s \in S PROVE Result[s] \in A
    <3>1. EuclidMeasure(s) + 1 \in Nat /\ EuclidMeasure(s) < EuclidMeasure(s) + 1
      BY <1>4
    <3> QED BY <1>14, <3>1
  <2> QED BY <2>1
<1>16. Result \in [S -> A]
  <2>1. Result = [s \in S |-> Result[s]]
    BY <1>12
  <2> QED BY <1>15, <2>1
<1>17. EuclidResult(Result, n, mod)
  BY <1>13, <1>16 DEF S, A, EuclidResult
<1> QED BY <1>1, <1>17

(* An inverse is exact, where there is one: where the modulus is odd and   *)
(* has no divisor in common with what is inverted.                         *)
LEMMA EuclidExact ==
  ASSUME NEW n \in Nat \ {0}, NEW mod \in Vlis(n), ~Even(mod), NEW x \in Int,
         NEW start \in EuclidStates(n), Coprime(x, Value(mod)),
         EuclidKept(start.a, start.b, start.u, start.v, x, Value(mod))
  PROVE  /\ Euclid(start, mod) \in Vlis(n) /\ Value(Euclid(start, mod)) < Value(mod)
         /\ Congruent(Value(Euclid(start, mod)) * x, 1, Value(mod))
<1> DEFINE M == Value(mod)
           S == EuclidStates(n)
           Good(w) == w \in Vlis(n) /\ Value(w) < M /\ Congruent(Value(w) * x, 1, M)
<1>1. PICK f : EuclidResult(f, n, mod) /\ \A t : Euclid(t, mod) = f[t]
  BY EuclidDefined
<1>2. PICK h \in Nat : M = 2 * h + 1
  <2>1. \E g \in Nat : M = 2 * g + (mod[1] % 2)
    BY EvenExact
  <2>2. mod[1] % 2 \in {0, 1}
    BY ShiftInExact
  <2>3. mod[1] % 2 = 1
    BY <2>2 DEF Even
  <2> QED BY <2>1, <2>3
<1>3. ASSUME NEW s \in S
      PROVE  /\ EuclidMeasure(s) \in Nat /\ Value(s.a) \in Nat
             /\ s.u \in Vlis(n) /\ Value(s.u) \in Int
  <2>1. s.a \in Positive(n) /\ s.b \in Positive(n) /\ s.u \in Vlis(n)
    BY DEF EuclidStates
  <2>2. Value(s.a) \in Int /\ 0 < Value(s.a) /\ Value(s.b) \in Int /\ 0 < Value(s.b)
    BY <2>1, PositiveExact
  <2>3. Value(s.u) \in Int
    BY <2>1, ValueBound
  <2> QED BY <2>1, <2>2, <2>3 DEF EuclidMeasure
<1> DEFINE Right == {k \in Nat : \A s \in S :
                       EuclidMeasure(s) < k /\ EuclidKept(s.a, s.b, s.u, s.v, x, M) => Good(f[s])}
<1>4. Right = Nat
  <2>1. 0 \in Right
    BY <1>3
  <2>2. ASSUME NEW k \in Right PROVE k + 1 \in Right
    <3>1. ASSUME NEW s \in S, EuclidMeasure(s) < k + 1, EuclidKept(s.a, s.b, s.u, s.v, x, M)
          PROVE  Good(f[s])
      <4>1. CASE s.a = s.b
        <5> DEFINE g == Value(s.a)
        <5>1. f[s] = s.u
          BY <1>1, <4>1 DEF EuclidResult
        <5>2. EuclidInv(g, g, Value(s.u), Value(s.v), x, M)
          BY <3>1, <4>1 DEF EuclidKept
        <5>3. g \in Nat /\ Value(s.u) \in Int /\ s.u \in Vlis(n)
          BY <1>3
        <5> HIDE DEF g
        <5>4. Divides(g, g)
          <6>1. 1 \in Int /\ g = g * 1
            BY <5>3
          <6> QED BY <6>1 DEF Divides
        <5>5. g = 1
          BY <5>2, <5>3, <5>4 DEF EuclidInv, Coprime
        <5>6. Value(s.u) \in 0..(M - 1) /\ Congruent(Value(s.u) * x, 1, M)
          BY <5>2, <5>5 DEF EuclidInv
        <5>7. Value(s.u) < M
          BY <1>2, <5>3, <5>6
        <5> QED BY <5>1, <5>3, <5>6, <5>7
      <4>2. CASE s.a # s.b
        <5> DEFINE t == EuclidTurn(s, mod)
        <5>1. EuclidGoes(s, t, n, mod)
          BY <4>2, EuclidTurnExact
        <5>2. f[s] = f[t]
          BY <1>1, <4>2 DEF EuclidResult
        <5> HIDE DEF t
        <5>3. t \in S /\ EuclidMeasure(t) < EuclidMeasure(s)
          BY <5>1 DEF EuclidGoes
        <5>4. EuclidKept(t.a, t.b, t.u, t.v, x, M)
          BY <1>2, <3>1, <5>1 DEF EuclidGoes
        <5>5. EuclidMeasure(t) < k
          BY <1>3, <3>1, <5>3
        <5> HIDE DEF S, M, Good
        <5> QED BY <5>2, <5>3, <5>4, <5>5
      <4> QED BY <4>1, <4>2
    <3> HIDE DEF S, M, Good
    <3> QED BY <3>1
  <2> HIDE DEF Right
  <2>3. Right \in SUBSET Nat
    BY DEF Right
  <2> QED BY <2>1, <2>2, <2>3, SetInduction
<1>5. Good(f[start])
  <2>1. EuclidMeasure(start) + 1 \in Nat /\ EuclidMeasure(start) < EuclidMeasure(start) + 1
    BY <1>3
  <2> HIDE DEF Good
  <2> QED BY <1>4, <2>1
<1> QED BY <1>1, <1>5

(* uECC_vli_modInv() is the inverse modulo mod, for every odd mod and      *)
(* every input that has one: binary Euclid ends, and keeps the carries and *)
(* borrows of u and v (uECC.c:681-742).                                    *)
THEOREM ModInvExact ==
  ASSUME NEW n \in Nat \ {0}, NEW mod \in Vlis(n), ~Even(mod), 1 < Value(mod),
         NEW input \in Vlis(n), 0 < Value(input), Value(input) < Value(mod),
         Coprime(Value(input), Value(mod))
  PROVE  /\ vli_modInv(input, mod) \in Vlis(n) /\ Value(vli_modInv(input, mod)) < Value(mod)
         /\ Congruent(Value(vli_modInv(input, mod)) * Value(input), 1, Value(mod))
<1> DEFINE start == [a |-> input, b |-> mod, u |-> Words(1, n), v |-> vli_clear(n)]
           M == Value(mod)
           x == Value(input)
<1>0. Len(mod) = n
  BY LenOfVli DEF Vlis
<1>1. /\ M \in Int /\ M < BaseTo(n) /\ x \in Int /\ BaseTo(n) \in Int
  BY ValueBound, BaseFacts
<1>2. ~vli_isZero(input) /\ input \in Positive(n) /\ mod \in Positive(n)
  BY <1>1, PositiveExact, ZeroExact
<1>3. Words(1, n) \in Vlis(n) /\ Value(Words(1, n)) = 1
  <2>1. 1 \in 0..(BaseTo(n) - 1)
    BY <1>1
  <2> QED BY <2>1, WordsOfValue
<1>4. vli_clear(n) \in Vlis(n) /\ Value(vli_clear(n)) = 0
  BY ZeroExact
<1>5. start \in EuclidStates(n)
  BY <1>2, <1>3, <1>4 DEF EuclidStates
<1>6. vli_modInv(input, mod) = Euclid(start, mod)
  BY <1>0, <1>2 DEF vli_modInv
<1>7. EuclidKept(start.a, start.b, start.u, start.v, x, M)
  <2> HIDE DEF x, M
  <2>1. 1 \in 0..(M - 1) /\ 0 \in 0..(M - 1)
    BY <1>1 DEF M
  <2>2. Congruent(1 * x, x, M)
    <3>1. 0 \in Int /\ 1 * x = x + 0 * M
      BY <1>1
    <3> QED BY <3>1 DEF Congruent
  <2>3. Congruent(0 * x, M, M)
    <3>1. -1 \in Int /\ 0 * x = M + (-1) * M
      BY <1>1
    <3> QED BY <3>1 DEF Congruent
  <2>4. EuclidInv(x, M, 1, 0, x, M)
    BY <2>1, <2>2, <2>3 DEF EuclidInv
  <2> QED BY <1>3, <1>4, <2>4 DEF EuclidKept, x, M
<1> HIDE DEF start
<1> QED BY <1>1, <1>5, <1>6, <1>7, EuclidExact

-----------------------------------------------------------------------------
(* Single bits, and sums with operands that are not reduced.               *)

(* The low bits of a number, and what is above the low bits of those.      *)
LEMMA LowBits ==
  ASSUME NEW b \in Nat \ {0}, NEW w \in Nat \ {0}, NEW x \in Int
  PROVE  (x % (b * w)) \div b = (x \div b) % w /\ (x % (b * w)) % b = x % b
<1>1. x % (b * w) = ((x \div b) % w) * b + (x % b)
  BY DivideTwice
<1>2. x \div b \in Int /\ x % b \in 0..(b - 1)
  BY Division
<1>3. (x \div b) % w \in Int
  BY <1>2, Division
<1> DEFINE q == (x \div b) % w
           r == x % b
<1> HIDE DEF q, r
<1>4. (q * b + r) \div b = q /\ (q * b + r) % b = r
  BY <1>2, <1>3, DivisionUnique DEF q, r
<1> QED BY <1>1, <1>4 DEF q, r

(* uECC_vli_testBit() tells whether that bit of the number is set          *)
(* (uECC.c:232-234).                                                       *)
THEOREM TestBitExact ==
  ASSUME NEW n \in Nat, NEW v \in Vlis(n), NEW bit \in 0..(n * WordBits - 1)
  PROVE  vli_testBit(v, bit) <=> (Value(v) \div Pow2[bit]) % 2 = 1
<1> DEFINE q == bit \div WordBits
           b == bit % WordBits
           V == Value(v)
           x == V \div BaseTo(q)
<1>1. WordBits \in Nat \ {0}
  BY BaseFacts
<1>2. q \in Int /\ b \in 0..(WordBits - 1) /\ bit = q * WordBits + b /\ q \in Nat
  <2>1. bit \in Nat /\ bit \in Int
    BY <1>1
  <2>2. /\ bit \div WordBits \in Int /\ bit % WordBits \in 0..(WordBits - 1)
        /\ bit = (bit \div WordBits) * WordBits + (bit % WordBits)
        /\ bit \in Nat => bit \div WordBits \in Nat
    BY <1>1, <2>1, Division
  <2> QED BY <2>1, <2>2
<1>3. q < n
  <2>1. bit < n * WordBits /\ n * WordBits \in Int
    BY <1>1
  <2>2. \A i, j \in Nat : \A w \in Nat \ {0} : j <= i => j * w <= i * w
    OBVIOUS
  <2>3. n <= q => n * WordBits <= q * WordBits
    BY <1>1, <1>2, <2>2
  <2>4. q * WordBits \in Int
    BY <1>1, <1>2
  <2> HIDE DEF q, b
  <2> QED BY <1>1, <1>2, <2>1, <2>3, <2>4
<1>4. V \in Int /\ 0 <= V /\ V < BaseTo(n)
  BY ValueBound
<1>5. BaseTo(q) \in Nat \ {0} /\ BaseTo(q) = Pow2[q * WordBits]
  <2>1. WordBits * q = q * WordBits
    BY <1>1, <1>2
  <2> QED BY <1>2, <2>1, BaseFacts DEF BaseTo
<1>6. v[1 + q] = x % Base
  <2>1. Words(V, n) = v
    BY WordsOfValue
  <2>2. 1 + q \in 1..n /\ (1 + q) - 1 = q
    BY <1>2, <1>3
  <2> HIDE DEF q, V
  <2>3. Words(V, n)[1 + q] = (V \div BaseTo((1 + q) - 1)) % Base
    BY <2>2 DEF Words
  <2> QED BY <2>1, <2>2, <2>3
<1>7. x \in Int
  BY <1>4, <1>5, Division
<1> HIDE DEF q, b, V, x
<1>8. Pow2[b] \in Nat \ {0} /\ Pow2[WordBits - 1 - b] \in Nat \ {0} /\ b \in Nat
  BY <1>1, <1>2, Pow2Defined
<1>9. Base = Pow2[b] * (2 * Pow2[WordBits - 1 - b])
  <2>1. WordBits - 1 - b \in Nat /\ (WordBits - 1 - b) + 1 = WordBits - b
        /\ WordBits - b \in Nat /\ b + (WordBits - b) = WordBits
    BY <1>1, <1>2
  <2>2. Pow2[WordBits - b] = 2 * Pow2[WordBits - 1 - b]
    BY <2>1, Pow2Defined
  <2>3. Pow2[b + (WordBits - b)] = Pow2[b] * Pow2[WordBits - b]
    BY <1>8, <2>1, Pow2Plus
  <2> QED BY <2>1, <2>2, <2>3 DEF Base
<1>10. (x % Base) \div Pow2[b] = (x \div Pow2[b]) % (2 * Pow2[WordBits - 1 - b])
  <2>1. 2 * Pow2[WordBits - 1 - b] \in Nat \ {0}
    BY <1>8
  <2> QED BY <1>7, <1>8, <1>9, <2>1, LowBits
<1>11. x \div Pow2[b] = V \div Pow2[bit] /\ V \div Pow2[bit] \in Int
  <2>1. V \div (BaseTo(q) * Pow2[b]) = x \div Pow2[b]
    BY <1>4, <1>5, <1>8, DivideTwice DEF x
  <2>2. BaseTo(q) * Pow2[b] = Pow2[bit]
    <3>1. q * WordBits \in Nat
      BY <1>1, <1>2
    <3> QED BY <1>2, <1>5, <1>8, <3>1, Pow2Plus
  <2>3. x \div Pow2[b] \in Int
    BY <1>7, <1>8, Division
  <2> QED BY <2>1, <2>2, <2>3
<1>12. ((x % Base) \div Pow2[b]) % 2 = (V \div Pow2[bit]) % 2
  <2> DEFINE y == V \div Pow2[bit]
  <2>1. y \in Int
    BY <1>11
  <2> HIDE DEF y
  <2>2. 2 \in Nat \ {0}
    OBVIOUS
  <2>3. (y % (2 * Pow2[WordBits - 1 - b])) % 2 = y % 2
    BY <1>8, <2>1, <2>2, LowBits
  <2> QED BY <1>10, <1>11, <2>3 DEF y
<1> QED BY <1>6, <1>12 DEF vli_testBit, q, b, V

(* The sum of any vli and a reduced one is right modulo mod, if not below  *)
(* it: uECC_sign_with_k_internal() adds to a hash it need not have reduced.*)
LEMMA ModAddCongruent ==
  ASSUME NEW n \in Nat, NEW left \in Vlis(n), NEW right \in Vlis(n), NEW mod \in Vlis(n),
         Value(right) < Value(mod)
  PROVE  /\ vli_modAdd(left, right, mod) \in Vlis(n)
         /\ Congruent(Value(vli_modAdd(left, right, mod)), Value(left) + Value(right), Value(mod))
<1> DEFINE sum == vli_add(left, right)
           less == vli_sub(sum.words, mod)
           L == Value(left)
           R == Value(right)
           M == Value(mod)
           B == BaseTo(n)
           y == vli_modAdd(left, right, mod)
<1>1. /\ L \in Int /\ 0 <= L /\ L < B /\ R \in Int /\ 0 <= R /\ M \in Int /\ M < B /\ B \in Int
  BY ValueBound
<1>2. sum.words \in Vlis(n) /\ sum.out \in {0, 1}
  BY AddExact
<1>3. /\ L + R < B => sum.out = 0 /\ Value(sum.words) = L + R
      /\ ~(L + R < B) => sum.out = 1 /\ Value(sum.words) = L + R - B
  BY AddCases
<1>4. vli_cmp_unsafe(mod, sum.words) # 1 <=> ~(Value(sum.words) < M)
  BY <1>2, CmpUnsafeExact
<1>5. /\ less.words \in Vlis(n)
      /\ M <= Value(sum.words) => Value(less.words) = Value(sum.words) - M
      /\ ~(M <= Value(sum.words)) => Value(less.words) = Value(sum.words) - M + B
  BY <1>2, SubCases, SubExact
<1>6. y = IF sum.out = 1 \/ vli_cmp_unsafe(mod, sum.words) # 1 THEN less.words ELSE sum.words
  BY DEF vli_modAdd
<1>7. Value(sum.words) \in Int
  BY <1>2, ValueBound
<1> HIDE DEF sum, less, L, R, M, B, y
<1>8. y \in Vlis(n)
  BY <1>2, <1>5, <1>6
<1>9. Value(y) = L + R \/ Value(y) = L + R - M
  <2>1. CASE L + R < B
    BY <1>1, <1>3, <1>4, <1>5, <1>6, <1>7, <2>1 DEF R, M
  <2>2. CASE ~(L + R < B)
    BY <1>1, <1>3, <1>4, <1>5, <1>6, <1>7, <2>2 DEF R, M
  <2> QED BY <2>1, <2>2
<1>10. Congruent(Value(y), L + R, M)
  <2>1. CASE Value(y) = L + R
    <3>1. 0 \in Int /\ L + R = L + R + 0 * M
      BY <1>1
    <3> QED BY <2>1, <3>1 DEF Congruent
  <2>2. CASE Value(y) = L + R - M
    <3>1. -1 \in Int /\ L + R - M = L + R + (-1) * M
      BY <1>1
    <3> QED BY <2>2, <3>1 DEF Congruent
  <2> QED BY <1>9, <2>1, <2>2
<1> QED BY <1>8, <1>10 DEF y, L, R, M

(* An inverse is a vli of the modulus's length, even where there is none.  *)
LEMMA ModInvTyped ==
  ASSUME NEW n \in Nat \ {0}, NEW mod \in Positive(n), NEW input \in Vlis(n)
  PROVE  vli_modInv(input, mod) \in Vlis(n)
<1> DEFINE start == [a |-> input, b |-> mod, u |-> Words(1, n), v |-> vli_clear(n)]
<1>0. mod \in Vlis(n) /\ Len(mod) = n
  BY LenOfVli DEF Positive, Vlis
<1>1. vli_clear(n) \in Vlis(n) /\ Words(1, n) \in Vlis(n)
  BY ZeroExact, WordsExact
<1>2. CASE vli_isZero(input)
  BY <1>0, <1>1, <1>2 DEF vli_modInv
<1>3. CASE ~vli_isZero(input)
  <2>1. start \in EuclidStates(n)
    BY <1>1, <1>3 DEF EuclidStates, Positive
  <2>2. PICK f : EuclidResult(f, n, mod) /\ \A t : Euclid(t, mod) = f[t]
    BY <1>0, EuclidDefined
  <2>3. vli_modInv(input, mod) = f[start]
    BY <1>0, <1>3, <2>2 DEF vli_modInv
  <2> QED BY <2>1, <2>2, <2>3 DEF EuclidResult
<1> QED BY <1>2, <1>3

=============================================================================
