------------------------------- MODULE Recursion -------------------------------
(***************************************************************************)
(* Induction and recursion for the proofs of this project, stated of sets  *)
(* and functions, so that each use names the set the induction is about:   *)
(* the facts about loops and recursive functions need no operator as a     *)
(* parameter.  Last, what the recursive function Pow2 is.  Nothing here is *)
(* about the code.                                                         *)
(*                                                                         *)
(* f[x \in S] == e defines f as some function that satisfies its equation, *)
(* so a fact about f rests on there being one.  Follows, FollowsUpTo,      *)
(* FollowsDown and Loops say that f computes what a recursion or a loop    *)
(* computes, and the lemmas below them that such an f exists.              *)
(***************************************************************************)
EXTENDS Powers, FiniteSetTheorems, WellFoundedInduction, TLAPS

(* A set of natural numbers has a least element: an interval 0..(n-1) that *)
(* is least in the order of finite sets.                                   *)
LEMMA LeastNatural ==
  ASSUME NEW S \in SUBSET Nat, S # {}
  PROVE  \E m \in S : \A k \in S : m <= k
  <1> DEFINE T == {0..(n - 1) : n \in S}
  <1>1. IsWellFoundedOn(StrictSubsetOrdering(Nat), FiniteSubsetsOf(Nat))
    BY FS_StrictSubsetOrderingWellFounded
  <1>2. T \subseteq FiniteSubsetsOf(Nat)
    <2>1. ASSUME NEW n \in S PROVE 0..(n - 1) \in SUBSET Nat /\ IsFiniteSet(0..(n - 1))
      BY FS_Interval, <2>1
    <2> QED BY <2>1 DEF FiniteSubsetsOf
  <1>3. T # {}
    OBVIOUS
  <1> HIDE DEF T
  <1>4. PICK x \in T : \A y \in T : ~(<<y, x>> \in StrictSubsetOrdering(Nat))
    BY <1>1, <1>2, <1>3, WFMin
  <1> USE DEF T
  <1>5. PICK m \in S : x = 0..(m - 1)
    OBVIOUS
  <1>6. ASSUME NEW k \in S, k < m PROVE FALSE
    <2>1. 0..(k - 1) \in T /\ 0..(k - 1) \in SUBSET Nat /\ x \in SUBSET Nat
      BY <1>5
    <2>2. 0..(k - 1) \subseteq x
      BY <1>5, <1>6
    <2>3. k \in x /\ k \notin 0..(k - 1)
      BY <1>5, <1>6
    <2>4. <<0..(k - 1), x>> \in StrictSubsetOrdering(Nat)
      BY <2>1, <2>2, <2>3 DEF StrictSubsetOrdering
    <2> QED BY <2>1, <2>4, <1>4
  <1> QED BY <1>6

(* Induction over the natural numbers, as a fact about sets of them.       *)
LEMMA SetInduction ==
  ASSUME NEW S \in SUBSET Nat, 0 \in S, \A n \in S : n + 1 \in S
  PROVE  S = Nat
  <1>1. ASSUME Nat \ S # {} PROVE FALSE
    <2>1. PICK m \in Nat \ S : \A k \in Nat \ S : m <= k
      BY <1>1, LeastNatural
    <2>2. m - 1 \in Nat \ S
      BY <2>1
    <2> QED BY <2>1, <2>2
  <1> QED BY <1>1

(* And on an interval, for loops that count up to N.                       *)
LEMMA IntervalInduction ==
  ASSUME NEW N \in Nat, NEW S, 0 \in S, \A n \in 0..(N - 1) : n \in S => n + 1 \in S
  PROVE  0..N \subseteq S
  <1> DEFINE T == {n \in Nat : n <= N => n \in S}
  <1>1. T = Nat
    <2>1. 0 \in T /\ \A n \in T : n + 1 \in T
      OBVIOUS
    <2> HIDE DEF T
    <2>2. T \in SUBSET Nat
      BY DEF T
    <2> QED BY <2>1, <2>2, SetInduction
  <1> QED BY <1>1

(* A sequence of values each of which is computed from the one before      *)
(* exists, and has the type of its steps.                                  *)
Follows(f, A, a, step) ==
  f \in [Nat -> A] /\ f[0] = a /\ \A n \in Nat : f[n + 1] = step[n][f[n]]
LEMMA RecursionExists ==
  ASSUME NEW A, NEW a \in A, NEW step \in [Nat -> [A -> A]]
  PROVE  \E f : Follows(f, A, a, step)
  <1> DEFINE Good(n, g) == /\ g \in [0..n -> A] /\ g[0] = a
                           /\ \A i \in 0..(n - 1) : g[i + 1] = step[i][g[i]]
             S == {n \in Nat : \E g \in [0..n -> A] : Good(n, g)}
  <1>1. S = Nat
    <2>1. 0 \in S
      <3>1. [i \in 0..0 |-> a] \in [0..0 -> A] /\ Good(0, [i \in 0..0 |-> a])
        OBVIOUS
      <3> QED BY <3>1
    <2>2. ASSUME NEW n \in S PROVE n + 1 \in S
      <3>1. PICK g \in [0..n -> A] : Good(n, g)
        OBVIOUS
      <3> DEFINE h == [i \in 0..(n + 1) |-> IF i <= n THEN g[i] ELSE step[n][g[n]]]
      <3>2. n \in Nat /\ g[n] \in A /\ step[n][g[n]] \in A
        BY <3>1
      <3>3. h \in [0..(n + 1) -> A]
        BY <3>1, <3>2
      <3>4. Good(n + 1, h)
        <4>1. h[0] = a
          BY <3>1, <3>2
        <4>2. ASSUME NEW i \in 0..n PROVE h[i + 1] = step[i][h[i]]
          <5>1. CASE i = n
            BY <3>2, <5>1
          <5>2. CASE i # n
            <6>1. i \in 0..(n - 1) /\ i + 1 \in 0..n
              BY <3>2, <5>2
            <6> QED BY <3>1, <3>2, <6>1
          <5> QED BY <5>1, <5>2
        <4>3. 0..((n + 1) - 1) = 0..n
          BY <3>2
        <4> HIDE DEF h
        <4> QED BY <3>3, <4>1, <4>2, <4>3
      <3> HIDE DEF h, Good
      <3>5. \E k \in [0..(n + 1) -> A] : Good(n + 1, k)
        BY <3>3, <3>4
      <3>6. n + 1 \in Nat
        BY <3>2
      <3> QED BY <3>5, <3>6
    <2> HIDE DEF S
    <2>3. S \in SUBSET Nat
      BY DEF S
    <2> QED BY <2>1, <2>2, <2>3, SetInduction
  <1>2. ASSUME NEW n \in Nat, NEW m \in Nat, NEW g, NEW h, Good(n, g), Good(m, h), n <= m
        PROVE  \A i \in 0..n : g[i] = h[i]
    <2> DEFINE E == {i \in 0..n : g[i] = h[i]}
    <2>1. 0 \in E
      BY <1>2
    <2>2. ASSUME NEW i \in 0..(n - 1), i \in E PROVE i + 1 \in E
      BY <1>2, <2>2
    <2> HIDE DEF E
    <2>3. 0..n \subseteq E
      BY <2>1, <2>2, IntervalInduction
    <2> QED BY <2>3 DEF E
  <1> DEFINE G(n) == CHOOSE g \in [0..n -> A] : Good(n, g)
             f == [n \in Nat |-> G(n)[n]]
  <1>3. ASSUME NEW n \in Nat PROVE Good(n, G(n))
    <2>1. \E g \in [0..n -> A] : Good(n, g)
      BY <1>1
    <2> QED BY <2>1
  <1> HIDE DEF G, Good
  <1>4. f \in [Nat -> A]
    <2>1. ASSUME NEW n \in Nat PROVE G(n)[n] \in A
      BY <1>3 DEF Good
    <2> QED BY <2>1
  <1>5. f[0] = a
    BY <1>3 DEF Good
  <1>6. ASSUME NEW n \in Nat PROVE f[n + 1] = step[n][f[n]]
    <2>1. G(n)[n] = G(n + 1)[n]
      <3>1. \A i \in 0..n : G(n)[i] = G(n + 1)[i]
        BY <1>2, <1>3
      <3> QED BY <3>1
    <2>2. G(n + 1)[n + 1] = step[n][G(n + 1)[n]]
      BY <1>3 DEF Good
    <2> QED BY <2>1, <2>2
  <1> HIDE DEF f
  <1>7. Follows(f, A, a, step)
    BY <1>4, <1>5, <1>6 DEF Follows
  <1> QED BY <1>7

(* The same for a recursive function on 0..N, as LET defines one.          *)
FollowsUpTo(f, N, A, a, step) ==
  /\ f \in [0..N -> A]
  /\ f = [i \in 0..N |-> IF i = 0 THEN a ELSE step[i - 1][f[i - 1]]]
LEMMA FiniteRecursionExists ==
  ASSUME NEW N \in Nat, NEW A, NEW a \in A, NEW step \in [0..(N - 1) -> [A -> A]]
  PROVE  \E f : FollowsUpTo(f, N, A, a, step)
  <1> DEFINE all == [n \in Nat |-> IF n < N THEN step[n] ELSE [x \in A |-> x]]
  <1>0. all \in [Nat -> [A -> A]] /\ \A n \in 0..(N - 1) : all[n] = step[n]
    OBVIOUS
  <1> HIDE DEF all
  <1>1. PICK g : Follows(g, A, a, all)
    BY <1>0, RecursionExists
  <1> DEFINE f == [i \in 0..N |-> g[i]]
  <1>2. f \in [0..N -> A]
    BY <1>1 DEF Follows
  <1>3. ASSUME NEW i \in 0..N
        PROVE  f[i] = IF i = 0 THEN a ELSE step[i - 1][f[i - 1]]
    <2>1. CASE i = 0
      BY <1>1, <2>1 DEF Follows
    <2>2. CASE i # 0
      <3>1. i - 1 \in 0..N /\ i - 1 \in 0..(N - 1) /\ i - 1 \in Nat /\ (i - 1) + 1 = i
        BY <2>2
      <3>2. g[(i - 1) + 1] = all[i - 1][g[i - 1]]
        BY <1>1, <3>1 DEF Follows
      <3> QED BY <1>0, <2>2, <3>1, <3>2
    <2> QED BY <2>1, <2>2
  <1>4. f = [i \in 0..N |-> f[i]]
    OBVIOUS
  <1> HIDE DEF f
  <1>5. f = [i \in 0..N |-> IF i = 0 THEN a ELSE step[i - 1][f[i - 1]]]
    BY <1>3, <1>4
  <1> QED BY <1>2, <1>5 DEF FollowsUpTo

(* The same for a recursion that goes down from N to 1.                    *)
FollowsDown(f, N, A, a, step) ==
  /\ f \in [1..N -> A]
  /\ f = [i \in 1..N |-> IF i = N THEN a ELSE step[i][f[i + 1]]]
LEMMA DescendingRecursionExists ==
  ASSUME NEW N \in Nat, NEW A, NEW a \in A, NEW step \in [1..(N - 1) -> [A -> A]]
  PROVE  \E f : FollowsDown(f, N, A, a, step)
  <1> DEFINE up == [j \in 0..(N - 1) |-> IF j < N - 1 THEN step[N - 1 - j] ELSE [x \in A |-> x]]
  <1>0. up \in [0..(N - 1) -> [A -> A]] /\ \A i \in 1..(N - 1) : up[(N - i) - 1] = step[i]
    <2>1. ASSUME NEW j \in 0..(N - 1), j < N - 1 PROVE N - 1 - j \in 1..(N - 1)
      BY <2>1
    <2>2. ASSUME NEW i \in 1..(N - 1)
          PROVE  /\ (N - i) - 1 \in 0..(N - 1) /\ (N - i) - 1 < N - 1
                 /\ N - 1 - ((N - i) - 1) = i
      OBVIOUS
    <2>3. up \in [0..(N - 1) -> [A -> A]]
      BY <2>1
    <2> QED BY <2>2, <2>3
  <1> HIDE DEF up
  <1>1. PICK g : FollowsUpTo(g, N, A, a, up)
    BY <1>0, FiniteRecursionExists
  <1> DEFINE f == [i \in 1..N |-> g[N - i]]
  <1>2. ASSUME NEW i \in 1..N PROVE f[i] = g[N - i] /\ f[i] \in A
    <2>1. N - i \in 0..N
      OBVIOUS
    <2>2. g \in [0..N -> A]
      BY <1>1 DEF FollowsUpTo
    <2> QED BY <2>1, <2>2
  <1>3. ASSUME NEW i \in 1..N PROVE f[i] = IF i = N THEN a ELSE step[i][f[i + 1]]
    <2>1. CASE i = N
      <3>1. N - i = 0 /\ 0 \in 0..N
        BY <2>1
      <3> QED BY <1>1, <2>1, <3>1 DEF FollowsUpTo
    <2>2. CASE i # N
      <3>1. /\ N - i \in 0..N /\ N - i # 0 /\ i \in 1..(N - 1)
            /\ i + 1 \in 1..N /\ N - (i + 1) = (N - i) - 1
        BY <2>2
      <3>2. g[N - i] = up[(N - i) - 1][g[(N - i) - 1]]
        BY <1>1, <3>1 DEF FollowsUpTo
      <3> QED BY <1>0, <1>2, <2>2, <3>1, <3>2
    <2> QED BY <2>1, <2>2
  <1>4. f \in [1..N -> A] /\ f = [i \in 1..N |-> f[i]]
    BY <1>2
  <1> HIDE DEF f
  <1>5. f = [i \in 1..N |-> IF i = N THEN a ELSE step[i][f[i + 1]]]
    BY <1>3, <1>4
  <1> QED BY <1>4, <1>5 DEF FollowsDown

(* So does the result of a loop: D are the states in which it stops, and   *)
(* m is a measure that falls in each of its turns.                         *)
Loops(f, S, A, D, out, next) ==
  f \in [S -> A] /\ \A s \in S : f[s] = IF s \in D THEN out[s] ELSE f[next[s]]
LEMMA LoopExists ==
  ASSUME NEW S, NEW A, NEW D \in SUBSET S, NEW out \in [S -> A], NEW next \in [S -> S],
         NEW m \in [S -> Nat], \A s \in S \ D : m[next[s]] < m[s]
  PROVE  \E f : Loops(f, S, A, D, out, next)
  <1> DEFINE Turn(g) == [s \in S |-> IF s \in D THEN out[s] ELSE g[next[s]]]
             turn == [n \in Nat |-> [g \in [S -> A] |-> Turn(g)]]
  <1>1. turn \in [Nat -> [[S -> A] -> [S -> A]]]
    OBVIOUS
  <1>2. ASSUME NEW n \in Nat, NEW g \in [S -> A] PROVE turn[n][g] = Turn(g)
    OBVIOUS
  <1> DEFINE B == [S -> A]
  <1>3. PICK F : Follows(F, B, out, turn)
    <2>1. out \in B /\ turn \in [Nat -> [B -> B]]
      BY <1>1
    <2> HIDE DEF B, turn
    <2> QED BY <2>1, RecursionExists
  <1>4. F \in [Nat -> [S -> A]] /\ F[0] = out
    BY <1>3 DEF Follows
  <1>5. ASSUME NEW n \in Nat PROVE F[n + 1] = Turn(F[n])
    <2>1. F[n] \in [S -> A] /\ F[n + 1] = turn[n][F[n]]
      BY <1>3, <1>4 DEF Follows
    <2> HIDE DEF turn
    <2> QED BY <1>2, <2>1
  <1> HIDE DEF turn, B
  <1>6. ASSUME NEW n \in Nat, NEW s \in S
        PROVE  F[n + 1][s] = IF s \in D THEN out[s] ELSE F[n][next[s]]
    BY <1>5, <1>4
  <1> HIDE DEF Turn
  <1> DEFINE Stable == {n \in Nat : \A s \in S : m[s] <= n => F[n + 1][s] = F[n][s]}
  <1>7. Stable = Nat
    <2>1. 0 \in Stable
      <3>1. ASSUME NEW s \in S, m[s] <= 0 PROVE F[0 + 1][s] = F[0][s]
        BY <1>6, <1>4, <3>1
      <3> QED BY <3>1
    <2>2. ASSUME NEW n \in Stable PROVE n + 1 \in Stable
      <3>1. ASSUME NEW s \in S, m[s] <= n + 1 PROVE F[(n + 1) + 1][s] = F[n + 1][s]
        <4>1. CASE s \in D
          BY <1>6, <4>1
        <4>2. CASE s \notin D
          <5>1. next[s] \in S /\ m[next[s]] <= n
            BY <3>1, <4>2
          <5>2. F[n + 1][next[s]] = F[n][next[s]]
            BY <5>1
          <5> QED BY <1>6, <4>2, <5>2
        <4> QED BY <4>1, <4>2
      <3> QED BY <3>1
    <2> HIDE DEF Stable
    <2>3. Stable \in SUBSET Nat
      BY DEF Stable
    <2> QED BY <2>1, <2>2, <2>3, SetInduction
  <1>8. ASSUME NEW s \in S, NEW k \in Nat PROVE F[m[s] + k][s] = F[m[s]][s]
    <2> DEFINE E == {j \in Nat : F[m[s] + j][s] = F[m[s]][s]}
    <2>1. 0 \in E
      OBVIOUS
    <2>2. ASSUME NEW j \in E PROVE j + 1 \in E
      <3>1. m[s] + j \in Stable /\ m[s] <= m[s] + j
        BY <1>7
      <3>2. F[(m[s] + j) + 1][s] = F[m[s] + j][s]
        BY <3>1
      <3>3. (m[s] + j) + 1 = m[s] + (j + 1)
        OBVIOUS
      <3> QED BY <3>2, <3>3
    <2> HIDE DEF E
    <2>3. E = Nat
      <3>1. E \in SUBSET Nat
        BY DEF E
      <3> QED BY <2>1, <2>2, <3>1, SetInduction
    <2> QED BY <2>3 DEF E
  <1> HIDE DEF Stable
  <1> DEFINE f == [s \in S |-> F[m[s]][s]]
  <1>9. f \in [S -> A]
    BY <1>4
  <1>10. ASSUME NEW s \in S PROVE f[s] = IF s \in D THEN out[s] ELSE f[next[s]]
    <2>1. CASE s \in D
      <3>1. CASE m[s] = 0
        BY <1>4, <2>1, <3>1
      <3>2. CASE m[s] # 0
        <4>1. m[s] - 1 \in Nat /\ (m[s] - 1) + 1 = m[s]
          BY <3>2
        <4>2. F[(m[s] - 1) + 1][s] = out[s]
          BY <1>6, <2>1, <4>1
        <4> QED BY <2>1, <4>1, <4>2
      <3> QED BY <3>1, <3>2
    <2>2. CASE s \notin D
      <3> DEFINE k == m[s] - 1 - m[next[s]]
      <3>1. next[s] \in S /\ k \in Nat /\ m[next[s]] \in Nat
        BY <2>2
      <3>2. m[next[s]] + k \in Nat /\ (m[next[s]] + k) + 1 = m[s]
        BY <2>2
      <3> HIDE DEF k
      <3>3. F[m[s]][s] = F[m[next[s]] + k][next[s]]
        BY <1>6, <2>2, <3>2
      <3>4. F[m[s]][s] = F[m[next[s]]][next[s]]
        BY <1>8, <3>1, <3>3
      <3> QED BY <2>2, <3>1, <3>4
    <2> QED BY <2>1, <2>2
  <1> HIDE DEF f
  <1>11. Loops(f, S, A, D, out, next)
    BY <1>9, <1>10 DEF Loops
  <1> QED BY <1>11

-----------------------------------------------------------------------------
(* The powers of two: Pow2 satisfies its own equation.                     *)
LEMMA Pow2Defined ==
  /\ Pow2 \in [Nat -> Nat \ {0}]
  /\ Pow2[0] = 1
  /\ \A n \in Nat : Pow2[n + 1] = 2 * Pow2[n]
  <1> DEFINE A == Nat \ {0}
             step == [n \in Nat |-> [x \in A |-> 2 * x]]
             F(g) == [n \in Nat |-> IF n = 0 THEN 1 ELSE 2 * g[n - 1]]
  <1>1. step \in [Nat -> [A -> A]] /\ 1 \in A
    OBVIOUS
  <1>2. PICK f : Follows(f, A, 1, step)
    <2> HIDE DEF A, step
    <2> QED BY <1>1, RecursionExists
  <1>3. f = F(f)
    <2>1. f \in [Nat -> A] /\ f[0] = 1
      BY <1>2 DEF Follows
    <2>2. ASSUME NEW n \in Nat PROVE f[n + 1] = 2 * f[n]
      BY <1>2, <2>1 DEF Follows
    <2>3. ASSUME NEW n \in Nat, n # 0 PROVE f[n] = 2 * f[n - 1]
      <3>1. n - 1 \in Nat /\ (n - 1) + 1 = n
        BY <2>3
      <3> QED BY <2>2, <3>1
    <2> QED BY <2>1, <2>3
  <1>4. Pow2 = F(Pow2)
    <2>1. Pow2 = CHOOSE g : g = F(g)
      BY DEF Pow2
    <2> HIDE DEF F
    <2> QED BY <1>3, <2>1
  <1>5. Pow2[0] = 1 /\ \A n \in Nat : Pow2[n + 1] = 2 * Pow2[n]
    <2>1. \A n \in Nat : Pow2[n] = IF n = 0 THEN 1 ELSE 2 * Pow2[n - 1]
      BY <1>4
    <2> QED BY <2>1
  <1> DEFINE S == {n \in Nat : Pow2[n] \in A}
  <1>6. S = Nat
    <2>1. 0 \in S /\ \A n \in S : n + 1 \in S
      BY <1>5
    <2> HIDE DEF S
    <2>2. S \in SUBSET Nat
      BY DEF S
    <2> QED BY <2>1, <2>2, SetInduction
  <1>7. Pow2 \in [Nat -> A]
    <2>1. \A n \in Nat : Pow2[n] \in A
      BY <1>6
    <2> HIDE DEF A
    <2>2. Pow2 = [n \in Nat |-> Pow2[n]]
      BY <1>4
    <2> QED BY <2>1, <2>2
  <1> QED BY <1>5, <1>7

(* A sum of exponents is a product of powers.                              *)
LEMMA Pow2Plus ==
  ASSUME NEW m \in Nat, NEW n \in Nat
  PROVE  Pow2[m + n] = Pow2[m] * Pow2[n]
  <1> DEFINE S == {j \in Nat : Pow2[m + j] = Pow2[m] * Pow2[j]}
  <1>0. Pow2[m] \in Nat
    BY Pow2Defined
  <1>1. 0 \in S
    BY <1>0, Pow2Defined
  <1>2. ASSUME NEW j \in S PROVE j + 1 \in S
    <2>1. j \in Nat /\ m + j \in Nat /\ (m + j) + 1 = m + (j + 1) /\ Pow2[j] \in Nat
      BY Pow2Defined
    <2>2. Pow2[m + (j + 1)] = 2 * (Pow2[m] * Pow2[j])
      BY <2>1, Pow2Defined
    <2>3. Pow2[j + 1] = 2 * Pow2[j]
      BY <2>1, Pow2Defined
    <2> QED BY <1>0, <2>1, <2>2, <2>3
  <1> HIDE DEF S
  <1>3. S = Nat
    <2>1. S \in SUBSET Nat
      BY DEF S
    <2> QED BY <1>1, <1>2, <2>1, SetInduction
  <1> QED BY <1>3 DEF S

(* Powers grow, by a factor of two at least.                               *)
LEMMA Pow2Less ==
  ASSUME NEW m \in Nat, NEW n \in Nat, m < n
  PROVE  2 * Pow2[m] <= Pow2[n]
  <1>1. PICK j \in Nat : n = (m + 1) + j
    <2>1. n - (m + 1) \in Nat /\ n = (m + 1) + (n - (m + 1))
      OBVIOUS
    <2> QED BY <2>1
  <1>2. Pow2[n] = (2 * Pow2[m]) * Pow2[j]
    BY <1>1, Pow2Plus, Pow2Defined
  <1>3. Pow2[m] \in Nat /\ Pow2[j] \in Nat \ {0}
    BY Pow2Defined
  <1> DEFINE x == 2 * Pow2[m]
             y == Pow2[j]
  <1>4. x \in Nat /\ y \in Nat \ {0} /\ Pow2[n] = x * y
    BY <1>2, <1>3
  <1> HIDE DEF x, y
  <1>5. x <= x * y
    BY <1>4
  <1> QED BY <1>4, <1>5 DEF x

=============================================================================
