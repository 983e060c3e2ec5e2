----------------------------- MODULE CurveGroup -----------------------------
(***************************************************************************)
(* What the curve operations are for, in textbook form: the affine group   *)
(* law of y^2 = x^3 - 3x + b over the integers modulo p, multiples of a    *)
(* point, and valid ECDSA signatures.  Nothing here comes from the code.   *)
(***************************************************************************)
EXTENDS Integers

Zero == <<0, 0>>
InverseMod(x, m) == CHOOSE i \in 0..(m - 1) : (i * x) % m = 1

Plus(A, B, c) ==
  LET slope == IF A = B
               THEN (3 * A[1] * A[1] - 3) * InverseMod(2 * A[2], c.p)
               ELSE (B[2] - A[2]) * InverseMod((B[1] - A[1]) % c.p, c.p)
      l == slope % c.p
      x == (l * l - A[1] - B[1]) % c.p
  IN CASE A = Zero -> B
       [] A # Zero /\ B = Zero -> A
       [] A # Zero /\ B # Zero /\ A[1] = B[1] /\ (A[2] + B[2]) % c.p = 0 -> Zero
       [] OTHER -> <<x, (l * (A[1] - x) - A[2]) % c.p>>

Multiple(i, A, c) ==
  LET multiple[j \in Nat] ==
        IF j = 0 THEN Zero
        ELSE LET half == multiple[j \div 2]
                 even == Plus(half, half, c)
             IN IF j % 2 = 1 THEN Plus(A, even, c) ELSE even
  IN multiple[i]

ValidSignature(Q, e, r, s, c) ==
  /\ r \in 1..(c.n - 1) /\ s \in 1..(c.n - 1)
  /\ LET w == InverseMod(s, c.n)
         R == Plus(Multiple((e * w) % c.n, c.G, c), Multiple((r * w) % c.n, Q, c), c)
     IN R # Zero /\ R[1] % c.n = r

=============================================================================
