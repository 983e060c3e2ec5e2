-------------------------------- MODULE Ecc --------------------------------
(***************************************************************************)
(* The curve operations of micro-ecc (uECC.c and the default functions of  *)
(* curve-specific.inc) on short curves y^2 = x^3 - 3x + b.                 *)
(*                                                                         *)
(* A curve c is a record of p, n, G, b, num_n_bits and num_words, as       *)
(* struct uECC_Curve_t; bytes and words per coordinate follow from them.   *)
(* Coordinates are integers below p: sums and products are taken modulo p  *)
(* directly, inverses through Vli.  What is computed modulo the order n    *)
(* (scalars, hashes, signatures) goes through the words of Vli.  A point   *)
(* is <<x, y>>, and <<0, 0>> is the point at infinity.                     *)
(***************************************************************************)
EXTENDS Vli

(* num_bytes is a field of its own in the code, and less than this for     *)
(* secp224r1 and secp160r1 with words of 8 bytes.                          *)
num_bytes(c) == c.num_words * WordBytes
n_bytes(c) == (c.num_n_bits + ByteBits - 1) \div ByteBits    \* BITS_TO_BYTES
ToWords(x, c) == Words(x, c.num_words)
Modulus(m, c) == ToWords(m, c)
modInv(x, m, c) == Value(vli_modInv(ToWords(x, c), Modulus(m, c)))

modMult_fast(x, y, c) == (x * y) % c.p

Points(c) == (0..(c.p - 1)) \X (0..(c.p - 1))
Infinity == <<0, 0>>
EccPoint_isZero(P) == P = Infinity
x_side(x, c) == ((x * x - 3) * x + c.b) % c.p

-----------------------------------------------------------------------------
(* <<x, y>> scaled by z: the same point, to the common denominator z.      *)
apply_z(P, z, c) ==
  LET z2 == (z * z) % c.p
  IN <<(P[1] * z2) % c.p, (P[2] * ((z2 * z) % c.p)) % c.p>>

(* Doubling of <<x, y, z>>, for a curve with a = -3.                       *)
double_jacobian(J, c) ==
  LET y2 == (J[2] * J[2]) % c.p
      A == (J[1] * y2) % c.p
      z2 == (J[3] * J[3]) % c.p
      trebled == (3 * (((J[1] + z2) * (J[1] - z2)) % c.p)) % c.p
      B == (IF trebled % 2 = 1 THEN trebled + c.p ELSE trebled) \div 2
      x3 == (B * B - 2 * A) % c.p
  IN IF J[3] = 0 THEN J
     ELSE <<x3, (B * (A - x3) - y2 * y2) % c.p, (J[2] * J[3]) % c.p>>

(* P => 2P and P' with a common z.                                         *)
XYcZ_initial_double(P, initial_Z, c) ==
  LET first == apply_z(P, initial_Z, c)
      twice == double_jacobian(<<first[1], first[2], initial_Z>>, c)
  IN [twice |-> <<twice[1], twice[2]>>, same |-> apply_z(P, twice[3], c)]

(* P and Q with a common z => P' and P + Q with a common z, and x' - x3.   *)
XYcZ_add(P, Q, c) ==
  LET A == ((Q[1] - P[1]) * (Q[1] - P[1])) % c.p
      B == (P[1] * A) % c.p
      C == (Q[1] * A) % c.p
      dy == (Q[2] - P[2]) % c.p
      x3 == (dy * dy - B - C) % c.p
      E == (P[2] * (C - B)) % c.p
  IN [same |-> <<B, E>>,
      sum |-> <<x3, (dy * (B - x3) - E) % c.p>>,
      sub |-> (B - x3) % c.p]

(* P, Q and x1 - x2 => P - Q and P + Q with a common z.                    *)
XYcZ_addC(P, Q, sub, c) ==
  LET A == (sub * sub) % c.p
      B == (P[1] * A) % c.p
      C == (Q[1] * A) % c.p
      E == (P[2] * (C - B)) % c.p
      dy == (Q[2] - P[2]) % c.p
      sy == (Q[2] + P[2]) % c.p
      x3 == (dy * dy - B - C) % c.p
      x4 == (sy * sy - B - C) % c.p
  IN [difference |-> <<x4, (sy * (x4 - B) - E) % c.p>>,
      sum |-> <<x3, (dy * (B - x3) - E) % c.p>>]

-----------------------------------------------------------------------------
(* EccPoint_mult(): the co-Z ladder.  R is <<R[0], R[1]>>, and bit tells   *)
(* which of the two takes the sum: nb is 0 where the bit of k is set.      *)
Pair(bit, taker, other) == IF bit THEN <<taker, other>> ELSE <<other, taker>>
CoZ(R, sub, bit, c) ==
  IF bit THEN XYcZ_addC(R[2], R[1], sub, c) ELSE XYcZ_addC(R[1], R[2], sub, c)

(* after[i] is what the turn for bit i leaves; the turns go down to bit 1. *)
Ladder(R, sub, scalar, num_bits, c) ==
  LET after[i \in 1..(num_bits - 1)] ==
        IF i = num_bits - 1 THEN [R |-> R, sub |-> sub]
        ELSE LET was == after[i + 1]
                 bit == vli_testBit(scalar, i)
                 co == CoZ(was.R, was.sub, bit, c)
                 next == XYcZ_add(co.sum, co.difference, c)
             IN [R |-> Pair(bit, next.same, next.sum), sub |-> next.sub]
  IN after[1]

(* The last bit, before whose addition 1 / Z is known without inverting a  *)
(* Z: it is xb yP / (xP yb (x1 - x0)).                                     *)
FinalZ(co, bit, point, c) ==
  LET R == Pair(bit, co.sum, co.difference)
      z == modMult_fast(modMult_fast(R[2][1] - R[1][1], co.difference[2], c), point[1], c)
  IN modMult_fast(modMult_fast(modInv(z, c.p, c), point[2], c), co.difference[1], c)
LastAddition(co, bit, point, c) ==
  LET last == XYcZ_add(co.sum, co.difference, c)
  IN apply_z(Pair(bit, last.same, last.sum)[1], FinalZ(co, bit, point, c), c)
LastBit(up, scalar, point, c) ==
  LET bit == vli_testBit(scalar, 0)
  IN LastAddition(CoZ(up.R, up.sub, bit, c), bit, point, c)
Started(start, scalar, num_bits, c) ==
  Ladder(<<start.same, start.twice>>, (start.same[1] - start.twice[1]) % c.p,
         scalar, num_bits, c)
EccPoint_mult(point, scalar, initial_Z, num_bits, c) ==
  LastBit(Started(XYcZ_initial_double(point, initial_Z, c), scalar, num_bits, c),
          scalar, point, c)

(* k + n or k + 2n, whichever has one bit more than n: the bit is the      *)
(* carry out of k + n, or a bit of its own if the words have room for it.  *)
regularize_kFits(k, c) ==     \* mutant: only the carry is looked at
  LET k0 == vli_add(k, Modulus(c.n, c))
  IN IF k0.out = 1 THEN k0.words ELSE vli_add(k0.words, Modulus(c.n, c)).words
regularize_k(k, c) ==
  LET k0 == vli_add(k, Modulus(c.n, c))
      carry == \/ k0.out = 1
               \/ /\ c.num_n_bits < c.num_words * WordBits
                  /\ vli_testBit(k0.words, c.num_n_bits)
  IN IF carry THEN k0.words ELSE vli_add(k0.words, Modulus(c.n, c)).words

(* How every caller multiplies: k is regularised, the ladder is one bit    *)
(* longer, and no initial Z means 1.                                       *)
NoZ == 1
RegularMult(P, k, initial_Z, c) ==
  EccPoint_mult(P, regularize_k(k, c), initial_Z, c.num_n_bits + 1, c)

-----------------------------------------------------------------------------
(* y = a^((p + 1) / 4), a square root of a if there is one.                *)
mod_sqrt(a, c) ==
  LET p1 == ToWords(c.p + 1, c)
      after[i \in 2..vli_numBits(p1)] ==
        IF i = vli_numBits(p1) THEN 1
        ELSE LET was == after[i + 1]
                 square == (was * was) % c.p
             IN IF vli_testBit(p1, i) THEN (square * a) % c.p ELSE square
  IN after[2]

uECC_compress(Q) == [parity |-> 2 + (Q[2] % 2), x |-> Q[1]]
uECC_decompress(z, c) ==
  LET y == mod_sqrt(x_side(z.x, c), c)
  IN <<z.x, IF y % 2 = z.parity % 2 THEN y ELSE c.p - y>>

uECC_valid_point(Q, c) ==
  /\ ~EccPoint_isZero(Q)
  /\ Q[1] < c.p /\ Q[2] < c.p
  /\ (Q[2] * Q[2]) % c.p = x_side(Q[1], c)

-----------------------------------------------------------------------------
(* The leftmost bits of a hash as a vli: cut to the bytes of n, shifted    *)
(* down if these have more bits than n, and only then reduced modulo n.    *)
ShiftedDown(vli, shift) ==
  [i \in 1..Len(vli) |->
     vli[i] \div Pow2[shift]
       + (IF i = Len(vli) THEN 0 ELSE vli[i + 1] % Pow2[shift]) * Pow2[WordBits - shift]]
Once(x, n) == IF vli_cmp_unsafe(n, x) # 1 THEN vli_sub(x, n).words ELSE x
bits2int(bits, c) ==
  LET kept == IF Len(bits) > n_bytes(c) THEN SubSeq(bits, 1, n_bytes(c)) ELSE bits
      native == bytesToNative(kept, c.num_words)
      excess == Len(kept) * ByteBits - c.num_n_bits
  IN IF excess <= 0 THEN native ELSE Once(ShiftedDown(native, excess), Modulus(c.n, c))

(* uECC_verify(): Shamir's trick.  J is <<rx, ry, z>>, T the point that    *)
(* the bits i of u1 and u2 select, and Infinity stands for no point.       *)
smax(a, b) == IF a > b THEN a ELSE b
Selected(u1, u2, i, Q, sum, c) ==
  LET b1 == vli_testBit(u1, i)
      b2 == vli_testBit(u2, i)
  IN CASE ~b1 /\ ~b2 -> Infinity
       [] b1 /\ ~b2 -> c.G
       [] ~b1 /\ b2 -> Q
       [] b1 /\ b2 -> sum
AddJacobian(J, T, c) ==
  LET t == apply_z(T, J[3], c)
      tz == (J[1] - t[1]) % c.p
      r == XYcZ_add(t, <<J[1], J[2]>>, c).sum
  IN <<r[1], r[2], (J[3] * tz) % c.p>>

(* The end of the loop: what uECC_verify() has before the last inversion.  *)
ShamirSum(u1, u2, num_bits, Q, sum, c) ==
  LET first == Selected(u1, u2, num_bits - 1, Q, sum, c)
      after[i \in 0..(num_bits - 1)] ==
        IF i = num_bits - 1 THEN <<first[1], first[2], 1>>
        ELSE LET was == after[i + 1]
                 twice == double_jacobian(was, c)
                 T == Selected(u1, u2, i, Q, sum, c)
             IN IF vli_testBit(u1, i) \/ vli_testBit(u2, i)
                THEN AddJacobian(twice, T, c) ELSE twice
  IN after[0]
TwoMultiples(u1, u2, Q, sum, c) ==
  ShamirSum(u1, u2, smax(vli_numBits(u1), vli_numBits(u2)), Q, sum, c)
GPlus(Q, c) ==
  apply_z(XYcZ_add(c.G, Q, c).sum, modInv((Q[1] - c.G[1]) % c.p, c.p, c), c)
WithInverse(inverse, Q, e, r, n, c) ==
  TwoMultiples(vli_modMult(e, inverse, n), vli_modMult(r, inverse, n), Q, GPlus(Q, c), c)
VerifySum(Q, e, r, s, c) ==
  WithInverse(vli_modInv(s, Modulus(c.n, c)), Q, e, r, Modulus(c.n, c), c)

InRange(r, c) == ~vli_isZero(r) /\ vli_cmp_unsafe(Modulus(c.n, c), r) = 1
AffineX(J, c) == ToWords(apply_z(<<J[1], J[2]>>, modInv(J[3], c.p, c), c)[1], c)
uECC_verifyLoose(Q, e, r, s, c) ==    \* mutant: x is not reduced modulo n
  /\ InRange(r, c) /\ InRange(s, c)
  /\ vli_equal(AffineX(VerifySum(Q, e, r, s, c), c), r)
uECC_verify(Q, e, r, s, c) ==
  /\ InRange(r, c) /\ InRange(s, c)
  /\ vli_equal(Once(AffineX(VerifySum(Q, e, r, s, c), c), Modulus(c.n, c)), r)

=============================================================================
