-------------------------------- MODULE Vli --------------------------------
(***************************************************************************)
(* The arithmetic of micro-ecc on integers of several words (uECC.c, the   *)
(* portable C versions).  A vli is a sequence of words, the least          *)
(* significant word first; the width of a word is a constant.  Carries and *)
(* borrows wrap at the width of a word, as uECC_word_t does.               *)
(*                                                                         *)
(* A loop that carries something from turn to turn is a recursive function *)
(* on its turns: f[0] is what it starts with and f[i] what turn i leaves.  *)
(***************************************************************************)
EXTENDS Powers, Sequences

CONSTANTS
  ByteBits,    \* the bits of a byte
  WordBytes    \* uECC_WORD_SIZE

ASSUME VliAssumption == ByteBits \in Nat \ {0} /\ WordBytes \in Nat \ {0}

WordBits == ByteBits * WordBytes      \* uECC_WORD_BITS
Base == Pow2[WordBits]
Word == 0..(Base - 1)                 \* uECC_word_t
Bool(b) == IF b THEN 1 ELSE 0

(* The integer a vli stands for, and the vli of n words for an integer.    *)
BaseTo(i) == Pow2[WordBits * i]
Value(vli) ==
  LET below[i \in 0..Len(vli)] ==
        IF i = 0 THEN 0 ELSE below[i - 1] + vli[i] * BaseTo(i - 1)
  IN below[Len(vli)]
Words(x, n) == [i \in 1..n |-> (x \div BaseTo(i - 1)) % Base]

-----------------------------------------------------------------------------
vli_clear(n) == [i \in 1..n |-> 0]
vli_isZero(vli) == \A i \in DOMAIN vli : vli[i] = 0
vli_testBit(vli, bit) == (vli[1 + bit \div WordBits] \div Pow2[bit % WordBits]) % 2 = 1

(* The words up to the last one that is not 0, and the bits of a word.     *)
vli_numDigits(vli) ==
  CHOOSE n \in 0..Len(vli) :
    (n = 0 \/ vli[n] # 0) /\ \A i \in (n + 1)..Len(vli) : vli[i] = 0
DigitBits(digit) ==
  CHOOSE b \in 0..WordBits : digit < Pow2[b] /\ (b = 0 \/ Pow2[b - 1] <= digit)
vli_numBits(vli) ==
  LET num_digits == vli_numDigits(vli)
  IN IF num_digits = 0 THEN 0
     ELSE (num_digits - 1) * WordBits + DigitBits(vli[num_digits])

(* The words of the result, and what is carried or borrowed out of the     *)
(* last one.  The carry of a word is kept when the word has not changed.   *)
vli_addCarryLost(left, right) ==  \* mutant: only sum < left carries
  LET turn[i \in 0..Len(left)] ==
        IF i = 0 THEN [words |-> <<>>, out |-> 0]
        ELSE LET was == turn[i - 1]
                 sum == (left[i] + right[i] + was.out) % Base
             IN [words |-> Append(was.words, sum), out |-> Bool(sum < left[i])]
  IN turn[Len(left)]
vli_add(left, right) ==
  LET turn[i \in 0..Len(left)] ==
        IF i = 0 THEN [words |-> <<>>, out |-> 0]
        ELSE LET was == turn[i - 1]
                 sum == (left[i] + right[i] + was.out) % Base
             IN [words |-> Append(was.words, sum),
                 out |-> IF sum # left[i] THEN Bool(sum < left[i]) ELSE was.out]
  IN turn[Len(left)]
vli_sub(left, right) ==
  LET turn[i \in 0..Len(left)] ==
        IF i = 0 THEN [words |-> <<>>, out |-> 0]
        ELSE LET was == turn[i - 1]
                 diff == (left[i] - right[i] - was.out) % Base
             IN [words |-> Append(was.words, diff),
                 out |-> IF diff # left[i] THEN Bool(diff > left[i]) ELSE was.out]
  IN turn[Len(left)]

(* Two ways to compare: by the highest word that differs, and by           *)
(* subtraction.                                                            *)
vli_cmp_unsafe(left, right) ==
  LET differ == {i \in 1..Len(left) : left[i] # right[i]}
      top == CHOOSE i \in differ : \A j \in differ : j <= i
  IN IF differ = {} THEN 0 ELSE IF left[top] > right[top] THEN 1 ELSE -1
vli_cmpSwapped(left, right) ==    \* mutant: the operands are swapped
  LET tmp == vli_sub(right, left)
  IN Bool(~vli_isZero(tmp.words)) - 2 * tmp.out
vli_cmp(left, right) ==
  LET tmp == vli_sub(left, right)
  IN Bool(~vli_isZero(tmp.words)) - 2 * tmp.out
vli_equalLow(left, right) == left[1] = right[1]     \* mutant: one word is compared
vli_equal(left, right) == \A i \in DOMAIN left : left[i] = right[i]

(* vli >> 1; bit comes in at the top (the callers' |= of the highest bit). *)
ShiftIn(vli, bit) ==
  [i \in 1..Len(vli) |->
     vli[i] \div 2 + (IF i = Len(vli) THEN bit ELSE vli[i + 1] % 2) * (Base \div 2)]
vli_rshift1(vli) == ShiftIn(vli, 0)

-----------------------------------------------------------------------------
(* uECC_vli_mult(): product scanning.  r holds r0, r1 and r2; the products *)
(* of column k are added to it, r0 is the digit, and r moves down a word.  *)
muladd(a, b, r) ==
  LET r01 == (r[2] * Base + r[1] + a * b) % (Base * Base)
  IN <<r01 % Base, r01 \div Base, (r[3] + Bool(r01 < a * b)) % Base>>

Column(left, right, k, r) ==
  LET n == Len(left)
      first == IF k < n THEN 0 ELSE k + 1 - n
      last == IF k < n THEN k ELSE n - 1
      sum[i \in 0..(last - first + 1)] ==
        IF i = 0 THEN r
        ELSE LET j == first + i - 1 IN muladd(left[j + 1], right[k - j + 1], sum[i - 1])
  IN sum[last - first + 1]
vli_mult(left, right) ==
  LET n == Len(left)
      turn[k \in 0..(2 * n - 1)] ==
        IF k = 0 THEN [result |-> <<>>, r |-> <<0, 0, 0>>]
        ELSE LET was == turn[k - 1]
                 c == Column(left, right, k - 1, was.r)
             IN [result |-> Append(was.result, c[1]), r |-> <<c[2], c[3], 0>>]
  IN Append(turn[2 * n - 1].result, turn[2 * n - 1].r[1])

(* Both operands are smaller than mod.                                     *)
vli_modAdd(left, right, mod) ==
  LET sum == vli_add(left, right)
  IN IF sum.out = 1 \/ vli_cmp_unsafe(mod, sum.words) # 1
     THEN vli_sub(sum.words, mod).words
     ELSE sum.words
vli_modSub(left, right, mod) ==
  LET diff == vli_sub(left, right)
  IN IF diff.out = 1 THEN vli_add(diff.words, mod).words ELSE diff.words

(* uECC_vli_mmod(): mod is shifted to the top of the product's 2n words,   *)
(* and subtracted wherever no borrow comes back while it moves down again. *)
(* current is v[index], the buffer that holds the value reached so far.    *)
(* The top word of mod must not be 0, or the code would write past the 2n  *)
(* words of the shifted modulus.                                           *)
Shifted(mod, shift) ==
  LET word_shift == shift \div WordBits
      bit_shift == shift % WordBits
      up(i) == IF i \in 1..Len(mod) THEN (mod[i] * Pow2[bit_shift]) % Base ELSE 0
      carry(i) == IF i \in 1..Len(mod) THEN mod[i] \div Pow2[WordBits - bit_shift] ELSE 0
  IN [i \in 1..(2 * Len(mod)) |-> up(i - word_shift) + carry(i - word_shift - 1)]
HalveMultiple(mod_multiple, n) ==
  LET high == SubSeq(mod_multiple, n + 1, 2 * n)
  IN ShiftIn(SubSeq(mod_multiple, 1, n), high[1] % 2) \o vli_rshift1(high)

vli_mmod(product, mod) ==
  LET shift == 2 * Len(mod) * WordBits - vli_numBits(mod)
      turn[i \in 0..(shift + 1)] ==
        IF i = 0 THEN [current |-> product, multiple |-> Shifted(mod, shift)]
        ELSE LET was == turn[i - 1]
                 diff == vli_sub(was.current, was.multiple)
             IN [current |-> IF diff.out = 1 THEN was.current ELSE diff.words,
                 multiple |-> HalveMultiple(was.multiple, Len(mod))]
  IN SubSeq(turn[shift + 1].current, 1, Len(mod))

vli_modMult(left, right, mod) == vli_mmod(vli_mult(left, right), mod)

-----------------------------------------------------------------------------
(* uECC_vli_modInv(): binary Euclid, with u and v following a and b.       *)
Even(vli) == vli[1] % 2 = 0
modInv_update(uv, mod) ==
  LET sum == IF Even(uv) THEN [words |-> uv, out |-> 0] ELSE vli_add(uv, mod)
  IN ShiftIn(sum.words, sum.out)

Halved(vli) == vli_rshift1(vli)
Differs(left, right) == vli_rshift1(vli_sub(left, right).words)
(* (u - v) / 2 modulo mod, where u + mod may carry and u - v borrow it.    *)
HalfDifference(u, v, mod) ==
  LET above == IF vli_cmp_unsafe(u, v) < 0 THEN vli_add(u, mod).words ELSE u
  IN modInv_update(vli_sub(above, v).words, mod)

(* One turn of the loop, which ends at a = b, and the whole loop.          *)
EuclidTurn(s, mod) ==
  LET cmpResult == vli_cmp_unsafe(s.a, s.b)
  IN CASE Even(s.a) -> [s EXCEPT !.a = Halved(@), !.u = modInv_update(@, mod)]
       [] ~Even(s.a) /\ Even(s.b) -> [s EXCEPT !.b = Halved(@), !.v = modInv_update(@, mod)]
       [] cmpResult > 0 /\ ~Even(s.a) /\ ~Even(s.b) ->
            [s EXCEPT !.a = Differs(@, s.b), !.u = HalfDifference(@, s.v, mod)]
       [] cmpResult < 0 /\ ~Even(s.a) /\ ~Even(s.b) ->
            [s EXCEPT !.b = Differs(@, s.a), !.v = HalfDifference(@, s.u, mod)]
Euclid(start, mod) ==
  LET Vlis == [1..Len(mod) -> Word]
      Positive == {x \in Vlis : ~vli_isZero(x)}
      result[s \in [a : Positive, b : Positive, u : Vlis, v : Vlis]] ==
        IF vli_cmp_unsafe(s.a, s.b) = 0 THEN s.u ELSE result[EuclidTurn(s, mod)]
  IN result[start]

vli_modInv(input, mod) ==
  IF vli_isZero(input) THEN vli_clear(Len(mod))
  ELSE Euclid([a |-> input, b |-> mod, u |-> Words(1, Len(mod)), v |-> vli_clear(Len(mod))], mod)

-----------------------------------------------------------------------------
(* A vli in memory: bytes, the most significant one first.                 *)
ByteTo(i) == Pow2[ByteBits * i]
nativeToBytes(num_bytes, native) ==
  [i \in 1..num_bytes |->
     LET b == num_bytes - i
     IN (native[1 + b \div WordBytes] \div ByteTo(b % WordBytes)) % ByteTo(1)]
bytesToNative(bytes, n) ==
  LET byte(b) == IF b < Len(bytes) THEN bytes[Len(bytes) - b] ELSE 0
      word(i) == LET filled[j \in 0..WordBytes] ==
                       IF j = 0 THEN 0
                       ELSE filled[j - 1] + byte(WordBytes * (i - 1) + j - 1) * ByteTo(j - 1)
                 IN filled[WordBytes]
  IN [i \in 1..n |-> word(i)]

=============================================================================
