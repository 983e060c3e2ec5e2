-------------------------------- MODULE Powers --------------------------------
(* The powers of two, as the function the provers can compute with.        *)
EXTENDS Integers

Pow2[i \in Nat] == IF i = 0 THEN 1 ELSE 2 * Pow2[i - 1]

=============================================================================
