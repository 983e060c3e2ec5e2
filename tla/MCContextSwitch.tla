--------------------------- MODULE MCContextSwitch ---------------------------
(***************************************************************************)
(* ContextSwitch with all of r0-r12.  No two registers of a context, and   *)
(* no two tasks, ever hold the same word, except the zeros of a task that  *)
(* has just begun: a word in the wrong place shows.                        *)
(***************************************************************************)
EXTENDS ContextSwitch

Different(base) ==
  [r |-> [i \in 0..12 |-> base + i], lr |-> base + 20, pc |-> 4 * base, flag |-> CBit]

OneEach == [t \in Tasks |-> {Different(100 * (t + 1))}]

=============================================================================
