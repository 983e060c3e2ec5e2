------------------------------ MODULE MCStartup ------------------------------
(***************************************************************************)
(* Startup with three tasks, registered in order of priority as LOW,       *)
(* MEDIUM and HIGH are.                                                    *)
(***************************************************************************)
EXTENDS Startup

Increasing == [t \in 0..2 |-> t + 1]

=============================================================================
