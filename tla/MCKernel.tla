------------------------------ MODULE MCKernel ------------------------------
(***************************************************************************)
(* Kernel on small instances: the priorities the configurations choose     *)
(* for BasePriority.  Slots are numbered in registration order.            *)
(***************************************************************************)
EXTENDS Kernel

(* LOW, MEDIUM and HIGH in the order kernel_main() registers them.         *)
LowMediumHigh == <<10, 20, 30>>
ThreeDistinct == [t \in 0..2 |-> LowMediumHigh[t + 1]]

(* Two tasks of equal priority below a third.                              *)
TwoEqualBelowOne == [t \in 0..2 |-> IF t = 2 THEN 2 ELSE 1]

(* Three equal tasks and one above them, registered between them.          *)
ThreeEqualOneAbove == [t \in 0..3 |-> IF t = 1 THEN 2 ELSE 1]

TwoTasks == [t \in 0..1 |-> t + 1]

=============================================================================
