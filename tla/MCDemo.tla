------------------------------- MODULE MCDemo -------------------------------
(***************************************************************************)
(* Demo on some of the five tasks, in the order and with the priorities    *)
(* kernel_main() gives them.                                               *)
(***************************************************************************)
EXTENDS Demo, Sequences

Cast == <<"LOW", "MEDIUM", "HIGH", "FUSION">>
AllFive == <<"LOW", "MEDIUM", "HIGH", "SENSOR", "FUSION">>
SensorCast == <<"LOW", "HIGH", "SENSOR", "FUSION">>

Slots(cast) == [t \in 0..(Len(cast) - 1) |-> cast[t + 1]]

PriorityOf == [LOW |-> 1, MEDIUM |-> 2, HIGH |-> 3, SENSOR |-> 2, FUSION |-> 3]
PriorityIn(cast) == [t \in 0..(Len(cast) - 1) |-> PriorityOf[cast[t + 1]]]

InheritanceRole == Slots(Cast)
InheritancePriority == PriorityIn(Cast)
FiveRole == Slots(AllFive)
FivePriority == PriorityIn(AllFive)
SensorRole == Slots(SensorCast)
SensorPriority == PriorityIn(SensorCast)

(* The sleeps of kernel.c, and the same in fewer ticks, the short ones     *)
(* still shorter than the long ones: with a sleep of 1 a task is runnable  *)
(* at every tick and no less urgent one ever runs.                         *)
KernelSleeps == [LOW |-> 5, MEDIUM |-> 3, HIGH |-> 8, SENSOR |-> 2, FUSION |-> 4]
ShortSleeps == [LOW |-> 3, MEDIUM |-> 2, HIGH |-> 3, SENSOR |-> 2, FUSION |-> 3]

=============================================================================
