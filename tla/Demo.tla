-------------------------------- MODULE Demo --------------------------------
(***************************************************************************)
(* The application of kernel/kernel.c on top of the kernel: LOW, MEDIUM    *)
(* and HIGH, who demonstrate priority inheritance, and SENSOR and FUSION,  *)
(* who share sensor_raw_value and sensor_fault without a lock.             *)
(*                                                                         *)
(* Every kernel operation is an action of Kernel, restricted to the order  *)
(* in which the task functions call it.  Role says which function runs in  *)
(* which slot, so that a run may take some of the five.  at[t] is the      *)
(* statement task t runs next once the kernel call it is in has returned.  *)
(* Loops that only burn time, and printing, are steps that change nothing  *)
(* but at; how many ticks they last is left open.                          *)
(***************************************************************************)
EXTENDS Kernel

CONSTANTS
  Role,             \* the task function in each slot
  SleepOf,          \* how long each one sleeps
  HighFirstSleep,   \* the task_sleep(2) before HIGH's loop
  Readings,         \* what the sensor can measure
  NoReading,        \* the initial sensor_raw_value, 0.0, never measured
  Cycles,           \* the period of SENSOR's cycle counter, 60
  FaultFrom         \* and where in it the fault window begins, 40

Roles == {"LOW", "MEDIUM", "HIGH", "SENSOR", "FUSION"}
shared_mutex == CHOOSE m \in Mutexes : TRUE

ASSUME DemoAssumption ==
  /\ Role \in [Tasks -> Roles]
  /\ \A s, t \in Tasks : Role[s] = Role[t] => s = t
  /\ SleepOf \in [Roles -> SleepTicks]
  /\ HighFirstSleep \in SleepTicks
  /\ Mutexes # {}
  /\ MaxHeld = 1
  /\ NoReading \notin Readings
  /\ FaultFrom \in 0..Cycles

VARIABLES
  at,
  sensor_raw_value,
  sensor_fault,
  cycle,            \* of SENSOR
  was_faulted,      \* of FUSION
  fused,            \* the reading FUSION last gave to kalman_update()
  printed           \* and the one it last printed as Raw=

sensorVars == <<sensor_raw_value, sensor_fault, cycle>>
fusionVars == <<was_faulted, fused, printed>>
demoVars == <<at, sensorVars, fusionVars>>
allVars == <<vars, demoVars>>

(* The first statement of each task function.                              *)
Start == [LOW |-> "lock", MEDIUM |-> "work", HIGH |-> "nap", SENSOR |-> "cycle", FUSION |-> "check"]

DemoInit ==
  /\ Init
  /\ at = [t \in Tasks |-> Start[Role[t]]]
  /\ sensor_raw_value = NoReading
  /\ sensor_fault = FALSE
  /\ cycle = 0
  /\ was_faulted = FALSE
  /\ fused = NoReading
  /\ printed = NoReading

(* The current task, which is in the function of that role, goes from one  *)
(* statement to another.                                                   *)
From(role, here) == At("app") /\ Role[current_tcb] = role /\ at[current_tcb] = here
To(there) == at' = [at EXCEPT ![current_tcb] = there]

-----------------------------------------------------------------------------
(* low_priority_task() and the loop of high_priority_task(): both take the *)
(* mutex, work, give it back and sleep.                                    *)
Locker == {"LOW", "HIGH"}

LockerLocks ==
  \E role \in Locker :
    /\ From(role, "lock") /\ CallLock(shared_mutex) /\ To("work")
    /\ UNCHANGED <<sensorVars, fusionVars>>
LockerWorks ==
  \E role \in Locker :
    /\ From(role, "work") /\ To("unlock")
    /\ UNCHANGED <<vars, sensorVars, fusionVars>>
LockerUnlocks ==
  \E role \in Locker :
    /\ From(role, "unlock") /\ Unlock(shared_mutex) /\ To("sleep")
    /\ UNCHANGED <<sensorVars, fusionVars>>
LockerSleeps ==
  \E role \in Locker :
    /\ From(role, "sleep") /\ Sleep(SleepOf[role]) /\ To("lock")
    /\ UNCHANGED <<sensorVars, fusionVars>>
HighNaps ==
  /\ From("HIGH", "nap") /\ Sleep(HighFirstSleep) /\ To("lock")
  /\ UNCHANGED <<sensorVars, fusionVars>>

LockerStep == LockerLocks \/ LockerWorks \/ LockerUnlocks \/ LockerSleeps \/ HighNaps

(* medium_priority_task().                                                 *)
MediumWorks ==
  /\ From("MEDIUM", "work") /\ To("sleep")
  /\ UNCHANGED <<vars, sensorVars, fusionVars>>
MediumSleeps ==
  /\ From("MEDIUM", "sleep") /\ Sleep(SleepOf["MEDIUM"]) /\ To("work")
  /\ UNCHANGED <<sensorVars, fusionVars>>

-----------------------------------------------------------------------------
(* sensor_task(): the cycle counter wraps, then either the fault flag is   *)
(* set or it is cleared and, in a second store, the reading is published.  *)
NextCycle == IF cycle + 1 >= Cycles THEN 0 ELSE cycle + 1

SensorCycles ==
  /\ From("SENSOR", "cycle")
  /\ cycle' = NextCycle
  /\ IF NextCycle >= FaultFrom /\ NextCycle < Cycles
     THEN sensor_fault' = TRUE /\ To("sleep")
     ELSE sensor_fault' = FALSE /\ To("publish")
  /\ UNCHANGED <<vars, sensor_raw_value, fusionVars>>
SensorPublishes ==
  /\ From("SENSOR", "publish")
  /\ \E r \in Readings : sensor_raw_value' = r
  /\ To("sleep")
  /\ UNCHANGED <<vars, sensor_fault, cycle, fusionVars>>
SensorSleeps ==
  /\ From("SENSOR", "sleep") /\ Sleep(SleepOf["SENSOR"]) /\ To("cycle")
  /\ UNCHANGED <<sensorVars, fusionVars>>

(* fusion_task(): with the flag clear it reads sensor_raw_value once for   *)
(* the filter and once more to print it.                                   *)
FusionChecks ==
  /\ From("FUSION", "check")
  /\ was_faulted' = sensor_fault
  /\ To(IF sensor_fault THEN "sleep" ELSE "fuse")
  /\ UNCHANGED <<vars, sensorVars, fused, printed>>
FusionFuses ==
  /\ From("FUSION", "fuse")
  /\ fused' = sensor_raw_value
  /\ To("print")
  /\ UNCHANGED <<vars, sensorVars, was_faulted, printed>>
FusionPrints ==
  /\ From("FUSION", "print")
  /\ printed' = sensor_raw_value
  /\ To("sleep")
  /\ UNCHANGED <<vars, sensorVars, was_faulted, fused>>
FusionSleeps ==
  /\ From("FUSION", "sleep") /\ Sleep(SleepOf["FUSION"]) /\ To("check")
  /\ UNCHANGED <<sensorVars, fusionVars>>

-----------------------------------------------------------------------------
MediumStep == MediumWorks \/ MediumSleeps
SensorStep == SensorCycles \/ SensorPublishes \/ SensorSleeps
FusionStep == FusionChecks \/ FusionFuses \/ FusionPrints \/ FusionSleeps

Kernels == (KernelStep \/ TimerIRQ) /\ UNCHANGED demoVars

DemoNext == LockerStep \/ MediumStep \/ SensorStep \/ FusionStep \/ Kernels

DemoSpec == DemoInit /\ [][DemoNext]_allVars

(* The timer is periodic, and a task that has the CPU again and again gets *)
(* through the kernel code and the bounded loops it is in.  The exception  *)
(* is MEDIUM, the CPU-hungry one: outside kernel code it may keep the CPU  *)
(* for as long as it is let.                                               *)
TaskStep(t) ==
  /\ current_tcb = t
  /\ \/ KernelStep /\ UNCHANGED demoVars
     \/ LockerStep \/ SensorStep \/ FusionStep

DemoFairSpec ==
  /\ DemoSpec
  /\ WF_allVars(TimerIRQ /\ UNCHANGED demoVars)
  /\ \A t \in Tasks : SF_allVars(TaskStep(t))

-----------------------------------------------------------------------------
Waiting(t) == pc[t] \in {"lock", "lockSpin"}

(* Priority inheritance at work: HIGH gets the mutex LOW holds, even if    *)
(* MEDIUM never gives up the CPU (kernel.c:23-58, mutex.c:27-29).          *)
HighGetsMutex ==
  \A t \in Tasks : Role[t] = "HIGH" => Waiting(t) ~> (holds[t] # {})

(* HIGH waits for one critical section at most: LOW is never granted the   *)
(* mutex while HIGH is in mutex_lock(), although a freed mutex goes to     *)
(* whoever asks first (mutex.c:19-24, 64-69, kernel.c:30-32).              *)
HighNotOvertaken ==
  [][\A s, t \in Tasks :
       Role[s] = "LOW" /\ Role[t] = "HIGH" /\ holds[s] = {} /\ holds'[s] # {}
         => ~Waiting(t)]_allVars

(* The lock-free reader: from the moment FUSION has found the fault flag   *)
(* clear until it has printed, neither the flag nor the reading changes    *)
(* under it, because SENSOR is never dispatched while FUSION can run       *)
(* (kernel.c:85-90, 105-121).                                              *)
FusionReadsConsistently ==
  \A t \in Tasks : Role[t] = "FUSION" =>
    /\ at[t] \in {"fuse", "print"} => ~sensor_fault
    /\ at[t] = "print" => sensor_raw_value = fused
    /\ at[t] = "sleep" /\ ~was_faulted => printed = fused

(* "A separate fusion task runs a 1D Kalman filter over the raw stream" of *)
(* the sensor's readings (README.md, Sensor Fusion with a Kalman Filter):  *)
(* whatever is fused was measured (kernel.c:18, 82-90, 118).               *)
FusesOnlyReadings ==
  [][FusionFuses => sensor_raw_value # NoReading]_allVars

=============================================================================
