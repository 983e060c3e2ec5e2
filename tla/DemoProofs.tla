----------------------------- MODULE DemoProofs -----------------------------
(***************************************************************************)
(* Proofs about Demo, for any cast of the five task functions, any sleeps  *)
(* and any fault window.                                                   *)
(*                                                                         *)
(* The demo is one of the programs Kernel speaks of (DemoRunsKernel), so   *)
(* that everything KernelProofs shows holds of it.  That FUSION needs no   *)
(* lock then follows from two things: neither FUSION nor SENSOR ever has a *)
(* mutex, so both keep their base priorities; and a task that can run is   *)
(* never passed over for a less urgent one.                                *)
(***************************************************************************)
EXTENDS Demo, KernelProofs

(* kernel_main() creates FUSION with priority 3 and SENSOR with 2.         *)
FusionOutranksSensor ==
  \A s, t \in Tasks :
    Role[s] = "SENSOR" /\ Role[t] = "FUSION" => BasePriority[s] < BasePriority[t]

OutsideLock == {"app", "sleepSpin"}
OnlyLockersLock ==
  \A t \in Tasks : Role[t] \notin Locker => holds[t] = {} /\ pc[t] \in OutsideLock

(* While FUSION is between its test of the flag and its last use of the    *)
(* reading, it can run and SENSOR does not have the CPU.                   *)
Reading(t) == Role[t] = "FUSION" /\ at[t] \in {"fuse", "print"}
FusionUndisturbed ==
  \A t \in Tasks : Reading(t) =>
    /\ pc[t] = "app"
    /\ Role[current_tcb] # "SENSOR"

Statements ==
  {"lock", "work", "unlock", "sleep", "nap", "cycle", "publish", "check", "fuse", "print"}
AtType == at \in [Tasks -> Statements]

DInv == AtType /\ OnlyLockersLock /\ FusionUndisturbed /\ FusionReadsConsistently

-----------------------------------------------------------------------------
(* Every step of the demo is a step of the kernel or none.                 *)
LEMMA DemoStepIsKernelStep == [DemoNext]_allVars => [Next]_vars
  <1> SUFFICES ASSUME [DemoNext]_allVars PROVE [Next]_vars
    OBVIOUS
  <1>1. shared_mutex \in Mutexes
    BY DemoAssumption DEF shared_mutex
  <1>2. /\ HighFirstSleep \in SleepTicks
        /\ \A role \in Roles : SleepOf[role] \in SleepTicks
    BY DemoAssumption
  <1>3. CASE LockerStep
    <2>1. CASE LockerLocks
      BY <1>1, <2>1 DEF LockerLocks, Next
    <2>2. CASE LockerUnlocks
      BY <1>1, <2>2 DEF LockerUnlocks, Next
    <2>3. CASE LockerSleeps \/ HighNaps
      BY <1>2, <2>3 DEF LockerSleeps, HighNaps, Locker, Roles, Next
    <2>4. CASE LockerWorks
      BY <2>4 DEF LockerWorks
    <2> QED
      BY <1>3, <2>1, <2>2, <2>3, <2>4 DEF LockerStep
  <1>4. CASE MediumStep
    BY <1>2, <1>4 DEF MediumStep, MediumWorks, MediumSleeps, Roles, Next
  <1>5. CASE SensorStep
    BY <1>2, <1>5 DEF SensorStep, SensorCycles, SensorPublishes, SensorSleeps, Roles, Next
  <1>6. CASE FusionStep
    BY <1>2, <1>6
       DEF FusionStep, FusionChecks, FusionFuses, FusionPrints, FusionSleeps, Roles, Next
  <1>7. CASE Kernels
    BY <1>7 DEF Kernels, Next
  <1>8. CASE UNCHANGED allVars
    BY <1>8 DEF allVars
  <1> QED
    BY <1>3, <1>4, <1>5, <1>6, <1>7, <1>8 DEF DemoNext

(* The demo calls the kernel as Kernel lets tasks call it (kernel.c:18-154). *)
THEOREM DemoRunsKernel == DemoSpec => Spec
  <1>1. DemoInit => Init
    BY DEF DemoInit
  <1> QED
    BY <1>1, DemoStepIsKernelStep, PTL DEF DemoSpec, Spec

-----------------------------------------------------------------------------
LEMMA InitDInv == DemoInit => DInv
  <1> SUFFICES ASSUME DemoInit PROVE DInv
    OBVIOUS
  <1>1. AtType
    <2>1. \A role \in Roles : Start[role] \in Statements
      BY DEF Start, Roles, Statements
    <2> QED
      BY <2>1, DemoAssumption DEF DemoInit, AtType
  <1>2. OnlyLockersLock
    BY DEF DemoInit, Init, OnlyLockersLock, OutsideLock
  <1>3. \A t \in Tasks : Role[t] = "FUSION" => at[t] = "check"
    BY DEF DemoInit, Start
  <1> QED
    BY <1>1, <1>2, <1>3 DEF DInv, FusionUndisturbed, Reading, FusionReadsConsistently

(* A step of the application that leaves the kernel alone, or sleeps.      *)
AppSleeps == \E ticks \in SleepTicks : Sleep(ticks)

LEMMA OnlyLockersLockStep ==
  ASSUME IInv, OnlyLockersLock, [DemoNext]_allVars
  PROVE  OnlyLockersLock'
  <1> USE DEF OnlyLockersLock, OutsideLock
  <1>1. ASSUME UNCHANGED <<holds, pc>>
        PROVE  OnlyLockersLock'
    BY <1>1
  <1>2. ASSUME AppSleeps
        PROVE  OnlyLockersLock'
    BY <1>2 DEF AppSleeps, Sleep, Goto, IInv, TypeOK
  <1>3. CASE LockerStep
    <2>1. Role[current_tcb] \in Locker /\ UNCHANGED <<current_tcb>>
          /\ \A t \in Tasks : t # current_tcb => holds'[t] = holds[t] /\ pc'[t] = pc[t]
      BY <1>3
         DEF LockerStep, LockerLocks, LockerWorks, LockerUnlocks, LockerSleeps, HighNaps, From,
             Locker, CallLock, Unlock, Sleep, task_sleep, Goto, vars, schedVars, progVars, IInv, TypeOK
    <2> QED
      BY <2>1
  <1>4. CASE MediumStep \/ SensorStep \/ FusionStep
    <2>1. AppSleeps \/ UNCHANGED <<holds, pc>>
      BY <1>4, DemoAssumption
         DEF MediumStep, MediumWorks, MediumSleeps, SensorStep, SensorCycles, SensorPublishes,
             SensorSleeps, FusionStep, FusionChecks, FusionFuses, FusionPrints, FusionSleeps,
             Roles, AppSleeps, vars, progVars
    <2> QED
      BY <1>1, <1>2, <2>1
  <1>5. CASE Kernels
    <2>1. CASE KernelStep
      <3>1. pc[current_tcb] \in {"lock", "lockSpin"} \/ SleepSpinEnds
        BY <2>1 DEF KernelStep, LockGranted, LockRefused, LockSpinEnds, At
      <3>2. CASE SleepSpinEnds
        BY <3>2 DEF SleepSpinEnds, Goto, IInv, TypeOK
      <3>3. CASE pc[current_tcb] \in {"lock", "lockSpin"}
        <4>1. Role[current_tcb] \in Locker
          BY <3>3 DEF IInv, TypeOK
        <4>2. \A t \in Tasks : t # current_tcb => holds'[t] = holds[t] /\ pc'[t] = pc[t]
          BY <2>1 DEF KernelStep, LockGranted, LockRefused, LockSpinEnds, SleepSpinEnds, Goto,
             IInv, TypeOK
        <4> QED
          BY <4>1, <4>2
      <3> QED
        BY <3>1, <3>2, <3>3
    <2>2. CASE TimerIRQ
      BY <1>1, <2>2 DEF TimerIRQ, progVars
    <2> QED
      BY <1>5, <2>1, <2>2 DEF Kernels
  <1>6. CASE UNCHANGED allVars
    BY <1>1, <1>6 DEF allVars, vars, progVars
  <1> QED
    BY <1>3, <1>4, <1>5, <1>6 DEF DemoNext

LEMMA AtTypeStep == ASSUME AtType, [DemoNext]_allVars PROVE AtType'
  <1>1. \/ UNCHANGED at
        \/ \E there \in Statements : To(there)
    BY DEF DemoNext, LockerStep, LockerLocks, LockerWorks, LockerUnlocks, LockerSleeps, HighNaps,
       MediumStep, MediumWorks, MediumSleeps, SensorStep, SensorCycles, SensorPublishes,
       SensorSleeps, FusionStep, FusionChecks, FusionFuses, FusionPrints, FusionSleeps,
       Kernels, allVars, demoVars, Statements
  <1> QED
    BY <1>1 DEF AtType, To

(* A dispatch never goes from, or past, a reading FUSION to SENSOR.        *)
LEMMA TickSparesFusion ==
  ASSUME IInv, OnlyLockersLock, FusionOutranksSensor, TimerIRQ,
         NEW t \in Tasks, Reading(t), pc[t] = "app", Role[current_tcb] # "SENSOR"
  PROVE  Role[current_tcb'] # "SENSOR"
  <1>1. schedule_next /\ TypeOK /\ current_tcb \in Tasks
    BY DEF TimerIRQ, IInv, TypeOK
  <1>2. CASE UNCHANGED current_tcb
    BY <1>2
  <1>3. CASE current_tcb' \in Tasks /\ Dispatched(Woken, current_tcb')
    <2>1. state[t] \in {"READY", "RUNNING"}
      BY DEF IInv, StateMatchesProgram, TypeOK, TaskState
    <2>2. t \in Runnable(Woken)
      <3>1. Woken[t] \in TaskState /\ Woken[t] \notin {"BLOCKED", "SLEEPING"}
        BY <1>1, <2>1, WokenStates DEF IInv
      <3> QED
        BY <3>1 DEF Runnable, TaskState
    <2>3. \A u \in Tasks : Role[u] \in {"SENSOR", "FUSION"} => priority[u] = BasePriority[u]
      BY DEF OnlyLockersLock, Locker, IInv, PriorityRestored
    <2>4. ~(priority[current_tcb'] < priority[t])
      <3>1. \/ priority[t] < priority[current_tcb']
            \/ priority[t] = priority[current_tcb']
        BY <1>3, <2>2 DEF Dispatched, Selected
      <3>2. priority[t] \in Int /\ priority[current_tcb'] \in Int
        BY <1>1, <1>3, SMT DEF TypeOK
      <3> QED
        BY <3>1, <3>2, SMT
    <2> QED
      BY <1>3, <2>3, <2>4 DEF FusionOutranksSensor, Reading
  <1> QED
    BY <1>1, <1>2, <1>3, ScheduleNextCases

LEMMA FusionUndisturbedStep ==
  ASSUME IInv, AtType, OnlyLockersLock, FusionOutranksSensor, FusionUndisturbed,
         [DemoNext]_allVars
  PROVE  FusionUndisturbed'
  <1> SUFFICES ASSUME NEW t \in Tasks, Reading(t)'
               PROVE  pc'[t] = "app" /\ Role[current_tcb'] # "SENSOR"
    BY DEF FusionUndisturbed
  <1>1. CASE FusionChecks \/ FusionFuses
    <2>1. pc[current_tcb] = "app" /\ Role[current_tcb] = "FUSION"
          /\ UNCHANGED <<pc, current_tcb>>
      BY <1>1 DEF FusionChecks, FusionFuses, From, At, vars, progVars, schedVars
    <2>2. t = current_tcb
      BY <2>1, DemoAssumption DEF Reading, IInv, TypeOK
    <2> QED
      BY <2>1, <2>2
  <1>2. ASSUME Reading(t)
        PROVE  pc[t] = "app" /\ Role[current_tcb] # "SENSOR"
    BY <1>2 DEF FusionUndisturbed
  <1>3. CASE TimerIRQ /\ UNCHANGED demoVars
    BY <1>2, <1>3, TickSparesFusion DEF TimerIRQ, progVars, demoVars, Reading
  <1>4. CASE KernelStep /\ UNCHANGED demoVars
    <2>1. Reading(t)
      BY <1>4 DEF Reading, demoVars
    <2>2. pc'[t] = pc[t] /\ current_tcb' = current_tcb
      BY <1>2, <1>4, <2>1 DEF KernelStep, LockGranted, LockRefused, LockSpinEnds, SleepSpinEnds,
         At, Goto, Acquire, schedVars, Block, IInv, TypeOK
    <2> QED
      BY <1>2, <2>1, <2>2
  <1>5. CASE FusionPrints \/ FusionSleeps
    <2>1. Role[current_tcb] = "FUSION" /\ at'[current_tcb] \in {"sleep", "check"}
      BY <1>5 DEF FusionPrints, FusionSleeps, From, To, AtType, IInv, TypeOK
    <2> QED
      BY <2>1, DemoAssumption DEF Reading, IInv, TypeOK
  <1>6. CASE LockerStep \/ MediumStep \/ SensorStep
    <2>1. /\ Role[current_tcb] # "FUSION" /\ current_tcb' = current_tcb
          /\ \A u \in Tasks : u # current_tcb => at'[u] = at[u] /\ pc'[u] = pc[u]
      BY <1>6
         DEF LockerStep, LockerLocks, LockerWorks, LockerUnlocks, LockerSleeps, HighNaps, Locker,
             MediumStep, MediumWorks, MediumSleeps, SensorStep, SensorCycles, SensorPublishes,
             SensorSleeps, From, To, CallLock, Unlock, Sleep, task_sleep, Goto, vars, schedVars,
             progVars, AtType, IInv, TypeOK
    <2>2. t # current_tcb /\ Reading(t)
      BY <2>1 DEF Reading
    <2> QED
      BY <1>2, <2>1, <2>2
  <1>7. CASE UNCHANGED allVars
    BY <1>2, <1>7 DEF allVars, demoVars, vars, progVars, schedVars, Reading
  <1> QED
    BY <1>1, <1>3, <1>4, <1>5, <1>6, <1>7 DEF DemoNext, FusionStep, Kernels

LEMMA FusionReadsStep ==
  ASSUME IInv, AtType, FusionUndisturbed, FusionReadsConsistently, [DemoNext]_allVars
  PROVE  FusionReadsConsistently'
  <1> SUFFICES ASSUME NEW t \in Tasks, Role[t] = "FUSION"
               PROVE  /\ at'[t] \in {"fuse", "print"} => ~sensor_fault'
                      /\ at'[t] = "print" => sensor_raw_value' = fused'
                      /\ at'[t] = "sleep" /\ ~was_faulted' => printed' = fused'
    BY DEF FusionReadsConsistently
  <1>1. /\ at[t] \in {"fuse", "print"} => ~sensor_fault
        /\ at[t] = "print" => sensor_raw_value = fused
        /\ at[t] = "sleep" /\ ~was_faulted => printed = fused
    BY DEF FusionReadsConsistently
  <1>2. CASE FusionStep
    <2>1. t = current_tcb
      BY <1>2, DemoAssumption
         DEF FusionStep, FusionChecks, FusionFuses, FusionPrints, FusionSleeps, From, IInv, TypeOK
    <2>2. CASE FusionChecks
      BY <2>1, <2>2 DEF FusionChecks, To, AtType, sensorVars, From
    <2>3. CASE FusionFuses
      BY <1>1, <2>1, <2>3 DEF FusionFuses, From, To, AtType, sensorVars
    <2>4. CASE FusionPrints
      BY <1>1, <2>1, <2>4 DEF FusionPrints, From, To, AtType
    <2>5. CASE FusionSleeps
      BY <2>1, <2>5 DEF FusionSleeps, To, AtType
    <2> QED
      BY <1>2, <2>2, <2>3, <2>4, <2>5 DEF FusionStep
  <1>3. CASE LockerStep \/ MediumStep
    <2>1. Role[current_tcb] # "FUSION" /\ UNCHANGED <<sensorVars, fusionVars>>
          /\ \A u \in Tasks : u # current_tcb => at'[u] = at[u]
      BY <1>3
         DEF LockerStep, LockerLocks, LockerWorks, LockerUnlocks, LockerSleeps, HighNaps, Locker,
             MediumStep, MediumWorks, MediumSleeps, From, To, AtType
    <2> QED
      BY <1>1, <2>1 DEF sensorVars, fusionVars
  <1>4. CASE SensorStep
    <2>1. Role[current_tcb] = "SENSOR" /\ UNCHANGED fusionVars
          /\ \A u \in Tasks : u # current_tcb => at'[u] = at[u]
      BY <1>4 DEF SensorStep, SensorCycles, SensorPublishes, SensorSleeps, From, To, AtType
    <2>2. ~Reading(t) /\ at'[t] = at[t]
      BY <2>1 DEF FusionUndisturbed
    <2> QED
      BY <1>1, <2>1, <2>2 DEF Reading, fusionVars
  <1>5. CASE Kernels \/ UNCHANGED allVars
    BY <1>1, <1>5 DEF Kernels, demoVars, allVars, sensorVars, fusionVars
  <1> QED
    BY <1>2, <1>3, <1>4, <1>5 DEF DemoNext

(* fusion_task() reads two shared variables without a lock, three times,   *)
(* and never sees them change in between (kernel.c:85-90, 105-121).        *)
THEOREM FusionReadsConsistentlyHolds ==
  ASSUME FusionOutranksSensor
  PROVE  DemoSpec => []FusionReadsConsistently
  <1>1. IInv /\ DInv /\ [DemoNext]_allVars => DInv'
    BY AtTypeStep, OnlyLockersLockStep, FusionUndisturbedStep, FusionReadsStep DEF DInv
  <1>2. DInv => FusionReadsConsistently
    BY DEF DInv
  <1> QED
    BY <1>1, <1>2, InitDInv, IInvHolds, DemoRunsKernel, PTL DEF DemoSpec

-----------------------------------------------------------------------------
(* LOW and HIGH: how LOW is kept from taking the mutex twice.              *)

(* kernel_main() creates HIGH with priority 3 and LOW with 1.              *)
HighOutranksLow ==
  \A s, t \in Tasks : Role[s] = "LOW" /\ Role[t] = "HIGH" => BasePriority[s] < BasePriority[t]

WantsShared ==
  \A t \in Tasks :
    /\ Waiting(t) => want[t] = shared_mutex
    /\ holds[t] \subseteq {shared_mutex}

(* A task that has the mutex is between mutex_lock() and mutex_unlock().   *)
HoldsInBetween ==
  \A t \in Tasks :
    /\ holds[t] # {} => pc[t] = "app" /\ at[t] \in {"work", "unlock"}
    /\ Waiting(t) => at[t] = "work"

(* LOW is boosted only while HIGH is blocked.                              *)
BoostedForBlocked ==
  \A s, t \in Tasks :
    Role[s] = "LOW" /\ Role[t] = "HIGH" /\ holds[s] # {} /\ state[t] # "BLOCKED"
      => priority[s] = BasePriority[s]

(* LOW has the CPU while HIGH waits only if HIGH is blocked, or from its   *)
(* own mutex_unlock() to the next tick, in which it goes to sleep.         *)
LowGivesWay ==
  \A s, t \in Tasks :
    Role[s] = "LOW" /\ Role[t] = "HIGH" /\ current_tcb = s /\ Waiting(t) =>
      \/ state[t] = "BLOCKED"
      \/ holds[s] = {} /\ pc[s] = "app" /\ at[s] = "sleep"
      \/ holds[s] = {} /\ pc[s] = "sleepSpin" /\ state[s] = "SLEEPING"

LockersInv == WantsShared /\ HoldsInBetween /\ BoostedForBlocked /\ LowGivesWay

LEMMA InitLockersInv == DemoInit => LockersInv
  BY DEF DemoInit, Init, LockersInv, WantsShared, HoldsInBetween, BoostedForBlocked, LowGivesWay,
     Waiting

(* What each kind of step leaves as it is.                                 *)
AppSteps == LockerWorks \/ MediumWorks \/ SensorCycles \/ SensorPublishes
            \/ FusionChecks \/ FusionFuses \/ FusionPrints

LEMMA StepKinds ==
  ASSUME [DemoNext]_allVars, IInv, AtType
  PROVE  \/ /\ AppSteps /\ UNCHANGED vars
            /\ pc[current_tcb] = "app"
            /\ \A t \in Tasks : t # current_tcb => at'[t] = at[t]
            /\ \/ at[current_tcb] = "work" /\ at'[current_tcb] = "unlock"
               \/ Role[current_tcb] \notin Locker
         \/ /\ AppSleeps
            /\ \A t \in Tasks : t # current_tcb => at'[t] = at[t]
            /\ at[current_tcb] \in {"sleep", "nap"}
         \/ LockerLocks
         \/ LockerUnlocks
         \/ LockGranted /\ UNCHANGED at
         \/ LockRefused /\ UNCHANGED at
         \/ (LockSpinEnds \/ SleepSpinEnds) /\ UNCHANGED at
         \/ TimerIRQ /\ UNCHANGED at
         \/ UNCHANGED <<vars, at>>
  <1>1. CASE LockerStep
    <2>1. CASE LockerWorks
      BY <2>1 DEF LockerWorks, AppSteps, From, To, At, AtType
    <2>2. CASE LockerSleeps \/ HighNaps
      BY <2>2, DemoAssumption
         DEF LockerSleeps, HighNaps, Locker, Roles, AppSleeps, From, To, AtType
    <2> QED
      BY <1>1, <2>1, <2>2 DEF LockerStep
  <1>2. CASE MediumWorks \/ SensorCycles \/ SensorPublishes
             \/ FusionChecks \/ FusionFuses \/ FusionPrints
    BY <1>2 DEF MediumWorks, SensorCycles, SensorPublishes, FusionChecks, FusionFuses,
       FusionPrints, AppSteps, From, To, At, Locker, AtType
  <1>3. CASE MediumSleeps \/ SensorSleeps \/ FusionSleeps
    BY <1>3, DemoAssumption
       DEF MediumSleeps, SensorSleeps, FusionSleeps, Roles, AppSleeps, From, To, AtType
  <1>4. CASE Kernels
    BY <1>4 DEF Kernels, KernelStep, demoVars
  <1>5. CASE UNCHANGED allVars
    BY <1>5 DEF allVars, demoVars
  <1> QED
    BY <1>1, <1>2, <1>3, <1>4, <1>5 DEF DemoNext, MediumStep, SensorStep, FusionStep

LEMMA WantsSharedStep ==
  ASSUME IInv, AtType, WantsShared, [DemoNext]_allVars
  PROVE  WantsShared'
  <1> USE DEF WantsShared, Waiting
  <1>1. CASE LockerLocks
    BY <1>1 DEF LockerLocks, CallLock, Goto, IInv, TypeOK
  <1>2. CASE LockGranted \/ LockRefused \/ LockSpinEnds \/ SleepSpinEnds
    BY <1>2 DEF LockGranted, LockRefused, LockSpinEnds, SleepSpinEnds, Goto, At, IInv, TypeOK
  <1>3. CASE AppSleeps
    BY <1>3 DEF AppSleeps, Sleep, Goto, IInv, TypeOK
  <1>4. CASE UNCHANGED <<pc, want, holds>>
    BY <1>4
  <1>5. CASE LockerUnlocks
    BY <1>5 DEF LockerUnlocks, Unlock, IInv, TypeOK
  <1> QED
    BY <1>1, <1>2, <1>3, <1>4, <1>5, StepKinds DEF TimerIRQ, progVars, vars

LEMMA HoldsInBetweenStep ==
  ASSUME IInv, AtType, OnlyLockersLock, WantsShared, HoldsInBetween, [DemoNext]_allVars
  PROVE  HoldsInBetween'
  <1> DEFINE Fine(t) == /\ holds[t] # {} => pc[t] = "app" /\ at[t] \in {"work", "unlock"}
                        /\ Waiting(t) => at[t] = "work"
  <1> SUFFICES ASSUME NEW t \in Tasks
               PROVE  Fine(t)'
    BY DEF HoldsInBetween
  <1>1. Fine(t) /\ current_tcb \in Tasks
    BY DEF HoldsInBetween, IInv, TypeOK
  <1> USE DEF Waiting
  <1>2. ASSUME t # current_tcb, holds'[t] = holds[t], pc'[t] = pc[t], at'[t] = at[t]
        PROVE  Fine(t)'
    BY <1>1, <1>2
  <1>3. ASSUME AppSteps, UNCHANGED vars, pc[current_tcb] = "app",
               \A u \in Tasks : u # current_tcb => at'[u] = at[u],
               \/ at[current_tcb] = "work" /\ at'[current_tcb] = "unlock"
               \/ Role[current_tcb] \notin Locker
        PROVE  Fine(t)'
    <2>1. UNCHANGED <<holds, pc>>
      BY <1>3 DEF vars, progVars
    <2>2. CASE t = current_tcb
      BY <1>3, <2>1, <2>2 DEF OnlyLockersLock
    <2> QED
      BY <1>1, <1>2, <1>3, <2>1, <2>2
  <1>4. ASSUME AppSleeps, \A u \in Tasks : u # current_tcb => at'[u] = at[u],
               at[current_tcb] \in {"sleep", "nap"}
        PROVE  Fine(t)'
    <2>1. holds' = holds /\ pc' = [pc EXCEPT ![current_tcb] = "sleepSpin"]
      BY <1>4 DEF AppSleeps, Sleep, Goto
    <2>2. CASE t = current_tcb
      BY <1>1, <1>4, <2>1, <2>2 DEF IInv, TypeOK
    <2> QED
      BY <1>1, <1>2, <1>4, <2>1, <2>2 DEF IInv, TypeOK
  <1>5. CASE LockerLocks
    <2>1. /\ holds' = holds /\ pc' = [pc EXCEPT ![current_tcb] = "lock"]
          /\ at[current_tcb] = "lock" /\ at' = [at EXCEPT ![current_tcb] = "work"]
      BY <1>5 DEF LockerLocks, CallLock, Goto, From, To
    <2> QED
      BY <1>1, <2>1 DEF IInv, TypeOK, AtType
  <1>6. CASE LockerUnlocks
    <2>1. /\ holds' = [holds EXCEPT ![current_tcb] = @ \ {shared_mutex}]
          /\ pc' = pc /\ pc[current_tcb] = "app"
          /\ at' = [at EXCEPT ![current_tcb] = "sleep"]
      BY <1>6 DEF LockerUnlocks, Unlock, At, From, To
    <2>2. holds[current_tcb] \subseteq {shared_mutex}
      BY <1>1 DEF WantsShared
    <2> QED
      BY <1>1, <2>1, <2>2 DEF IInv, TypeOK, AtType
  <1>7. CASE LockGranted /\ UNCHANGED at
    <2>1. /\ pc[current_tcb] = "lock" /\ pc' = [pc EXCEPT ![current_tcb] = "app"]
          /\ \A u \in Tasks : u # current_tcb => holds'[u] = holds[u]
      BY <1>7 DEF LockGranted, Goto, At, IInv, TypeOK
    <2> QED
      BY <1>1, <1>7, <2>1 DEF IInv, TypeOK
  <1>8. CASE (LockRefused \/ LockSpinEnds \/ SleepSpinEnds) /\ UNCHANGED at
    BY <1>1, <1>8 DEF LockRefused, LockSpinEnds, SleepSpinEnds, Goto, At, IInv, TypeOK
  <1>9. CASE (TimerIRQ /\ UNCHANGED at) \/ UNCHANGED <<vars, at>>
    BY <1>1, <1>9 DEF TimerIRQ, vars, progVars
  <1> QED
    BY <1>3, <1>4, <1>5, <1>6, <1>7, <1>8, <1>9, StepKinds

LEMMA BoostedForBlockedStep ==
  ASSUME IInv, AtType, OnlyLockersLock, WantsShared, HoldsInBetween, BoostedForBlocked,
         [DemoNext]_allVars
  PROVE  BoostedForBlocked'
  <1> SUFFICES ASSUME NEW s \in Tasks, NEW t \in Tasks, Role[s] = "LOW", Role[t] = "HIGH",
                      holds'[s] # {}, state'[t] # "BLOCKED"
               PROVE  priority'[s] = BasePriority[s]
    BY DEF BoostedForBlocked
  <1>1. /\ holds[s] # {} /\ state[t] # "BLOCKED" => priority[s] = BasePriority[s]
        /\ s # t /\ current_tcb \in Tasks
    BY DEF BoostedForBlocked, IInv, TypeOK
  <1>2. ASSUME UNCHANGED priority, holds'[s] = holds[s], state[t] # "BLOCKED"
        PROVE  priority'[s] = BasePriority[s]
    BY <1>1, <1>2
  <1>3. CASE UNCHANGED vars
    BY <1>1, <1>3 DEF vars, tcbVars, progVars
  <1>4. CASE AppSleeps
    <2>1. UNCHANGED <<priority, holds>> /\ pc[current_tcb] = "app"
          /\ \A u \in Tasks : u # current_tcb => state'[u] = state[u]
      BY <1>4 DEF AppSleeps, Sleep, task_sleep, At, IInv, TypeOK
    <2>2. state[t] # "BLOCKED"
      BY <1>1, <2>1 DEF IInv, StateMatchesProgram
    <2> QED
      BY <1>2, <2>1, <2>2
  <1>5. CASE LockerLocks \/ LockSpinEnds \/ SleepSpinEnds
    BY <1>1, <1>5 DEF LockerLocks, CallLock, LockSpinEnds, SleepSpinEnds, tcbVars
  <1>6. CASE LockerUnlocks
    <2>1. /\ pc[current_tcb] = "app" /\ mutex_unlock(shared_mutex)
          /\ holds' = [holds EXCEPT ![current_tcb] = @ \ {shared_mutex}]
      BY <1>6 DEF LockerUnlocks, Unlock, At
    <2>2. s # current_tcb
      BY <2>1, <1>1 DEF WantsShared, IInv, TypeOK
    <2>3. current_tcb = t
      BY <1>1, <1>6, <2>2, DemoAssumption DEF LockerUnlocks, From, Locker
    <2>4. state[t] # "BLOCKED" /\ holds'[s] = holds[s]
      BY <1>1, <2>1, <2>2, <2>3 DEF IInv, StateMatchesProgram, TypeOK
    <2>5. priority'[s] = priority[s]
      BY <2>1, <2>2 DEF mutex_unlock, RestorePriority, IInv, TypeOK
    <2> QED
      BY <1>1, <2>4, <2>5
  <1>7. CASE LockGranted
    <2>1. UNCHANGED <<priority, state>>
          /\ \A u \in Tasks : u # current_tcb => holds'[u] = holds[u]
      BY <1>7 DEF LockGranted, Acquire, IInv, TypeOK
    <2>2. CASE s = current_tcb
      <3>1. holds[s] = {}
        BY <1>7, <2>2, DemoAssumption DEF LockGranted, At, IInv, WaitersHoldNothing
      <3> QED
        BY <2>1, <3>1 DEF IInv, PriorityRestored
    <2> QED
      BY <1>2, <2>1, <2>2
  <1>8. CASE LockRefused
    <2>1. /\ pc[current_tcb] = "lock" /\ holds' = holds
          /\ state' = [state EXCEPT ![current_tcb] = "BLOCKED"]
      BY <1>8 DEF LockRefused, Block, At
    <2>2. current_tcb # t
      BY <2>1 DEF IInv, TypeOK
    <2>3. Role[current_tcb] \in Locker
      BY <1>1, <2>1 DEF OnlyLockersLock, OutsideLock
    <2>4. current_tcb = s
      BY <1>1, <2>2, <2>3, DemoAssumption DEF Locker
    <2>5. holds[s] = {}
      BY <2>1, <2>4 DEF HoldsInBetween
    <2> QED
      BY <2>1, <2>5
  <1>9. CASE TimerIRQ
    <2>1. schedule_next /\ UNCHANGED <<priority, holds, pc>>
      BY <1>9 DEF TimerIRQ, schedule_next, progVars
    <2>2. CASE state' = state
      BY <1>2, <2>1, <2>2
    <2>3. CASE /\ Dispatched(Woken, current_tcb')
               /\ state' = [Woken EXCEPT ![current_tcb'] = "RUNNING"]
               /\ current_tcb' \in Tasks
      <3>1. s \in Runnable(Woken)
        <4>1. pc[s] = "app"
          BY <2>1 DEF HoldsInBetween
        <4>2. state[s] \notin {"BLOCKED", "SLEEPING"}
          BY <4>1 DEF IInv, StateMatchesProgram
        <4>3. Woken[s] \in TaskState /\ Woken[s] \notin {"BLOCKED", "SLEEPING"}
          BY <4>2, WokenStates DEF IInv
        <4> QED
          BY <4>3 DEF Runnable, TaskState
      <3>2. current_tcb' \in Runnable(Woken)
        BY <2>3, <3>1 DEF Dispatched, Selected
      <3>3. Woken[t] # "BLOCKED"
        BY <2>3, <3>2, WokenStates DEF IInv, Runnable
      <3>4. state[t] # "BLOCKED"
        BY <3>3, WokenStates DEF IInv
      <3> QED
        BY <1>2, <2>1, <3>4
    <2> QED
      BY <2>1, <2>2, <2>3, ScheduleNextCases DEF IInv
  <1> QED
    BY <1>3, <1>4, <1>5, <1>6, <1>7, <1>8, <1>9, StepKinds

(* The timer never takes the CPU from HIGH inside mutex_lock() to LOW, or  *)
(* leaves it to LOW, unless HIGH is blocked.                               *)
LEMMA TickSparesHigh ==
  ASSUME IInv, HoldsInBetween, BoostedForBlocked, LowGivesWay, HighOutranksLow, TimerIRQ,
         UNCHANGED at, NEW s \in Tasks, NEW t \in Tasks, Role[s] = "LOW", Role[t] = "HIGH",
         Waiting(t), current_tcb' = s
  PROVE  \/ state'[t] = "BLOCKED"
         \/ current_tcb = s /\ UNCHANGED state
  <1>1. schedule_next /\ TypeOK /\ OnlyCurrentRuns /\ s # t
    BY DEF TimerIRQ, IInv
  <1>2. Woken[t] \in TaskState /\ Woken[t] \notin {"SLEEPING", "RUNNING"}
    <2>1. state[t] # "SLEEPING"
      BY DEF Waiting, IInv, StateMatchesProgram
    <2> QED
      BY <1>1, <2>1, WokenStates
  <1>3. CASE Dispatched(Woken, s) /\ state' = [Woken EXCEPT ![s] = "RUNNING"]
    <2>1. state'[t] = Woken[t]
      BY <1>1, <1>3, WokenStates
    <2>2. ASSUME t \in Runnable(Woken)
          PROVE  FALSE
      <3>1. priority[t] < priority[s] \/ priority[t] = priority[s]
        BY <1>3, <2>2 DEF Dispatched, Selected
      <3>2. priority[t] = BasePriority[t]
        BY DEF Waiting, HoldsInBetween, IInv, PriorityRestored
      <3>3. state[t] # "BLOCKED"
        BY <1>1, <2>2, WokenStates DEF Runnable
      <3>4. priority[s] = BasePriority[s]
        BY <3>3 DEF BoostedForBlocked, IInv, PriorityRestored
      <3>5. BasePriority[s] < BasePriority[t]
        BY DEF HighOutranksLow
      <3>6. BasePriority[s] \in Int /\ BasePriority[t] \in Int
        BY <1>1, <3>2, <3>4, SMT DEF TypeOK
      <3> QED
        BY <3>1, <3>2, <3>4, <3>5, <3>6, SMT
    <2> QED
      BY <1>2, <2>1, <2>2 DEF Runnable, TaskState
  <1> QED
    BY <1>1, <1>3, ScheduleNextCases

LEMMA LowGivesWayStep ==
  ASSUME IInv, AtType, WantsShared, HoldsInBetween, BoostedForBlocked,
         LowGivesWay, HighOutranksLow, [DemoNext]_allVars
  PROVE  LowGivesWay'
  <1> DEFINE Blocked(t) == state[t] = "BLOCKED"
             ToSleep(s) == holds[s] = {} /\ pc[s] = "app" /\ at[s] = "sleep"
             Asleep(s) == holds[s] = {} /\ pc[s] = "sleepSpin" /\ state[s] = "SLEEPING"
             Goal(s, t) == Blocked(t) \/ ToSleep(s) \/ Asleep(s)
  <1> SUFFICES ASSUME NEW s \in Tasks, NEW t \in Tasks, Role[s] = "LOW", Role[t] = "HIGH",
                      current_tcb' = s, Waiting(t)'
               PROVE  Goal(s, t)'
    BY DEF LowGivesWay
  <1>1. /\ s # t
        /\ current_tcb = s /\ Waiting(t) => Goal(s, t)
    BY DEF LowGivesWay
  <1>2. CASE UNCHANGED <<vars, at>>
    BY <1>1, <1>2 DEF vars, tcbVars, schedVars, progVars, Waiting
  <1>3. CASE TimerIRQ /\ UNCHANGED at
    <2>1. pc' = pc /\ holds' = holds /\ Waiting(t)
      BY <1>3 DEF TimerIRQ, progVars, Waiting
    <2> QED
      BY <1>1, <1>3, <2>1, TickSparesHigh
  <1>4. ASSUME AppSteps, UNCHANGED vars, pc[current_tcb] = "app",
               \/ at[current_tcb] = "work" /\ at'[current_tcb] = "unlock"
               \/ Role[current_tcb] \notin Locker
        PROVE  Goal(s, t)'
    <2>1. current_tcb = s /\ Waiting(t) /\ state' = state
      BY <1>4 DEF vars, tcbVars, schedVars, progVars, Waiting
    <2> QED
      BY <1>1, <1>4, <2>1 DEF Locker
  <1>5. ASSUME AppSleeps, at[current_tcb] \in {"sleep", "nap"}
        PROVE  Goal(s, t)'
    <2>1. /\ current_tcb = s /\ holds' = holds
          /\ pc' = [pc EXCEPT ![s] = "sleepSpin"] /\ state' = [state EXCEPT ![s] = "SLEEPING"]
      BY <1>5 DEF AppSleeps, Sleep, task_sleep, Goto
    <2>2. holds[s] = {}
      BY <1>5, <2>1 DEF HoldsInBetween
    <2> QED
      BY <2>1, <2>2 DEF IInv, TypeOK
  <1>6. CASE LockerUnlocks
    <2>1. /\ current_tcb = s /\ pc' = pc /\ pc[s] = "app"
          /\ holds' = [holds EXCEPT ![s] = @ \ {shared_mutex}]
          /\ at' = [at EXCEPT ![s] = "sleep"]
      BY <1>6 DEF LockerUnlocks, Unlock, At, From, To, schedVars
    <2>2. holds[s] \subseteq {shared_mutex}
      BY DEF WantsShared
    <2> QED
      BY <2>1, <2>2 DEF IInv, TypeOK, AtType
  <1>7. CASE LockerLocks \/ LockGranted \/ LockRefused \/ LockSpinEnds \/ SleepSpinEnds
    <2>1. /\ current_tcb = s
          /\ state'[t] = state[t] /\ pc'[t] = pc[t]
      BY <1>1, <1>7 DEF LockerLocks, CallLock, LockGranted, LockRefused, LockSpinEnds,
         SleepSpinEnds, Acquire, Block, Goto, schedVars, tcbVars, IInv, TypeOK
    <2>2. /\ ~(pc[s] = "app" /\ at[s] = "sleep")
          /\ ~(pc[s] = "sleepSpin" /\ state[s] = "SLEEPING")
      BY <1>7, <2>1 DEF LockerLocks, CallLock, From, LockGranted, LockRefused, LockSpinEnds,
         SleepSpinEnds, At
    <2> QED
      BY <1>1, <2>1, <2>2 DEF Waiting
  <1> QED
    BY <1>2, <1>3, <1>4, <1>5, <1>6, <1>7, StepKinds

(* LOW is granted the mutex only from mutex_lock() and only while it is    *)
(* free; a waiting HIGH is then blocked, and blocked tasks wait for a      *)
(* locked mutex.                                                           *)
LEMMA OvertakingStep ==
  ASSUME IInv, AtType, WantsShared, HoldsInBetween, LowGivesWay, NoLostWakeup,
         [DemoNext]_allVars,
         NEW s \in Tasks, NEW t \in Tasks, Role[s] = "LOW", Role[t] = "HIGH",
         holds[s] = {}, holds'[s] # {}
  PROVE  ~Waiting(t)
  <1>1. LockGranted /\ current_tcb = s
    <2>1. ~AppSleeps
      BY DEF AppSleeps, Sleep
    <2>2. ~(LockerLocks \/ LockRefused \/ LockSpinEnds \/ SleepSpinEnds \/ TimerIRQ)
      BY DEF LockerLocks, CallLock, LockRefused, LockSpinEnds, SleepSpinEnds, TimerIRQ, progVars
    <2>3. ~LockerUnlocks /\ ~UNCHANGED vars
      BY DEF LockerUnlocks, Unlock, vars, progVars, IInv, TypeOK
    <2>4. LockGranted
      BY <2>1, <2>2, <2>3, StepKinds
    <2> QED
      BY <2>4 DEF LockGranted, IInv, TypeOK
  <1>2. pc[s] = "lock" /\ ~locked[want[s]]
    BY <1>1 DEF LockGranted, Acquire, At
  <1> SUFFICES ASSUME Waiting(t) PROVE FALSE
    OBVIOUS
  <1>3. state[t] = "BLOCKED"
    BY <1>1, <1>2 DEF LowGivesWay
  <1>4. locked[want[t]]
    BY <1>3 DEF NoLostWakeup
  <1>5. want[t] = want[s]
    BY <1>2 DEF WantsShared, Waiting
  <1> QED
    BY <1>2, <1>4, <1>5

(* LOW never takes the mutex while HIGH is inside mutex_lock(), wherever   *)
(* the timer interrupts either of them (mutex.c:19-24, kernel.c:30-32).    *)
THEOREM HighNotOvertakenHolds ==
  ASSUME HighOutranksLow, NumTasks <= MUTEX_MAX_WAITERS + 1
  PROVE  DemoSpec => HighNotOvertaken
  <1> DEFINE Inv == AtType /\ OnlyLockersLock /\ LockersInv
  <1>1. DemoInit => Inv
    BY InitDInv, InitLockersInv DEF DInv
  <1>2. IInv /\ Inv /\ [DemoNext]_allVars => Inv'
    BY AtTypeStep, OnlyLockersLockStep, WantsSharedStep, HoldsInBetweenStep,
       BoostedForBlockedStep, LowGivesWayStep DEF LockersInv
  <1>3. IInv /\ Inv /\ NoLostWakeup /\ [DemoNext]_allVars =>
          [\A s, t \in Tasks :
             Role[s] = "LOW" /\ Role[t] = "HIGH" /\ holds[s] = {} /\ holds'[s] # {}
               => ~Waiting(t)]_allVars
    BY OvertakingStep DEF LockersInv
  <1>4. Spec => []NoLostWakeup
    BY NoLostWakeupHolds
  <1> QED
    BY <1>1, <1>2, <1>3, <1>4, IInvHolds, DemoRunsKernel, PTL DEF DemoSpec, HighNotOvertaken

=============================================================================
