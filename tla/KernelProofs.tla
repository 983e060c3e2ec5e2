---------------------------- MODULE KernelProofs ----------------------------
(***************************************************************************)
(* Proofs that the running kernel keeps the properties Kernel.tla states,  *)
(* for any number of tasks and mutexes, any priorities and any sleeps.     *)
(*                                                                         *)
(* Every invariant follows from IInv, the conjunction of the named parts   *)
(* below.  The two results about priorities assume MaxHeld <= 1 (the only  *)
(* way kernel.c uses mutexes); the one about lost wake-ups assumes that    *)
(* the wait list is long enough.  The run nested_inheritance shows that    *)
(* the first assumption is needed.                                         *)
(***************************************************************************)
EXTENDS Kernel, Recursion, FiniteSetTheorems, TLAPS

(* A task is past mutex_lock() on m exactly when it is in m->owner.        *)
HolderIsOwner ==
  \A t \in Tasks, m \in Mutexes : m \in holds[t] <=> owner[m] = t

(* m->locked and m->owner are set and cleared together.                    *)
LockedHasOwner ==
  \A m \in Mutexes : locked[m] <=> owner[m] # NoTask

(* Inside mutex_lock() a task waits for a mutex, which it does not hold.   *)
WantsMutex ==
  \A t \in Tasks : pc[t] \in {"lock", "lockSpin"} => want[t] \in Mutexes
WantsAnother ==
  \A t \in Tasks : pc[t] \in {"lock", "lockSpin"} => want[t] \notin holds[t]

(* A task is blocked, or asleep, only where it spins on its own state.     *)
StateMatchesProgram ==
  \A t \in Tasks :
    /\ state[t] = "BLOCKED" => pc[t] = "lockSpin"
    /\ state[t] = "SLEEPING" => pc[t] = "sleepSpin"

(* While ticks are owed, wake_tick is as many ticks ahead.                 *)
WakeTickIsOwed ==
  \A t \in Tasks :
    state[t] = "SLEEPING" /\ owed[t] > 0 => wake_tick[t] = Wrap(g_tick_count + owed[t])

(* With one mutex at a time, a task that waits for one holds none.         *)
WaitersHoldNothing ==
  MaxHeld <= 1 =>
    \A t \in Tasks :
      /\ pc[t] \in {"lock", "lockSpin"} => holds[t] = {}
      /\ \A m, n \in holds[t] : m = n

IInv ==
  /\ TypeOK
  /\ WantsMutex
  /\ HolderIsOwner
  /\ LockedHasOwner
  /\ WantsAnother
  /\ StateMatchesProgram
  /\ WakeTickIsOwed
  /\ WaitersHoldNothing
  /\ NoStaleWaiter
  /\ OnlyCurrentRuns
  /\ PriorityRestored
  /\ CorruptedTaskStaysCurrent

-----------------------------------------------------------------------------
(* uint32_t addition stays in range.                                       *)
LEMMA WrapInRange ==
  ASSUME NEW a \in 0..(TickMod - 1), NEW b \in 0..TickMod
  PROVE  Wrap(a + b) \in 0..(TickMod - 1)
BY TickAssumption DEF Wrap

(* The scheduler keeps the types of what it changes.                       *)
LEMMA ScheduleNextTypes ==
  ASSUME TypeOK, schedule_next
  PROVE  /\ state' \in [Tasks -> TaskState]
         /\ g_tick_count' \in 0..(TickMod - 1)
         /\ current_tcb' \in Tasks
         /\ current_index' \in Tasks
         /\ halted' \in BOOLEAN
<1>1. g_tick_count' \in 0..(TickMod - 1)
  <2>1. 1 \in 0..TickMod
    BY TickAssumption
  <2> QED
    BY <2>1, WrapInRange DEF TypeOK, schedule_next
<1>2. CASE CheckCurrent
  BY <1>1, <1>2 DEF TypeOK, schedule_next
<1>3. CASE ~CheckCurrent
  <2> DEFINE woken == WakeDue(Yield(state), Wrap(g_tick_count + 1))
  <2>1. Yield(state) \in [Tasks -> TaskState]
    BY DEF Yield, TypeOK, TaskState
  <2>2. woken \in [Tasks -> TaskState]
    BY <2>1 DEF WakeDue, TaskState
  <2>3. PICK t \in Tasks :
          /\ state' = [woken EXCEPT ![t] = "RUNNING"]
          /\ current_tcb' = t
          /\ current_index' = IF Runnable(woken) = {} THEN current_index ELSE t
          /\ UNCHANGED halted
    BY <1>3 DEF schedule_next
  <2> HIDE DEF woken
  <2> QED
    BY <1>1, <2>2, <2>3 DEF TypeOK, TaskState
<1> QED
  BY <1>2, <1>3

(* TypeOK is inductive once mutex_lock() is known to have an argument.     *)
LEMMA TypeStep == TypeOK /\ WantsMutex /\ [Next]_vars => TypeOK'
<1> SUFFICES ASSUME TypeOK, WantsMutex, [Next]_vars PROVE TypeOK'
  OBVIOUS
<1> USE DEF TypeOK
<1>1. ASSUME NEW m \in Mutexes, CallLock(m) PROVE TypeOK'
  BY <1>1 DEF CallLock, Goto, PC, tcbVars, schedVars, mutexVars
<1>2. ASSUME NEW m \in Mutexes, Unlock(m) PROVE TypeOK'
  <2>1. /\ RestorePriority \in [Tasks -> 0..MAX_PRIORITY]
        /\ WakeWaiters(m) \in [Tasks -> TaskState]
        /\ ClearWaiters(m) \in [Mutexes -> SUBSET Tasks]
    BY TaskAssumption DEF RestorePriority, WakeWaiters, ClearWaiters, TaskState, Tasks
  <2>2. /\ UNCHANGED <<wake_tick, canary, schedVars, pc, want, owed>>
        /\ holds' \in [Tasks -> SUBSET Mutexes]
    BY <1>2 DEF Unlock
  <2>3. CASE IsOwner(m)
    BY <1>2, <2>1, <2>2, <2>3 DEF Unlock, mutex_unlock, IsOwner, schedVars
  <2>4. CASE ~IsOwner(m)
    BY <1>2, <2>2, <2>4 DEF Unlock, mutex_unlock, IsOwner, schedVars
  <2> QED
    BY <2>3, <2>4
<1>3. ASSUME NEW ticks \in SleepTicks, Sleep(ticks) PROVE TypeOK'
  <2>1. ticks \in 0..(TickMod - 1) /\ ticks \in 0..TickMod
    BY KernelAssumption, TickAssumption
  <2>2. SleepUntil(ticks) \in 0..(TickMod - 1)
    BY <2>1, WrapInRange DEF SleepUntil
  <2> QED
    BY <1>3, <2>1, <2>2
    DEF Sleep, task_sleep, Goto, PC, TaskState, mutexVars
<1>4. CASE LockGranted
  <2>1. want[current_tcb] \in Mutexes
    BY <1>4 DEF WantsMutex, LockGranted, At
  <2> QED
    BY <1>4, <2>1 DEF LockGranted, Acquire, Goto, PC, schedVars
<1>5. CASE LockRefused
  <2>1. want[current_tcb] \in Mutexes
    BY <1>5 DEF WantsMutex, LockRefused, At
  <2>2. /\ Boost(want[current_tcb]) \in [Tasks -> 0..MAX_PRIORITY]
        /\ Register(want[current_tcb]) \in SUBSET Tasks
    BY <2>1 DEF Boost, Register
  <2> QED
    BY <1>5, <2>2
    DEF LockRefused, Block, Goto, PC, TaskState, schedVars
<1>6. CASE LockSpinEnds
  BY <1>6 DEF LockSpinEnds, Goto, PC, tcbVars, schedVars, mutexVars
<1>7. CASE SleepSpinEnds
  BY <1>7 DEF SleepSpinEnds, Goto, PC, tcbVars, schedVars, mutexVars
<1>8. CASE StackOverflow
  BY <1>8 DEF StackOverflow, schedVars, mutexVars, progVars
<1>9. CASE TimerIRQ
  <2>1. schedule_next /\ UNCHANGED <<priority, wake_tick, canary, mutexVars, progVars>>
    BY <1>9 DEF TimerIRQ, schedule_next
  <2>2. owed' \in [Tasks -> 0..(TickMod - 1)]
    BY <1>9, TickAssumption DEF TimerIRQ
  <2> QED
    BY <2>1, <2>2, ScheduleNextTypes DEF mutexVars, progVars
<1>10. CASE Halted \/ UNCHANGED vars
  BY <1>10 DEF Halted, vars, tcbVars, schedVars, mutexVars, progVars
<1> QED
  BY <1>1, <1>2, <1>3, <1>4, <1>5, <1>6, <1>7, <1>8, <1>9, <1>10
  DEF Next, KernelStep

LEMMA WantsMutexStep == TypeOK /\ WantsMutex /\ [Next]_vars => WantsMutex'
<1> SUFFICES ASSUME TypeOK, WantsMutex, [Next]_vars PROVE WantsMutex'
  OBVIOUS
<1> USE DEF TypeOK, WantsMutex
<1>1. ASSUME NEW m \in Mutexes, CallLock(m) PROVE WantsMutex'
  BY <1>1 DEF CallLock, Goto, PC
<1>2. CASE LockGranted \/ LockRefused \/ LockSpinEnds
  BY <1>2 DEF LockGranted, LockRefused, LockSpinEnds, At, Goto, PC
<1>3. CASE SleepSpinEnds \/ \E ticks \in SleepTicks : Sleep(ticks)
  BY <1>3 DEF SleepSpinEnds, Sleep, Goto, PC
<1>4. CASE UNCHANGED <<pc, want>>
  BY <1>4
<1>5. CASE \/ \E m \in Mutexes : Unlock(m)
           \/ StackOverflow \/ TimerIRQ \/ Halted \/ UNCHANGED vars
  BY <1>4, <1>5 DEF Unlock, StackOverflow, TimerIRQ, Halted, vars, progVars
<1> QED
  BY <1>1, <1>2, <1>3, <1>5 DEF Next, KernelStep

LEMMA TypeInit == Init => TypeOK /\ WantsMutex
<1>1. 0 \in Tasks
  BY TaskAssumption DEF Tasks
<1>2. 0 \in 0..(TickMod - 1)
  BY TickAssumption
<1> SUFFICES ASSUME Init PROVE TypeOK /\ WantsMutex
  OBVIOUS
<1>3. /\ state \in [Tasks -> TaskState]
      /\ priority \in [Tasks -> 0..MAX_PRIORITY]
      /\ canary \in [Tasks -> BOOLEAN]
  BY TaskAssumption DEF Init, TaskInit, TaskState, Tasks
<1>4. /\ wake_tick \in [Tasks -> 0..(TickMod - 1)]
      /\ owed \in [Tasks -> 0..(TickMod - 1)]
  BY <1>2 DEF Init, TaskInit
<1>5. pc = [t \in Tasks |-> "app"]
  BY DEF Init
<1> QED
  BY <1>1, <1>2, <1>3, <1>4, <1>5 DEF Init, SchedulerInit, MutexInit, TypeOK, WantsMutex, PC

(* Every variable of the kernel keeps its type: in particular current_tcb  *)
(* is never null once the scheduler has started, and priorities and ticks  *)
(* stay in the range of uint8_t and of the counter.                        *)
THEOREM TypeCorrect == Spec => []TypeOK
BY TypeInit, TypeStep, WantsMutexStep, PTL DEF Spec

-----------------------------------------------------------------------------
(* Ownership.                                                              *)

LEMMA HolderIsOwnerStep ==
  TypeOK /\ WantsMutex /\ LockedHasOwner /\ HolderIsOwner /\ [Next]_vars => HolderIsOwner'
<1> SUFFICES ASSUME TypeOK, WantsMutex, LockedHasOwner, HolderIsOwner, [Next]_vars
             PROVE  HolderIsOwner'
  OBVIOUS
<1>0. NoTask \notin Tasks
  BY DEF NoTask, Tasks
<1>1. CASE LockGranted
  <2>1. want[current_tcb] \in Mutexes /\ owner[want[current_tcb]] = NoTask
    BY <1>1 DEF LockGranted, At, Acquire, WantsMutex, LockedHasOwner, TypeOK
  <2> QED
    BY <1>0, <1>1, <2>1 DEF LockGranted, Acquire, HolderIsOwner, TypeOK
<1>2. ASSUME NEW m \in Mutexes, Unlock(m) PROVE HolderIsOwner'
  <2>1. CASE IsOwner(m)
    BY <1>0, <1>2, <2>1 DEF Unlock, mutex_unlock, IsOwner, HolderIsOwner, TypeOK
  <2>2. CASE ~IsOwner(m)
    BY <1>2, <2>2 DEF Unlock, mutex_unlock, IsOwner, HolderIsOwner, TypeOK
  <2> QED
    BY <2>1, <2>2
<1>3. CASE UNCHANGED <<holds, owner>>
  BY <1>3 DEF HolderIsOwner
<1>4. CASE \/ \E m \in Mutexes : CallLock(m)
           \/ \E ticks \in SleepTicks : Sleep(ticks)
           \/ LockRefused \/ LockSpinEnds \/ SleepSpinEnds
           \/ StackOverflow \/ TimerIRQ \/ Halted \/ UNCHANGED vars
  BY <1>3, <1>4
  DEF CallLock, Sleep, LockRefused, Block, LockSpinEnds, SleepSpinEnds,
      StackOverflow, TimerIRQ, Halted, vars, mutexVars, progVars
<1> QED
  BY <1>1, <1>2, <1>4 DEF Next, KernelStep

LEMMA LockedHasOwnerStep == TypeOK /\ WantsMutex /\ LockedHasOwner /\ [Next]_vars => LockedHasOwner'
<1> SUFFICES ASSUME TypeOK, WantsMutex, LockedHasOwner, [Next]_vars PROVE LockedHasOwner'
  OBVIOUS
<1>0. NoTask \notin Tasks
  BY DEF NoTask, Tasks
<1>1. CASE LockGranted
  BY <1>0, <1>1 DEF LockGranted, Acquire, LockedHasOwner, TypeOK
<1>2. ASSUME NEW m \in Mutexes, Unlock(m) PROVE LockedHasOwner'
  BY <1>2 DEF Unlock, mutex_unlock, IsOwner, LockedHasOwner, TypeOK
<1>3. CASE UNCHANGED <<locked, owner>>
  BY <1>3 DEF LockedHasOwner
<1>4. CASE \/ \E m \in Mutexes : CallLock(m)
           \/ \E ticks \in SleepTicks : Sleep(ticks)
           \/ LockRefused \/ LockSpinEnds \/ SleepSpinEnds
           \/ StackOverflow \/ TimerIRQ \/ Halted \/ UNCHANGED vars
  BY <1>3, <1>4
  DEF CallLock, Sleep, LockRefused, Block, LockSpinEnds, SleepSpinEnds,
      StackOverflow, TimerIRQ, Halted, vars, mutexVars
<1> QED
  BY <1>1, <1>2, <1>4 DEF Next, KernelStep

LEMMA WantsAnotherStep == TypeOK /\ WantsMutex /\ WantsAnother /\ [Next]_vars => WantsAnother'
<1> SUFFICES ASSUME TypeOK, WantsMutex, WantsAnother, [Next]_vars PROVE WantsAnother'
  OBVIOUS
<1> USE DEF TypeOK, WantsAnother
<1>1. ASSUME NEW m \in Mutexes, CallLock(m) PROVE WantsAnother'
  BY <1>1 DEF CallLock, Goto, PC
<1>2. ASSUME NEW m \in Mutexes, Unlock(m) PROVE WantsAnother'
  BY <1>2 DEF Unlock
<1>3. CASE LockGranted
  BY <1>3 DEF LockGranted, Goto, PC
<1>4. CASE LockRefused \/ LockSpinEnds
  BY <1>4 DEF LockRefused, LockSpinEnds, At, Goto, PC
<1>5. CASE SleepSpinEnds \/ \E ticks \in SleepTicks : Sleep(ticks)
  BY <1>5 DEF SleepSpinEnds, Sleep, Goto, PC
<1>6. CASE StackOverflow \/ TimerIRQ \/ Halted \/ UNCHANGED vars
  BY <1>6 DEF StackOverflow, TimerIRQ, Halted, vars, progVars
<1> QED
  BY <1>1, <1>2, <1>3, <1>4, <1>5, <1>6 DEF Next, KernelStep

(* With MaxHeld <= 1, mutex_lock() is only called empty-handed.            *)
LEMMA WaitersHoldNothingStep ==
  TypeOK /\ WantsMutex /\ WaitersHoldNothing /\ [Next]_vars => WaitersHoldNothing'
<1> SUFFICES ASSUME TypeOK, WantsMutex, WaitersHoldNothing, MaxHeld <= 1, [Next]_vars
             PROVE  WaitersHoldNothing'
  BY DEF WaitersHoldNothing
<1> USE DEF TypeOK, WaitersHoldNothing
<1>1. ASSUME NEW m \in Mutexes, CallLock(m) PROVE WaitersHoldNothing'
  <2>1. IsFiniteSet(holds[current_tcb])
    BY MutexAssumption, FS_Subset
  <2>2. Cardinality(holds[current_tcb]) \in Nat /\ Cardinality(holds[current_tcb]) < MaxHeld
    BY <1>1, <2>1, FS_CardinalityType DEF CallLock
  <2>3. Cardinality(holds[current_tcb]) = 0
    BY <2>2, KernelAssumption
  <2>4. holds[current_tcb] = {}
    BY <2>1, <2>3, FS_EmptySet
  <2> QED
    BY <1>1, <2>4 DEF CallLock, Goto, PC
<1>2. ASSUME NEW m \in Mutexes, Unlock(m) PROVE WaitersHoldNothing'
  BY <1>2 DEF Unlock
<1>3. CASE LockGranted
  BY <1>3 DEF LockGranted, At, Goto, PC
<1>4. CASE LockRefused \/ LockSpinEnds
  BY <1>4 DEF LockRefused, LockSpinEnds, At, Goto, PC
<1>5. CASE SleepSpinEnds \/ \E ticks \in SleepTicks : Sleep(ticks)
  BY <1>5 DEF SleepSpinEnds, Sleep, Goto, PC
<1>6. CASE StackOverflow \/ TimerIRQ \/ Halted \/ UNCHANGED vars
  BY <1>6 DEF StackOverflow, TimerIRQ, Halted, vars, progVars
<1> QED
  BY <1>1, <1>2, <1>3, <1>4, <1>5, <1>6 DEF Next, KernelStep

LEMMA OwnershipInit == Init => HolderIsOwner /\ LockedHasOwner /\ WantsAnother /\ WaitersHoldNothing
BY DEF Init, MutexInit, HolderIsOwner, LockedHasOwner, WantsAnother, WaitersHoldNothing, NoTask, Tasks

(* No two tasks are ever past mutex_lock() on the same mutex, whatever     *)
(* preemption does between the critical sections.                          *)
THEOREM MutualExclusionHolds == Spec => []MutualExclusion
<1>1. HolderIsOwner => MutualExclusion
  BY DEF HolderIsOwner, MutualExclusion
<1> QED
  BY <1>1, TypeInit, TypeStep, WantsMutexStep, OwnershipInit,
     HolderIsOwnerStep, LockedHasOwnerStep, PTL DEF Spec

-----------------------------------------------------------------------------
(* What one timer interrupt does to the task states.                       *)

Woken == WakeDue(Yield(state), Wrap(g_tick_count + 1))

(* Before the selection: RUNNING has become READY, due sleepers are READY, *)
(* and nobody else has changed.                                            *)
LEMMA WokenStates ==
  ASSUME TypeOK, OnlyCurrentRuns, NEW t \in Tasks
  PROVE  /\ Woken \in [Tasks -> TaskState]
         /\ Woken[t] # "RUNNING"
         /\ Woken[t] \in {"BLOCKED", "SLEEPING"} => state[t] = Woken[t]
         /\ state[t] = "BLOCKED" => Woken[t] = "BLOCKED"
         /\ state[t] = "SLEEPING" => 
              Woken[t] = IF Wrap(g_tick_count + 1) >= wake_tick[t] THEN "READY" ELSE "SLEEPING"
<1>1. /\ Yield(state) \in [Tasks -> TaskState]
      /\ Yield(state)[t] = IF state[t] = "RUNNING" THEN "READY" ELSE state[t]
  BY DEF Yield, TypeOK, OnlyCurrentRuns, TaskState
<1> QED
  BY <1>1 DEF Woken, WakeDue, TypeOK, TaskState

(* Either the canary of the interrupted task is gone and the system halts, *)
(* or a task is dispatched.                                                *)
LEMMA ScheduleNextCases ==
  ASSUME TypeOK, schedule_next
  PROVE  \/ /\ ~canary[current_tcb]
            /\ halted'
            /\ UNCHANGED <<state, current_tcb, current_index>>
         \/ /\ canary[current_tcb]
            /\ current_tcb' \in Tasks
            /\ Dispatched(Woken, current_tcb')
            /\ state' = [Woken EXCEPT ![current_tcb'] = "RUNNING"]
            /\ current_index' = IF Runnable(Woken) = {} THEN current_index ELSE current_tcb'
            /\ UNCHANGED halted
BY DEF schedule_next, Woken, CheckCurrent, task_check_stack_overflow, TypeOK

(* A tick never blocks a task and never puts one to sleep.                 *)
LEMMA ScheduleNextOnlyWakes ==
  ASSUME TypeOK, OnlyCurrentRuns, schedule_next, NEW t \in Tasks,
         state'[t] \in {"BLOCKED", "SLEEPING"}
  PROVE  state[t] = state'[t]
BY ScheduleNextCases, WokenStates DEF TypeOK

LEMMA OnlyCurrentRunsStep == TypeOK /\ OnlyCurrentRuns /\ [Next]_vars => OnlyCurrentRuns'
<1> SUFFICES ASSUME TypeOK, OnlyCurrentRuns, [Next]_vars PROVE OnlyCurrentRuns'
  OBVIOUS
<1>1. CASE TimerIRQ
  <2> SUFFICES ASSUME NEW t \in Tasks, state'[t] = "RUNNING" PROVE t = current_tcb'
    BY DEF OnlyCurrentRuns
  <2>1. schedule_next
    BY <1>1 DEF TimerIRQ
  <2>2. CASE UNCHANGED <<state, current_tcb>>
    BY <2>2 DEF OnlyCurrentRuns
  <2>3. CASE state' = [Woken EXCEPT ![current_tcb'] = "RUNNING"]
    BY <2>3, WokenStates
  <2> QED
    BY <2>1, <2>2, <2>3, ScheduleNextCases
<1>2. ASSUME NEW m \in Mutexes, Unlock(m) PROVE OnlyCurrentRuns'
  BY <1>2 DEF Unlock, mutex_unlock, IsOwner, WakeWaiters, schedVars, OnlyCurrentRuns, TypeOK
<1>3. CASE LockRefused
  BY <1>3 DEF LockRefused, Block, schedVars, OnlyCurrentRuns, TypeOK
<1>4. CASE \E ticks \in SleepTicks : Sleep(ticks)
  BY <1>4 DEF Sleep, task_sleep, OnlyCurrentRuns, TypeOK
<1>5. CASE UNCHANGED <<state, current_tcb>>
  BY <1>5 DEF OnlyCurrentRuns
<1>6. CASE \/ \E m \in Mutexes : CallLock(m)
           \/ LockGranted \/ LockSpinEnds \/ SleepSpinEnds
           \/ StackOverflow \/ Halted \/ UNCHANGED vars
  BY <1>5, <1>6
  DEF CallLock, LockGranted, Acquire, LockSpinEnds, SleepSpinEnds,
      StackOverflow, Halted, vars, tcbVars, schedVars
<1> QED
  BY <1>1, <1>2, <1>3, <1>4, <1>6 DEF Next, KernelStep

(* There is one CPU: whatever mixture of blocking, sleeping, waking and    *)
(* idling came before, a task marked RUNNING is the one in current_tcb.    *)
THEOREM OnlyCurrentRunsHolds == Spec => []OnlyCurrentRuns
<1>1. Init => OnlyCurrentRuns
  BY DEF Init, TaskInit, SchedulerInit, OnlyCurrentRuns, Tasks
<1> QED
  BY <1>1, TypeInit, TypeStep, WantsMutexStep, OnlyCurrentRunsStep, PTL DEF Spec

LEMMA StateMatchesProgramStep ==
  TypeOK /\ OnlyCurrentRuns /\ StateMatchesProgram /\ [Next]_vars => StateMatchesProgram'
<1> SUFFICES ASSUME TypeOK, OnlyCurrentRuns, StateMatchesProgram, [Next]_vars
             PROVE  StateMatchesProgram'
  OBVIOUS
<1>1. CASE TimerIRQ
  <2>1. schedule_next /\ pc' = pc
    BY <1>1 DEF TimerIRQ, progVars
  <2> QED
    BY <2>1, ScheduleNextOnlyWakes DEF StateMatchesProgram
<1> USE DEF TypeOK, StateMatchesProgram
<1>2. ASSUME NEW m \in Mutexes, CallLock(m) \/ Unlock(m) PROVE StateMatchesProgram'
  BY <1>2 DEF CallLock, Unlock, mutex_unlock, IsOwner, WakeWaiters, At, Goto, tcbVars
<1>3. CASE LockRefused
  BY <1>3 DEF LockRefused, Block, Goto, PC
<1>4. CASE \E ticks \in SleepTicks : Sleep(ticks)
  BY <1>4 DEF Sleep, task_sleep, Goto, PC
<1>5. CASE LockGranted
  BY <1>5 DEF LockGranted, Acquire, At, Goto
<1>6. CASE LockSpinEnds \/ SleepSpinEnds
  BY <1>6 DEF LockSpinEnds, SleepSpinEnds, At, Goto, tcbVars
<1>7. CASE StackOverflow \/ Halted \/ UNCHANGED vars
  BY <1>7 DEF StackOverflow, Halted, vars, tcbVars, progVars
<1> QED
  BY <1>1, <1>2, <1>3, <1>4, <1>5, <1>6, <1>7 DEF Next, KernelStep

LEMMA StateMatchesProgramInit == Init => StateMatchesProgram /\ OnlyCurrentRuns
BY DEF Init, TaskInit, SchedulerInit, StateMatchesProgram, OnlyCurrentRuns, Tasks

-----------------------------------------------------------------------------
(* Wait lists.                                                             *)

LEMMA NoStaleWaiterStep == TypeOK /\ WantsMutex /\ NoStaleWaiter /\ [Next]_vars => NoStaleWaiter'
<1> SUFFICES ASSUME TypeOK, WantsMutex, NoStaleWaiter, [Next]_vars PROVE NoStaleWaiter'
  OBVIOUS
<1> USE DEF TypeOK, NoStaleWaiter
<1>1. ASSUME NEW m \in Mutexes, CallLock(m) PROVE NoStaleWaiter'
  BY <1>1 DEF CallLock, At, Goto, mutexVars
<1>2. ASSUME NEW m \in Mutexes, Unlock(m) PROVE NoStaleWaiter'
  BY <1>2 DEF Unlock, mutex_unlock, IsOwner, ClearWaiters
<1>3. CASE LockGranted
  BY <1>3 DEF LockGranted, Acquire, At, Goto
<1>4. CASE LockRefused
  <2>1. want[current_tcb] \in Mutexes
    BY <1>4 DEF LockRefused, At, WantsMutex
  <2> QED
    BY <1>4, <2>1 DEF LockRefused, Block, Register, At, Goto
<1>5. CASE LockSpinEnds
  BY <1>5 DEF LockSpinEnds, At, Goto, mutexVars
<1>6. CASE SleepSpinEnds \/ \E ticks \in SleepTicks : Sleep(ticks)
  BY <1>6 DEF SleepSpinEnds, Sleep, At, Goto, mutexVars
<1>7. CASE StackOverflow \/ TimerIRQ \/ Halted \/ UNCHANGED vars
  BY <1>7 DEF StackOverflow, TimerIRQ, Halted, vars, mutexVars, progVars
<1> QED
  BY <1>1, <1>2, <1>3, <1>4, <1>5, <1>6, <1>7 DEF Next, KernelStep

LEMMA NoStaleWaiterInit == Init => NoStaleWaiter
BY DEF Init, MutexInit, NoStaleWaiter

(* mutex_unlock() only ever wakes tasks that wait for this very mutex.     *)
THEOREM NoStaleWaiterHolds == Spec => []NoStaleWaiter
BY NoStaleWaiterInit, TypeInit, TypeStep, WantsMutexStep, NoStaleWaiterStep, PTL DEF Spec

-----------------------------------------------------------------------------
(* Priorities.                                                             *)

LEMMA PriorityRestoredStep ==
  TypeOK /\ WantsMutex /\ HolderIsOwner /\ PriorityRestored /\ [Next]_vars => PriorityRestored'
<1> SUFFICES ASSUME TypeOK, WantsMutex, HolderIsOwner, PriorityRestored, [Next]_vars
             PROVE  PriorityRestored'
  OBVIOUS
<1>1. CASE LockGranted
  BY <1>1 DEF LockGranted, Acquire, PriorityRestored, TypeOK
<1>2. CASE LockRefused
  <2> DEFINE m == want[current_tcb]
  <2>1. m \in Mutexes
    BY <1>2 DEF LockRefused, At, WantsMutex, TypeOK
  <2>2. priority' = Boost(m) /\ holds' = holds
    BY <1>2 DEF LockRefused, Block
  <2>3. \A t \in Tasks : priority'[t] # priority[t] => m \in holds[t]
    BY <2>1, <2>2 DEF Boost, HolderIsOwner, TypeOK
  <2> QED
    BY <2>2, <2>3 DEF PriorityRestored
<1>3. ASSUME NEW m \in Mutexes, Unlock(m) PROVE PriorityRestored'
  <2>1. CASE IsOwner(m)
    BY <1>3, <2>1 DEF Unlock, mutex_unlock, IsOwner, RestorePriority, PriorityRestored, TypeOK
  <2>2. CASE ~IsOwner(m)
    <3>1. holds' = holds
      BY <1>3, <2>2 DEF IsOwner, Unlock, HolderIsOwner, TypeOK
    <3> QED
      BY <1>3, <2>2, <3>1 DEF Unlock, mutex_unlock, IsOwner, PriorityRestored
  <2> QED
    BY <2>1, <2>2
<1>4. CASE UNCHANGED <<priority, holds>>
  BY <1>4 DEF PriorityRestored
<1>5. CASE \/ \E m \in Mutexes : CallLock(m)
           \/ \E ticks \in SleepTicks : Sleep(ticks)
           \/ LockSpinEnds \/ SleepSpinEnds
           \/ StackOverflow \/ TimerIRQ \/ Halted \/ UNCHANGED vars
  BY <1>4, <1>5
  DEF CallLock, Sleep, task_sleep, LockSpinEnds, SleepSpinEnds,
      StackOverflow, TimerIRQ, schedule_next, Halted, vars, tcbVars, progVars
<1> QED
  BY <1>1, <1>2, <1>3, <1>5 DEF Next, KernelStep

(* A boost raises one owner to the priority of the task that blocks.       *)
LEMMA BoostRaises ==
  ASSUME TypeOK, NEW m \in Mutexes, NEW t \in Tasks
  PROVE  /\ Boost(m)[t] >= priority[t]
         /\ Boost(m)[t] # priority[t] => t = owner[m]
         /\ t = owner[m] => Boost(m)[t] >= priority[current_tcb]
<1>1. /\ priority[t] \in Int
      /\ priority[current_tcb] \in Int
      /\ owner[m] # NoTask => owner[m] \in Tasks /\ priority[owner[m]] \in Int
  <2>1. priority \in [Tasks -> Int]
    BY DEF TypeOK
  <2>2. owner[m] \in Tasks \cup {NoTask}
    BY DEF TypeOK
  <2> QED
    BY <2>1, <2>2 DEF TypeOK
<1>2. NoTask \notin Tasks
  BY DEF NoTask, Tasks
<1>3. CASE owner[m] # NoTask /\ priority[current_tcb] > priority[owner[m]]
  BY <1>1, <1>3 DEF Boost, TypeOK
<1>4. CASE ~(owner[m] # NoTask /\ priority[current_tcb] > priority[owner[m]])
  <2>1. Boost(m) = priority
    BY <1>4 DEF Boost
  <2> QED
    BY <1>1, <1>2, <1>4, <2>1
<1> QED
  BY <1>3, <1>4

LEMMA OwnerInheritsPriorityStep ==
  IInv /\ MaxHeld <= 1 /\ OwnerInheritsPriority /\ [Next]_vars => OwnerInheritsPriority'
<1> SUFFICES ASSUME IInv, MaxHeld <= 1, OwnerInheritsPriority, [Next]_vars
             PROVE  OwnerInheritsPriority'
  OBVIOUS
<1>0. \A m \in Mutexes : \A t \in waiters[m] :
        t \in Tasks /\ holds[t] = {} /\ t # owner[m]
  BY DEF IInv, TypeOK, NoStaleWaiter, WaitersHoldNothing, HolderIsOwner
<1>1. CASE LockGranted
  BY <1>1 DEF IInv, LockGranted, Acquire, NoStaleWaiter, OwnerInheritsPriority, TypeOK
<1>2. CASE LockRefused
  <2> DEFINE w == want[current_tcb]
  <2>1. w \in Mutexes /\ w \notin holds[current_tcb] /\ holds[current_tcb] = {}
    BY <1>2 DEF IInv, LockRefused, At, WantsMutex, WantsAnother, WaitersHoldNothing, TypeOK
  <2>2. /\ priority' = Boost(w) /\ owner' = owner
        /\ waiters' = [waiters EXCEPT ![w] = Register(w)]
        /\ locked[w]
    BY <1>2 DEF LockRefused, Block
  <2>3. owner[w] \in Tasks /\ owner[w] # current_tcb /\ holds[owner[w]] # {}
    BY <2>1, <2>2 DEF IInv, LockedHasOwner, HolderIsOwner, TypeOK
  <2> SUFFICES ASSUME NEW m \in Mutexes, NEW t \in waiters'[m]
               PROVE  owner[m] # NoTask /\ Boost(w)[owner[m]] >= Boost(w)[t]
    BY <2>2 DEF OwnerInheritsPriority
  <2> HIDE DEF w
  <2>4. CASE t \in waiters[m]
    <3>1. owner[m] \in Tasks /\ priority[owner[m]] >= priority[t]
      BY <2>4 DEF OwnerInheritsPriority, IInv, TypeOK
    <3>2. t \in Tasks /\ t # owner[w]
      BY <1>0, <2>3, <2>4
    <3>3. Boost(w)[t] = priority[t] /\ Boost(w)[owner[m]] >= priority[owner[m]]
      BY <2>1, <3>1, <3>2, BoostRaises DEF IInv
    <3>4. /\ priority[t] \in Int /\ priority[owner[m]] \in Int
          /\ Boost(w)[owner[m]] \in Int
      BY <3>1, <3>2 DEF IInv, TypeOK, Boost
    <3> QED
      BY <3>1, <3>3, <3>4 DEF NoTask, Tasks
  <2>5. CASE m = w /\ t = current_tcb
    <3>1. Boost(w)[t] = priority[t] /\ Boost(w)[owner[w]] >= priority[t]
      BY <2>1, <2>3, <2>5, BoostRaises DEF IInv, TypeOK
    <3> QED
      BY <2>3, <2>5, <3>1 DEF NoTask, Tasks
  <2> QED
    BY <2>1, <2>2, <2>4, <2>5 DEF Register, IInv, TypeOK
<1>3. ASSUME NEW m \in Mutexes, Unlock(m) PROVE OwnerInheritsPriority'
  <2>1. CASE IsOwner(m)
    <3>1. /\ priority' = [priority EXCEPT ![current_tcb] = BasePriority[current_tcb]]
          /\ owner' = [owner EXCEPT ![m] = NoTask]
          /\ waiters' = [waiters EXCEPT ![m] = {}]
          /\ pc[current_tcb] = "app"
      BY <1>3, <2>1 DEF Unlock, At, mutex_unlock, IsOwner, RestorePriority, ClearWaiters
    <3>2. ASSUME NEW n \in Mutexes, NEW t \in waiters'[n]
          PROVE  owner'[n] # NoTask /\ priority'[owner'[n]] >= priority'[t]
      <4>1. n # m /\ t \in waiters[n] /\ owner'[n] = owner[n]
        BY <3>1, <3>2 DEF IInv, TypeOK
      <4>2. t # current_tcb
        BY <3>1, <4>1 DEF IInv, NoStaleWaiter
      <4>3. owner[n] # current_tcb
        BY <2>1, <4>1 DEF IsOwner, IInv, HolderIsOwner, WaitersHoldNothing, TypeOK
      <4> QED
        BY <3>1, <4>1, <4>2, <4>3 DEF IInv, TypeOK, OwnerInheritsPriority
    <3> QED
      BY <3>2 DEF OwnerInheritsPriority
  <2>2. CASE ~IsOwner(m)
    BY <1>3, <2>2 DEF Unlock, mutex_unlock, IsOwner, OwnerInheritsPriority
  <2> QED
    BY <2>1, <2>2
<1>4. CASE UNCHANGED <<priority, owner, waiters>>
  BY <1>4 DEF OwnerInheritsPriority
<1>5. CASE \/ \E m \in Mutexes : CallLock(m)
           \/ \E ticks \in SleepTicks : Sleep(ticks)
           \/ LockSpinEnds \/ SleepSpinEnds
           \/ StackOverflow \/ TimerIRQ \/ Halted \/ UNCHANGED vars
  BY <1>4, <1>5
  DEF CallLock, Sleep, task_sleep, LockSpinEnds, SleepSpinEnds,
      StackOverflow, TimerIRQ, schedule_next, Halted, vars, tcbVars, mutexVars
<1> QED
  BY <1>1, <1>2, <1>3, <1>5 DEF Next, KernelStep

-----------------------------------------------------------------------------
(* Sleeping.                                                               *)

(* Counting a tick off what is owed does not move the wake_tick.           *)
LEMMA WrapTick ==
  ASSUME NEW g \in 0..(TickMod - 1), NEW k \in 1..(TickMod - 1)
  PROVE  Wrap(Wrap(g + 1) + (k - 1)) = Wrap(g + k)
BY TickAssumption DEF Wrap

(* Only task_sleep() and the timer touch the sleepers and the clock.       *)
LEMMA OnlySleepAndTimer ==
  ASSUME TypeOK, WantsMutex, StateMatchesProgram, [Next]_vars,
         ~TimerIRQ, \A ticks \in SleepTicks : ~Sleep(ticks)
  PROVE  /\ UNCHANGED <<wake_tick, schedVars, owed>>
         /\ \A t \in Tasks : state'[t] = "SLEEPING" <=> state[t] = "SLEEPING"
<1> USE DEF TypeOK
<1>1. ASSUME NEW m \in Mutexes, CallLock(m)
      PROVE  UNCHANGED <<state, wake_tick, schedVars, owed>>
  BY <1>1 DEF CallLock, tcbVars
<1>2. ASSUME NEW m \in Mutexes, Unlock(m)
      PROVE  /\ UNCHANGED <<wake_tick, schedVars, owed>>
             /\ \A t \in Tasks : state'[t] = "SLEEPING" <=> state[t] = "SLEEPING"
  BY <1>2 DEF Unlock, mutex_unlock, IsOwner, WakeWaiters
<1>3. CASE LockRefused
  BY <1>3 DEF LockRefused, Block, At, StateMatchesProgram
<1>4. CASE LockGranted \/ LockSpinEnds \/ SleepSpinEnds \/ StackOverflow \/ Halted \/ UNCHANGED vars
  BY <1>4 DEF LockGranted, Acquire, LockSpinEnds, SleepSpinEnds, StackOverflow, Halted, vars, tcbVars
<1> QED
  BY <1>1, <1>2, <1>3, <1>4 DEF Next, KernelStep

LEMMA WakeTickIsOwedStep ==
  /\ TypeOK /\ WantsMutex /\ OnlyCurrentRuns /\ StateMatchesProgram
  /\ WakeTickIsOwed /\ [Next]_vars
  => WakeTickIsOwed'
<1> SUFFICES ASSUME TypeOK, WantsMutex, OnlyCurrentRuns, StateMatchesProgram,
                    WakeTickIsOwed, [Next]_vars,
                    NEW t \in Tasks, state'[t] = "SLEEPING", owed'[t] > 0
             PROVE  wake_tick'[t] = Wrap(g_tick_count + owed[t])'
  BY DEF WakeTickIsOwed
<1>1. CASE TimerIRQ
  <2>1. /\ schedule_next
        /\ owed'[t] = IF owed[t] > 0 THEN owed[t] - 1 ELSE 0
    BY <1>1 DEF TimerIRQ
  <2>2. state[t] = "SLEEPING"
    BY <2>1, ScheduleNextOnlyWakes
  <2>3. owed[t] \in 1..(TickMod - 1) /\ owed'[t] = owed[t] - 1
    BY <2>1, TickAssumption DEF TypeOK
  <2>4. wake_tick[t] = Wrap(g_tick_count + owed[t])
    BY <2>2, <2>3 DEF WakeTickIsOwed
  <2>5. Wrap(Wrap(g_tick_count + 1) + (owed[t] - 1)) = Wrap(g_tick_count + owed[t])
    BY <2>3, WrapTick DEF TypeOK
  <2>6. g_tick_count' = Wrap(g_tick_count + 1) /\ wake_tick' = wake_tick
    BY <2>1 DEF schedule_next
  <2> QED
    BY <2>3, <2>4, <2>5, <2>6 DEF Wrap
<1>2. ASSUME NEW ticks \in SleepTicks, Sleep(ticks)
      PROVE  wake_tick'[t] = Wrap(g_tick_count + owed[t])'
  BY <1>2 DEF Sleep, task_sleep, SleepUntil, Wrap, WakeTickIsOwed, TypeOK
<1>3. CASE ~TimerIRQ /\ \A ticks \in SleepTicks : ~Sleep(ticks)
  <2>1. UNCHANGED <<wake_tick, schedVars, owed>> /\ state[t] = "SLEEPING"
    BY <1>3, OnlySleepAndTimer
  <2> QED
    BY <2>1 DEF Wrap, WakeTickIsOwed, schedVars
<1> QED
  BY <1>1, <1>2, <1>3

LEMMA CorruptedStep ==
  TypeOK /\ CorruptedTaskStaysCurrent /\ [Next]_vars => CorruptedTaskStaysCurrent'
<1> SUFFICES ASSUME TypeOK, CorruptedTaskStaysCurrent, [Next]_vars
             PROVE  CorruptedTaskStaysCurrent'
  OBVIOUS
<1>1. CASE TimerIRQ
  <2>1. schedule_next /\ canary' = canary
    BY <1>1 DEF TimerIRQ, schedule_next
  <2> QED
    BY <2>1, ScheduleNextCases DEF CorruptedTaskStaysCurrent
<1>2. CASE StackOverflow
  BY <1>2 DEF StackOverflow, schedVars, CorruptedTaskStaysCurrent, TypeOK
<1>3. CASE UNCHANGED <<canary, current_tcb>>
  BY <1>3 DEF CorruptedTaskStaysCurrent
<1>4. CASE \/ \E m \in Mutexes : CallLock(m) \/ Unlock(m)
           \/ \E ticks \in SleepTicks : Sleep(ticks)
           \/ KernelStep \/ Halted \/ UNCHANGED vars
  BY <1>3, <1>4
  DEF CallLock, Unlock, Sleep, task_sleep, KernelStep, LockGranted, LockRefused,
      LockSpinEnds, SleepSpinEnds, Halted, vars, tcbVars, schedVars
<1> QED
  BY <1>1, <1>2, <1>4 DEF Next

-----------------------------------------------------------------------------
(* The inductive invariant.                                                *)

LEMMA IInvHolds == Spec => []IInv
<1>1. Init => IInv
  <2>1. Init => WakeTickIsOwed /\ PriorityRestored /\ CorruptedTaskStaysCurrent
    BY DEF Init, TaskInit, WakeTickIsOwed, PriorityRestored, CorruptedTaskStaysCurrent
  <2> QED
    BY <2>1, TypeInit, OwnershipInit, StateMatchesProgramInit, NoStaleWaiterInit DEF IInv
<1>2. IInv /\ [Next]_vars => IInv'
  BY TypeStep, WantsMutexStep, HolderIsOwnerStep, LockedHasOwnerStep, WantsAnotherStep,
     WaitersHoldNothingStep, OnlyCurrentRunsStep, StateMatchesProgramStep,
     NoStaleWaiterStep, PriorityRestoredStep, WakeTickIsOwedStep, CorruptedStep
  DEF IInv
<1> QED
  BY <1>1, <1>2, PTL DEF Spec

(* A task that holds no mutex runs at its own priority: inheritance never  *)
(* outlives the critical sections it was for, nested or not.               *)
THEOREM PriorityRestoredHolds == Spec => []PriorityRestored
<1>1. IInv => PriorityRestored
  BY DEF IInv
<1> QED
  BY <1>1, IInvHolds, PTL

(* After a stack overflow no other task is dispatched: the tick that       *)
(* follows halts the system.                                               *)
THEOREM CorruptedTaskStaysCurrentHolds == Spec => []CorruptedTaskStaysCurrent
<1>1. IInv => CorruptedTaskStaysCurrent
  BY DEF IInv
<1> QED
  BY <1>1, IInvHolds, PTL

(* When tasks hold one mutex at a time, the owner of a mutex runs at least *)
(* at the priority of every task on its wait list.                         *)
THEOREM OwnerInheritsPriorityHolds == 
  ASSUME MaxHeld <= 1
  PROVE  Spec => []OwnerInheritsPriority
<1>1. Init => OwnerInheritsPriority
  BY DEF Init, MutexInit, OwnerInheritsPriority
<1>2. IInv /\ OwnerInheritsPriority /\ [Next]_vars => OwnerInheritsPriority'
  BY OwnerInheritsPriorityStep
<1> QED
  BY <1>1, <1>2, IInvHolds, PTL DEF Spec

(* ... so the timer never dispatches a task less urgent than a waiter of a *)
(* mutex whose owner could have run.                                       *)
LEMMA NoInversionStep ==
  ASSUME IInv, OwnerInheritsPriority, [Next]_vars, NEW m \in Mutexes, NEW t \in waiters[m],
         TimerIRQ, ~halted', state'[owner[m]] \in {"READY", "RUNNING"}
  PROVE  priority[current_tcb'] >= priority[t]
<1>1. /\ current_tcb' \in Tasks
      /\ Dispatched(Woken, current_tcb')
      /\ state' = [Woken EXCEPT ![current_tcb'] = "RUNNING"]
  BY ScheduleNextCases DEF TimerIRQ, IInv
<1>2. /\ owner[m] \in Tasks /\ t \in Tasks
      /\ priority[owner[m]] >= priority[t]
  BY DEF IInv, TypeOK, OwnerInheritsPriority
<1>3. Woken \in [Tasks -> TaskState]
  BY <1>2, WokenStates DEF IInv
<1>4. CASE owner[m] = current_tcb'
  BY <1>2, <1>4
<1>5. CASE owner[m] # current_tcb'
  <2>1. owner[m] \in Runnable(Woken)
    BY <1>1, <1>2, <1>3, <1>5 DEF Runnable
  <2>2. Selected(Woken, current_tcb')
    BY <1>1, <2>1 DEF Dispatched
  <2>3. priority[current_tcb'] >= priority[owner[m]]
    <3>1. \/ priority[owner[m]] < priority[current_tcb']
          \/ priority[owner[m]] = priority[current_tcb']
      BY <2>1, <2>2 DEF Selected
    <3>2. priority[owner[m]] \in Int /\ priority[current_tcb'] \in Int
      BY <1>1, <1>2 DEF IInv, TypeOK
    <3> QED
      BY <3>1, <3>2
  <2>4. /\ priority[t] \in Int /\ priority[owner[m]] \in Int
        /\ priority[current_tcb'] \in Int
    BY <1>1, <1>2 DEF IInv, TypeOK
  <2> QED
    BY <1>2, <2>3, <2>4
<1> QED
  BY <1>4, <1>5

THEOREM NoPriorityInversionHolds ==
  ASSUME MaxHeld <= 1
  PROVE  Spec => NoPriorityInversion
<1>1. IInv /\ OwnerInheritsPriority /\ [Next]_vars =>
        [\A m \in Mutexes : \A t \in waiters[m] :
           /\ TimerIRQ /\ ~halted'
           /\ state'[owner[m]] \in {"READY", "RUNNING"}
           => priority[current_tcb'] >= priority[t]]_vars
  BY NoInversionStep
<1> QED
  BY <1>1, IInvHolds, OwnerInheritsPriorityHolds, PTL DEF Spec, NoPriorityInversion

-----------------------------------------------------------------------------
(* Lost wake-ups.                                                          *)

(* A wait list of NumTasks - 1 entries always has room for a newcomer: the *)
(* owner is not on it, and neither is the newcomer.                        *)
LEMMA RoomOnWaitList ==
  ASSUME IInv, NumTasks <= MUTEX_MAX_WAITERS + 1, NEW m \in Mutexes,
         owner[m] \in Tasks, owner[m] # current_tcb
  PROVE  current_tcb \in Register(m)
<1>1. CASE current_tcb \in waiters[m]
  BY <1>1 DEF Register
<1>2. CASE current_tcb \notin waiters[m]
  <2> DEFINE others == (Tasks \ {owner[m]}) \ {current_tcb}
  <2>1. owner[m] \notin waiters[m]
    BY DEF IInv, NoStaleWaiter, WantsAnother, HolderIsOwner
  <2>2. waiters[m] \in SUBSET others
    BY <1>2, <2>1 DEF IInv, TypeOK
  <2>3. NumTasks \in Int /\ NumTasks >= 1
    BY TaskAssumption
  <2>4. IsFiniteSet(Tasks) /\ Cardinality(Tasks) = NumTasks
    <3>1. 0 \in Int /\ NumTasks - 1 \in Int
      BY <2>3
    <3>2. /\ IsFiniteSet(0..(NumTasks - 1))
          /\ Cardinality(0..(NumTasks - 1)) =
               IF 0 > NumTasks - 1 THEN 0 ELSE (NumTasks - 1) - 0 + 1
      BY <3>1, FS_Interval
    <3> QED
      BY <2>3, <3>2 DEF Tasks
  <2>5. /\ IsFiniteSet(Tasks \ {owner[m]})
        /\ Cardinality(Tasks \ {owner[m]}) = NumTasks - 1
    BY <2>4, FS_RemoveElement
  <2>6. current_tcb \in Tasks \ {owner[m]}
    BY DEF IInv, TypeOK
  <2>7. IsFiniteSet(others) /\ Cardinality(others) = NumTasks - 2
    <3>1. Cardinality(others) = Cardinality(Tasks \ {owner[m]}) - 1
      BY <2>5, <2>6, FS_RemoveElement
    <3> QED
      BY <2>3, <2>5, <3>1, FS_RemoveElement
  <2>8. IsFiniteSet(waiters[m]) /\ Cardinality(waiters[m]) <= NumTasks - 2
    BY <2>2, <2>7, FS_Subset
  <2>9. Cardinality(waiters[m]) \in Nat
    BY <2>8, FS_CardinalityType
  <2>10. Cardinality(waiters[m]) < MUTEX_MAX_WAITERS
    BY <2>3, <2>8, <2>9, MutexAssumption
  <2> QED
    BY <2>10 DEF Register
<1> QED
  BY <1>1, <1>2

LEMMA NoLostWakeupStep ==
  IInv /\ NumTasks <= MUTEX_MAX_WAITERS + 1 /\ NoLostWakeup /\ [Next]_vars => NoLostWakeup'
<1> SUFFICES ASSUME IInv, NumTasks <= MUTEX_MAX_WAITERS + 1, NoLostWakeup, [Next]_vars
             PROVE  NoLostWakeup'
  OBVIOUS
<1>0. TypeOK /\ OnlyCurrentRuns /\ StateMatchesProgram /\ WantsMutex
  BY DEF IInv
<1>1. CASE TimerIRQ
  <2>1. schedule_next /\ UNCHANGED <<want, waiters, locked>>
    BY <1>1 DEF TimerIRQ, mutexVars, progVars
  <2> QED
    BY <1>0, <2>1, ScheduleNextOnlyWakes DEF NoLostWakeup
<1>2. ASSUME NEW m \in Mutexes, CallLock(m) PROVE NoLostWakeup'
  BY <1>0, <1>2
  DEF CallLock, At, StateMatchesProgram, TypeOK, NoLostWakeup, tcbVars, mutexVars
<1>3. ASSUME NEW m \in Mutexes, Unlock(m) PROVE NoLostWakeup'
  <2>1. CASE IsOwner(m)
    BY <1>0, <1>3, <2>1
    DEF Unlock, mutex_unlock, IsOwner, WakeWaiters, ClearWaiters, TypeOK, NoLostWakeup
  <2>2. CASE ~IsOwner(m)
    BY <1>3, <2>2 DEF Unlock, mutex_unlock, IsOwner, NoLostWakeup
  <2> QED
    BY <2>1, <2>2
<1>4. CASE LockGranted
  BY <1>0, <1>4 
  DEF LockGranted, Acquire, At, StateMatchesProgram, TypeOK, NoLostWakeup
<1>5. CASE LockRefused
  <2> DEFINE m == want[current_tcb]
  <2>1. m \in Mutexes /\ locked[m]
    BY <1>0, <1>5 DEF LockRefused, Block, At, WantsMutex, TypeOK
  <2>2. owner[m] \in Tasks /\ owner[m] # current_tcb
    BY <1>5, <2>1
    DEF IInv, LockRefused, At, LockedHasOwner, HolderIsOwner, WantsAnother, TypeOK
  <2>3. current_tcb \in Register(m)
    BY <2>1, <2>2, RoomOnWaitList
  <2>4. /\ state' = [state EXCEPT ![current_tcb] = "BLOCKED"]
        /\ waiters' = [waiters EXCEPT ![m] = Register(m)]
        /\ UNCHANGED <<want, locked>>
    BY <1>5 DEF LockRefused, Block
  <2>5. waiters[m] \subseteq Register(m)
    BY DEF Register
  <2> HIDE DEF m
  <2>6. m = want[current_tcb]
    BY DEF m
  <2> QED
    BY <1>0, <2>1, <2>3, <2>4, <2>5, <2>6 DEF NoLostWakeup, TypeOK
<1>6. CASE \E ticks \in SleepTicks : Sleep(ticks)
  BY <1>0, <1>6 DEF Sleep, task_sleep, TypeOK, NoLostWakeup, mutexVars
<1>7. CASE LockSpinEnds \/ SleepSpinEnds \/ StackOverflow \/ Halted \/ UNCHANGED vars
  BY <1>7
  DEF LockSpinEnds, SleepSpinEnds, StackOverflow, Halted, vars, tcbVars, mutexVars,
      progVars, NoLostWakeup
<1> QED
  BY <1>1, <1>2, <1>3, <1>4, <1>5, <1>6, <1>7 DEF Next, KernelStep

(* With at most MUTEX_MAX_WAITERS + 1 tasks (five in this system) a task   *)
(* that blocks is always registered, and stays so until it is woken.       *)
THEOREM NoLostWakeupHolds ==
  ASSUME NumTasks <= MUTEX_MAX_WAITERS + 1
  PROVE  Spec => []NoLostWakeup
<1>1. Init => NoLostWakeup
  BY DEF Init, TaskInit, NoLostWakeup
<1>2. IInv /\ NoLostWakeup /\ [Next]_vars => NoLostWakeup'
  BY NoLostWakeupStep
<1> QED
  BY <1>1, <1>2, IInvHolds, PTL DEF Spec

-----------------------------------------------------------------------------
(* Sleeping for as long as was asked.                                      *)

LEMMA NoOversleepStep ==
  IInv /\ 0 \notin SleepTicks /\ NoOversleep /\ [Next]_vars => NoOversleep'
<1> SUFFICES ASSUME IInv, 0 \notin SleepTicks, NoOversleep, [Next]_vars,
                    NEW t \in Tasks, ~halted', state'[t] = "SLEEPING"
             PROVE  owed'[t] > 0
  BY DEF NoOversleep
<1>0. TypeOK /\ OnlyCurrentRuns /\ StateMatchesProgram /\ WantsMutex
  BY DEF IInv
<1>1. CASE TimerIRQ
  <2>1. /\ schedule_next /\ ~halted
        /\ owed'[t] = IF owed[t] > 0 THEN owed[t] - 1 ELSE 0
    BY <1>1 DEF TimerIRQ
  <2>2. state[t] = "SLEEPING" /\ Woken[t] = "SLEEPING"
    <3>1. state' = [Woken EXCEPT ![current_tcb'] = "RUNNING"]
      BY <1>0, <2>1, ScheduleNextCases
    <3> QED
      BY <1>0, <2>1, <3>1, WokenStates, ScheduleNextOnlyWakes DEF TypeOK
  <2>3. owed[t] \in 1..(TickMod - 1)
    BY <1>0, <2>1, <2>2, TickAssumption DEF NoOversleep, TypeOK
  <2>4. /\ ~(Wrap(g_tick_count + 1) >= wake_tick[t])
        /\ wake_tick[t] = Wrap(g_tick_count + owed[t])
    BY <1>0, <2>2, <2>3, WokenStates DEF IInv, WakeTickIsOwed
  <2>5. Wrap(g_tick_count + 1) \in Int
    BY <1>0, TickAssumption DEF TypeOK, Wrap
  <2>6. owed[t] # 1
    BY <2>4, <2>5
  <2> QED
    BY <2>1, <2>3, <2>6
<1>2. ASSUME NEW ticks \in SleepTicks, Sleep(ticks) PROVE owed'[t] > 0
  <2>1. ticks \in 0..(TickMod - 1) /\ ticks > 0
    BY KernelAssumption, TickAssumption
  <2>2. t = current_tcb => owed'[t] = ticks
    BY <1>0, <1>2 DEF Sleep, TypeOK
  <2>3. t # current_tcb => state[t] = "SLEEPING" /\ owed'[t] = owed[t] /\ ~halted
    BY <1>0, <1>2 DEF Sleep, task_sleep, TypeOK
  <2> QED
    BY <2>1, <2>2, <2>3 DEF NoOversleep
<1>3. CASE ~TimerIRQ /\ \A ticks \in SleepTicks : ~Sleep(ticks)
  <2>1. UNCHANGED <<schedVars, owed>> /\ state[t] = "SLEEPING"
    BY <1>0, <1>3, OnlySleepAndTimer
  <2> QED
    BY <2>1 DEF NoOversleep, schedVars
<1> QED
  BY <1>1, <1>2, <1>3

(* task_sleep(n) with n > 0 never keeps a task asleep after n ticks, not   *)
(* even when the tick counter wraps meanwhile.                             *)
THEOREM NoOversleepHolds ==
  ASSUME 0 \notin SleepTicks
  PROVE  Spec => []NoOversleep
<1>1. Init => NoOversleep
  BY DEF Init, TaskInit, NoOversleep
<1>2. IInv /\ NoOversleep /\ [Next]_vars => NoOversleep'
  BY NoOversleepStep
<1> QED
  BY <1>1, <1>2, IInvHolds, PTL DEF Spec

LEMMA EarlyWakeStep ==
  ASSUME IInv, [Next]_vars, NEW t \in Tasks,
         state[t] = "SLEEPING", state'[t] # "SLEEPING", owed'[t] > 0
  PROVE  \/ t = current_tcb /\ \A u \in Tasks \ {t} : state'[u] \in {"SLEEPING", "BLOCKED"}
         \/ g_tick_count + owed[t] >= TickMod
<1>0. TypeOK /\ OnlyCurrentRuns /\ StateMatchesProgram /\ WantsMutex
  BY DEF IInv
<1>1. TimerIRQ
  <2>1. \A ticks \in SleepTicks : ~Sleep(ticks)
    BY <1>0 DEF Sleep, task_sleep, TypeOK
  <2> QED
    BY <1>0, <2>1, OnlySleepAndTimer
<1>2. /\ schedule_next
      /\ owed'[t] = IF owed[t] > 0 THEN owed[t] - 1 ELSE 0
  BY <1>1 DEF TimerIRQ
<1>3. owed[t] \in 2..(TickMod - 1) /\ g_tick_count \in 0..(TickMod - 1)
  BY <1>0, <1>2, TickAssumption DEF TypeOK
<1>4. wake_tick[t] = Wrap(g_tick_count + owed[t])
  BY <1>3 DEF IInv, WakeTickIsOwed
<1>5. /\ current_tcb' \in Tasks
      /\ Dispatched(Woken, current_tcb')
      /\ state' = [Woken EXCEPT ![current_tcb'] = "RUNNING"]
  BY <1>0, <1>2, ScheduleNextCases
<1>6. Woken \in [Tasks -> TaskState]
  BY <1>0, WokenStates
<1>7. CASE Woken[t] = "SLEEPING"
  <2>1. t = current_tcb' /\ t \notin Runnable(Woken)
    BY <1>5, <1>6, <1>7 DEF Runnable
  <2>2. Runnable(Woken) = {} /\ t = current_tcb
    BY <1>5, <2>1 DEF Dispatched, Selected
  <2> QED
    BY <1>5, <1>6, <2>1, <2>2 DEF Runnable, TaskState
<1>8. CASE Woken[t] # "SLEEPING"
  <2>1. Wrap(g_tick_count + 1) >= wake_tick[t]
    BY <1>0, <1>8, WokenStates
  <2>2. TickMod \in Int
    BY TickAssumption
  <2>3. g_tick_count + owed[t] >= TickMod
    BY <1>3, <1>4, <2>1, <2>2 DEF Wrap
  <2> QED
    BY <2>3
<1> QED
  BY <1>7, <1>8

(* Only an idle tick, or the wrap of the tick counter, wakes a task before *)
(* its time.                                                               *)
THEOREM EarlyWakeOnlyWhenIdleHolds == Spec => EarlyWakeOnlyWhenIdle
<1>1. IInv /\ [Next]_vars =>
        [\A t \in Tasks :
           state[t] = "SLEEPING" /\ state'[t] # "SLEEPING" /\ owed'[t] > 0 =>
             \/ t = current_tcb /\ \A u \in Tasks \ {t} : state'[u] \in {"SLEEPING", "BLOCKED"}
             \/ g_tick_count + owed[t] >= TickMod]_vars
  BY EarlyWakeStep
<1> QED
  BY <1>1, IInvHolds, PTL DEF Spec, EarlyWakeOnlyWhenIdle

-----------------------------------------------------------------------------
(* Round robin among the most urgent.                                      *)

(* Moving the start of the scan to an earlier slot c brings slot t nearer. *)
LEMMA ScanDistance ==
  ASSUME NEW n \in Int, NEW i \in 0..(n - 1), NEW c \in 0..(n - 1), NEW t \in 0..(n - 1),
         t # c,
         (IF c > i THEN c - i ELSE c - i + n) <= (IF t > i THEN t - i ELSE t - i + n)
  PROVE  (IF t > c THEN t - c ELSE t - c + n) < (IF t > i THEN t - i ELSE t - i + n)
OBVIOUS

LEMMA TopPriorityStep ==
  ASSUME IInv, [Next]_vars, NEW t \in Tasks, TimerIRQ, ~halted', state'[t] = "READY",
         \A u \in Runnable(state') : priority[u] <= priority[t]
  PROVE  ScanPos(t)' < ScanPos(t)
<1>0. TypeOK /\ OnlyCurrentRuns
  BY DEF IInv
<1>1. /\ current_tcb' \in Tasks
      /\ Dispatched(Woken, current_tcb')
      /\ state' = [Woken EXCEPT ![current_tcb'] = "RUNNING"]
      /\ current_index' = IF Runnable(Woken) = {} THEN current_index ELSE current_tcb'
  BY <1>0, ScheduleNextCases DEF TimerIRQ
<1>2. Woken \in [Tasks -> TaskState]
  BY <1>0, WokenStates
<1>3. t # current_tcb' /\ t \in Runnable(Woken)
  BY <1>1, <1>2 DEF Runnable, TaskState
<1>4. Selected(Woken, current_tcb') /\ current_index' = current_tcb'
  BY <1>1, <1>3 DEF Dispatched
<1>5. priority[current_tcb'] <= priority[t]
  BY <1>1, <1>2 DEF Runnable, TaskState
<1>6. priority[t] \in Int /\ priority[current_tcb'] \in Int
  BY <1>0, <1>1 DEF TypeOK
<1>7. ScanPos(current_tcb') <= ScanPos(t)
  BY <1>3, <1>4, <1>5, <1>6 DEF Selected
<1>8. /\ t \in 0..(NumTasks - 1) /\ current_tcb' \in 0..(NumTasks - 1)
      /\ current_index \in 0..(NumTasks - 1) /\ NumTasks \in Int
  BY <1>0, <1>1, TaskAssumption DEF TypeOK, Tasks
<1>9. ScanPos(t)' = IF t > current_tcb' THEN t - current_tcb' ELSE t - current_tcb' + NumTasks
  BY <1>4 DEF ScanPos
<1>10. (IF t > current_tcb' THEN t - current_tcb' ELSE t - current_tcb' + NumTasks)
          < (IF t > current_index THEN t - current_index ELSE t - current_index + NumTasks)
  BY <1>3, <1>7, <1>8, ScanDistance DEF ScanPos
<1> QED
  BY <1>9, <1>10 DEF ScanPos

(* A tick that passes over a runnable task of the highest priority brings  *)
(* it nearer to its turn.                                                  *)
THEOREM TopPriorityProgressHolds == Spec => TopPriorityProgress
<1>1. IInv /\ [Next]_vars =>
        [\A t \in Tasks :
           /\ TimerIRQ /\ ~halted'
           /\ state'[t] = "READY"
           /\ \A u \in Runnable(state') : priority[u] <= priority[t]
           => ScanPos(t)' < ScanPos(t)]_vars
  BY TopPriorityStep
<1> QED
  BY <1>1, IInvHolds, PTL DEF Spec, TopPriorityProgress

-----------------------------------------------------------------------------
(* Refinement: the kernel's steps, seen through want and holds, are steps  *)
(* of the lock service or nothing at all.                                  *)

(* In its own code, and asleep, a task has no lock outstanding.            *)
AsksOnlyInLock ==
  \A t \in Tasks : pc[t] \in {"app", "sleepSpin"} => want[t] = NoMutex

LEMMA AsksOnlyInLockStep == TypeOK /\ AsksOnlyInLock /\ [Next]_vars => AsksOnlyInLock'
<1> SUFFICES ASSUME TypeOK, AsksOnlyInLock, [Next]_vars PROVE AsksOnlyInLock'
  OBVIOUS
<1> USE DEF TypeOK, AsksOnlyInLock
<1>1. ASSUME NEW m \in Mutexes, CallLock(m) PROVE AsksOnlyInLock'
  BY <1>1 DEF CallLock, Goto
<1>2. CASE LockGranted \/ LockRefused \/ LockSpinEnds
  BY <1>2 DEF LockGranted, LockRefused, LockSpinEnds, Goto
<1>3. CASE SleepSpinEnds \/ \E ticks \in SleepTicks : Sleep(ticks)
  BY <1>3 DEF SleepSpinEnds, Sleep, At, Goto
<1>4. CASE \/ \E m \in Mutexes : Unlock(m)
           \/ StackOverflow \/ TimerIRQ \/ Halted \/ UNCHANGED vars
  BY <1>4 DEF Unlock, StackOverflow, TimerIRQ, Halted, vars, progVars
<1> QED
  BY <1>1, <1>2, <1>3, <1>4 DEF Next, KernelStep

LEMMA LockServiceStep ==
  IInv /\ AsksOnlyInLock /\ [Next]_vars => [Service!Next]_<<want, holds>>
<1> SUFFICES ASSUME IInv, AsksOnlyInLock, [Next]_vars
             PROVE  Service!Next \/ UNCHANGED <<want, holds>>
  OBVIOUS
<1>0. current_tcb \in Tasks
  BY DEF IInv, TypeOK
<1>1. ASSUME NEW m \in Mutexes, CallLock(m) PROVE Service!Ask(current_tcb, m)
  BY <1>0, <1>1 DEF CallLock, At, AsksOnlyInLock, Service!Ask
<1>2. ASSUME LockGranted PROVE \E m \in Mutexes : Service!Grant(current_tcb, m)
  <2>1. PICK m \in Mutexes : m = want[current_tcb]
    BY <1>0, <1>2 DEF IInv, LockGranted, At, WantsMutex
  <2>2. \A t \in Tasks : m \notin holds[t]
    BY <1>2, <2>1
    DEF IInv, LockGranted, Acquire, LockedHasOwner, HolderIsOwner, NoTask, Tasks
  <2> QED
    BY <1>2, <2>1, <2>2 DEF LockGranted, Service!Grant
<1>3. ASSUME NEW m \in Mutexes, Unlock(m)
      PROVE  Service!GiveBack(current_tcb, m) \/ UNCHANGED <<want, holds>>
  <2>1. CASE m \in holds[current_tcb]
    BY <1>0, <1>3, <2>1 DEF Unlock, At, AsksOnlyInLock, Service!GiveBack
  <2>2. CASE m \notin holds[current_tcb]
    BY <1>0, <1>3, <2>2 DEF Unlock, IInv, TypeOK
  <2> QED
    BY <2>1, <2>2
<1>4. CASE \/ \E ticks \in SleepTicks : Sleep(ticks)
           \/ LockRefused \/ LockSpinEnds \/ SleepSpinEnds
           \/ StackOverflow \/ TimerIRQ \/ Halted \/ UNCHANGED vars
  BY <1>4
  DEF Sleep, LockRefused, LockSpinEnds, SleepSpinEnds, StackOverflow, TimerIRQ, Halted,
      vars, progVars
<1> QED
  BY <1>0, <1>1, <1>2, <1>3, <1>4 DEF Next, KernelStep, Service!Next

(* The preemptive kernel with its blocking mutexes implements LockService. *)
THEOREM KernelImplementsLockService == Spec => ImplementsLockService
<1>1. Init => Service!Init /\ AsksOnlyInLock
  BY DEF Init, Service!Init, AsksOnlyInLock
<1>2. IInv => TypeOK
  BY DEF IInv
<1> QED
  BY <1>1, <1>2, IInvHolds, AsksOnlyInLockStep, LockServiceStep, PTL
  DEF Spec, ImplementsLockService, Service!Spec

-----------------------------------------------------------------------------
(* The selection loop.                                                     *)

(* What the selection loop has found after i turns: nothing while it has   *)
(* visited no runnable task, then the best of those it has visited.        *)
Visited(st, i) == {u \in Runnable(st) : ScanPos(u) <= i}
ScanInv(st, i, s) ==
  /\ s.idx = IF current_index + i >= NumTasks THEN current_index + i - NumTasks
                                              ELSE current_index + i
  /\ IF s.best = NoTask THEN Visited(st, i) = {}
     ELSE /\ s.best \in Visited(st, i)
          /\ \A u \in Visited(st, i) :
               \/ priority[u] < priority[s.best]
               \/ priority[u] = priority[s.best] /\ ScanPos(s.best) <= ScanPos(u)

LEMMA ScanTurn ==
  ASSUME TypeOK, NEW st \in [Tasks -> TaskState], NEW i \in 0..(NumTasks - 1),
         NEW s \in [best : Tasks \cup {NoTask}, idx : Tasks], ScanInv(st, i, s),
         NEW idx, idx = IF s.idx + 1 >= NumTasks THEN 0 ELSE s.idx + 1
  PROVE  ScanInv(st, i + 1, [best |-> ScanLoop(st, i + 1, s.best, idx), idx |-> idx])
<1> DEFINE n == NumTasks
<1>0. /\ n \in Nat \ {0} /\ i \in 0..(n - 1) /\ current_index \in 0..(n - 1)
      /\ Tasks = 0..(n - 1) /\ s.idx \in 0..(n - 1) /\ s.best \in Tasks \cup {NoTask}
  BY TaskAssumption DEF TypeOK, Tasks
<1>1. idx \in Tasks /\ ScanPos(idx) = i + 1
  BY <1>0 DEF ScanInv, ScanPos
<1>2. idx = IF current_index + (i + 1) >= NumTasks THEN current_index + (i + 1) - NumTasks
                                                ELSE current_index + (i + 1)
  BY <1>0 DEF ScanInv
<1>3. \A u \in Tasks : ScanPos(u) \in Int /\ (ScanPos(u) <= i + 1 <=> ScanPos(u) <= i \/ u = idx)
  <2> SUFFICES ASSUME NEW u \in Tasks
               PROVE  ScanPos(u) \in Int /\ (ScanPos(u) <= i + 1 <=> ScanPos(u) <= i \/ u = idx)
    OBVIOUS
  <2>1. u \in 0..(n - 1) /\ idx \in 0..(n - 1)
    BY <1>0, <1>1
  <2> QED BY <1>0, <1>1, <2>1 DEF ScanPos
<1>4. Visited(st, i + 1) = Visited(st, i) \cup ({idx} \cap Runnable(st))
  BY <1>1, <1>3 DEF Visited, Runnable
<1>5. \A u \in Visited(st, i) : u \in Tasks /\ ScanPos(u) < ScanPos(idx)
  BY <1>0, <1>1, <1>3 DEF Visited, Runnable
<1>6. \A u \in Tasks : priority[u] \in Int
  BY DEF TypeOK
<1> DEFINE best == ScanLoop(st, i + 1, s.best, idx)
<1>7. IF best = NoTask THEN Visited(st, i + 1) = {}
     ELSE /\ best \in Visited(st, i + 1)
          /\ \A u \in Visited(st, i + 1) :
               \/ priority[u] < priority[best]
               \/ priority[u] = priority[best] /\ ScanPos(best) <= ScanPos(u)
  <2>0. NoTask \notin Tasks
    BY <1>0 DEF NoTask
  <2>1. CASE idx \notin Runnable(st)
    BY <1>4, <2>1 DEF ScanInv, ScanLoop
  <2>2. CASE idx \in Runnable(st) /\ s.best = NoTask
    BY <1>1, <1>3, <1>4, <1>6, <2>0, <2>2 DEF ScanInv, ScanLoop
  <2>3. CASE idx \in Runnable(st) /\ s.best # NoTask
    <3>1. /\ s.best \in Visited(st, i) /\ s.best \in Tasks
          /\ \A u \in Visited(st, i) :
               \/ priority[u] < priority[s.best]
               \/ priority[u] = priority[s.best] /\ ScanPos(s.best) <= ScanPos(u)
      BY <2>3, <1>5 DEF ScanInv
    <3>2. Visited(st, i + 1) = Visited(st, i) \cup {idx}
      BY <1>4, <2>3
    <3>3. CASE priority[idx] > priority[s.best]
      <4>1. best = idx
        BY <2>3, <3>3 DEF ScanLoop
      <4>2. ASSUME NEW u \in Visited(st, i) PROVE priority[u] < priority[idx]
        <5>1. priority[u] \in Int /\ priority[idx] \in Int /\ priority[s.best] \in Int
          BY <1>1, <1>5, <1>6, <3>1
        <5>2. priority[u] < priority[s.best] \/ priority[u] = priority[s.best]
          BY <3>1
        <5> QED BY <3>3, <5>1, <5>2
      <4>3. ScanPos(idx) <= ScanPos(idx)
        BY <1>1, <1>3
      <4> HIDE DEF best
      <4> QED BY <1>1, <2>0, <3>2, <4>1, <4>2, <4>3
    <3>4. CASE ~(priority[idx] > priority[s.best])
      <4>1. best = s.best
        BY <2>3, <3>4 DEF ScanLoop
      <4>2. \/ priority[idx] < priority[s.best]
            \/ priority[idx] = priority[s.best] /\ ScanPos(s.best) <= ScanPos(idx)
        <5>1. /\ priority[idx] \in Int /\ priority[s.best] \in Int
              /\ ScanPos(s.best) \in Int /\ ScanPos(idx) \in Int /\ ScanPos(s.best) < ScanPos(idx)
          BY <1>1, <1>3, <1>5, <1>6, <3>1
        <5> QED BY <3>4, <5>1
      <4> HIDE DEF best
      <4> QED BY <2>0, <3>1, <3>2, <4>1, <4>2
    <3> QED BY <3>3, <3>4
  <2> QED BY <2>1, <2>2, <2>3
<1> HIDE DEF best
<1> QED
  BY <1>2, <1>7 DEF ScanInv, best

LEMMA ScanFinds ==
  ASSUME TypeOK, NEW st \in [Tasks -> TaskState]
  PROVE  IF Runnable(st) = {} THEN Scan(st) = NoTask ELSE Selected(st, Scan(st))
<1> DEFINE A == [best : Tasks \cup {NoTask}, idx : Tasks]
           a == [best |-> NoTask, idx |-> current_index]
           after(s) == IF s.idx + 1 >= NumTasks THEN 0 ELSE s.idx + 1
           turn(i, s) == [best |-> ScanLoop(st, i, s.best, after(s)), idx |-> after(s)]
           turns == [i \in 0..(NumTasks - 1) |-> [s \in A |-> turn(i + 1, s)]]
           step[i \in 0..NumTasks] ==
             IF i = 0 THEN [best |-> NoTask, idx |-> current_index]
             ELSE LET prev == step[i - 1]
                      idx == IF prev.idx + 1 >= NumTasks THEN 0 ELSE prev.idx + 1
                  IN [best |-> ScanLoop(st, i, prev.best, idx), idx |-> idx]
           F(f) == [i \in 0..NumTasks |->
                     IF i = 0 THEN [best |-> NoTask, idx |-> current_index]
                     ELSE LET prev == f[i - 1]
                              idx == IF prev.idx + 1 >= NumTasks THEN 0 ELSE prev.idx + 1
                          IN [best |-> ScanLoop(st, i, prev.best, idx), idx |-> idx]]
<1>0. NumTasks \in Nat \ {0} /\ Tasks = 0..(NumTasks - 1) /\ current_index \in Tasks
  BY TaskAssumption DEF TypeOK, Tasks
<1>1. Scan(st) = step[NumTasks].best
  BY DEF Scan
<1>2. a \in A
  BY <1>0
<1>3. ASSUME NEW i \in Nat, NEW s \in A PROVE turn(i, s) \in A
  <2>1. after(s) \in Tasks
    BY <1>0
  <2> QED BY <2>1 DEF ScanLoop
<1>4. turns \in [0..(NumTasks - 1) -> [A -> A]]
  BY <1>3
<1>5. PICK f : FollowsUpTo(f, NumTasks, A, a, turns)
  <2> HIDE DEF A, a, turns
  <2> QED BY <1>0, <1>2, <1>4, FiniteRecursionExists
<1>6. f = F(f)
  <2> HIDE DEF A, turn, a
  <2>1. ASSUME NEW i \in 0..NumTasks, i # 0 PROVE turns[i - 1][f[i - 1]] = turn(i, f[i - 1])
    <3>1. /\ i - 1 \in 0..NumTasks /\ i - 1 \in 0..(NumTasks - 1)
          /\ i - 1 \in Nat /\ (i - 1) + 1 = i
      BY <1>0, <2>1
    <3>2. f[i - 1] \in A
      BY <1>5, <3>1 DEF FollowsUpTo
    <3> QED BY <3>1, <3>2
  <2> HIDE DEF turns
  <2>2. f = [i \in 0..NumTasks |-> IF i = 0 THEN a ELSE turn(i, f[i - 1])]
    BY <1>5, <2>1 DEF FollowsUpTo
  <2> QED BY <2>2 DEF turn, a
<1>7. step = F(step)
  <2>1. step = CHOOSE g : g = F(g)
    OBVIOUS
  <2> HIDE DEF F, step
  <2> QED BY <1>6, <2>1
<1>8. step = [i \in 0..NumTasks |-> IF i = 0 THEN a ELSE turn(i, step[i - 1])]
  <2> HIDE DEF step
  <2> QED BY <1>7
<1> HIDE DEF F, step, turn
<1> DEFINE S == {i \in 0..NumTasks : step[i] \in A /\ ScanInv(st, i, step[i])}
<1>9. 0 \in S
  <2>1. step[0] = a
    BY <1>0, <1>8
  <2>2. Visited(st, 0) = {}
    BY <1>0 DEF Visited, Runnable, ScanPos
  <2> QED BY <1>0, <1>2, <2>1, <2>2 DEF ScanInv
<1>10. ASSUME NEW i \in 0..(NumTasks - 1), i \in S PROVE i + 1 \in S
  <2>1. step[i + 1] = turn(i + 1, step[i])
    BY <1>0, <1>8
  <2>2. step[i] \in A /\ ScanInv(st, i, step[i])
    BY <1>10
  <2>3. turn(i + 1, step[i]) \in A
    BY <1>3, <2>2
  <2>4. ScanInv(st, i + 1, turn(i + 1, step[i]))
    BY <2>2, ScanTurn DEF turn
  <2> QED BY <1>0, <2>1, <2>3, <2>4
<1>11. ScanInv(st, NumTasks, step[NumTasks]) /\ step[NumTasks] \in A
  <2> HIDE DEF S
  <2>1. 0..NumTasks \subseteq S
    BY <1>0, <1>9, <1>10, IntervalInduction
  <2> QED BY <1>0, <2>1 DEF S
<1>12. Visited(st, NumTasks) = Runnable(st)
  BY <1>0 DEF Visited, Runnable, ScanPos
<1> HIDE DEF A
<1> QED
  BY <1>1, <1>11, <1>12 DEF ScanInv, Selected

(* The loop of schedule_next() selects what Selected says: LoopSelects.    *)
THEOREM LoopSelectsHolds == Spec => []LoopSelects
<1>1. IInv => LoopSelects
  <2> SUFFICES ASSUME IInv PROVE LoopSelects
    OBVIOUS
  <2> DEFINE st == WakeDue(Yield(state), Wrap(g_tick_count + 1))
  <2>1. TypeOK /\ st \in [Tasks -> TaskState]
    <3>1. TypeOK /\ OnlyCurrentRuns /\ current_tcb \in Tasks
      BY DEF IInv, TypeOK
    <3>2. Woken \in [Tasks -> TaskState]
      BY <3>1, WokenStates
    <3> QED BY <3>1, <3>2 DEF Woken
  <2> HIDE DEF st
  <2>2. IF Runnable(st) = {} THEN Scan(st) = NoTask ELSE Selected(st, Scan(st))
    BY <2>1, ScanFinds
  <2> QED BY <2>2 DEF LoopSelects, st
<1> QED BY <1>1, IInvHolds, PTL

=============================================================================
