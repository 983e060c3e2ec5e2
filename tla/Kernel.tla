------------------------------- MODULE Kernel -------------------------------
(***************************************************************************)
(* The running kernel: any set of tasks calling mutex_lock(),              *)
(* mutex_unlock() and task_sleep(), preempted by the timer interrupt.      *)
(*                                                                         *)
(* One CPU: the program of current_tcb takes the steps, and the timer      *)
(* interrupt may come between any two of them.  A stretch of code between  *)
(* irq_disable_save() and irq_restore() is one step.  Application code     *)
(* that calls no kernel function changes no kernel state, so it is a       *)
(* stuttering step, and how many ticks it lasts is left open.              *)
(***************************************************************************)
EXTENDS Mutex

CONSTANTS
  NoMutex,        \* not a mutex
  MaxHeld,        \* how many mutexes a task holds at once: 1 in kernel.c
  SleepTicks,     \* the arguments task_sleep() is called with
  CanOverflow     \* the tasks whose stack may overflow

ASSUME KernelAssumption ==
  /\ NoMutex \notin Mutexes
  /\ MaxHeld \in Nat
  /\ SleepTicks \subseteq 0..(TickMod - 1)
  /\ CanOverflow \subseteq Tasks

VARIABLES
  pc,             \* where each task's program stands
  want,           \* the argument of the mutex_lock() it is in
  holds,          \* the mutexes its calls of mutex_lock() have returned for
  owed            \* history: ticks still to come of the sleep it asked for

progVars == <<pc, want, holds>>
vars == <<tcbVars, schedVars, mutexVars, progVars, owed>>

(* app: in its own code.     lock: before the critical section of          *)
(* mutex_lock().             lockSpin, sleepSpin: in the closing loop of   *)
(* mutex_lock()'s turn or of task_sleep(), re-reading its own state.       *)
PC == {"app", "lock", "lockSpin", "sleepSpin"}

Init ==
  /\ TaskInit
  /\ SchedulerInit
  /\ MutexInit
  /\ pc = [t \in Tasks |-> "app"]
  /\ want = [t \in Tasks |-> NoMutex]
  /\ holds = [t \in Tasks |-> {}]
  /\ owed = [t \in Tasks |-> 0]

At(label) == ~halted /\ pc[current_tcb] = label
Goto(label) == pc' = [pc EXCEPT ![current_tcb] = label]

-----------------------------------------------------------------------------
(* mutex_lock(m) is called.  No task locks a mutex it holds.               *)
CallLock(m) ==
  /\ At("app")
  /\ m \notin holds[current_tcb]
  /\ Cardinality(holds[current_tcb]) < MaxHeld
  /\ want' = [want EXCEPT ![current_tcb] = m]
  /\ Goto("lock")
  /\ UNCHANGED <<tcbVars, schedVars, mutexVars, holds, owed>>

LockGranted ==
  /\ At("lock")
  /\ LET m == want[current_tcb]
     IN /\ Acquire(m)
        /\ holds' = [holds EXCEPT ![current_tcb] = @ \cup {m}]
  /\ want' = [want EXCEPT ![current_tcb] = NoMutex]
  /\ Goto("app")
  /\ UNCHANGED <<wake_tick, canary, schedVars, owed>>

LockRefused ==
  /\ At("lock")
  /\ Block(want[current_tcb])
  /\ Goto("lockSpin")
  /\ UNCHANGED <<wake_tick, canary, schedVars, want, holds, owed>>

(* The waiting loop ends and the turn starts over: waking up is no promise *)
(* that the mutex is free.                                                 *)
GrantOnWake ==                           \* mutant: waking up is taken for the lock
  /\ At("lockSpin")
  /\ state[current_tcb] # "BLOCKED"
  /\ holds' = [holds EXCEPT ![current_tcb] = @ \cup {want[current_tcb]}]
  /\ want' = [want EXCEPT ![current_tcb] = NoMutex]
  /\ Goto("app")
  /\ UNCHANGED <<tcbVars, schedVars, mutexVars, owed>>
LockSpinEnds ==
  /\ At("lockSpin")
  /\ state[current_tcb] # "BLOCKED"
  /\ Goto("lock")
  /\ UNCHANGED <<tcbVars, schedVars, mutexVars, want, holds, owed>>

Unlock(m) ==
  /\ At("app")
  /\ mutex_unlock(m)
  /\ holds' = [holds EXCEPT ![current_tcb] = @ \ {m}]
  /\ UNCHANGED <<wake_tick, canary, schedVars, pc, want, owed>>

Sleep(ticks) ==
  /\ At("app")
  /\ task_sleep(ticks)
  /\ owed' = [owed EXCEPT ![current_tcb] = ticks]
  /\ Goto("sleepSpin")
  /\ UNCHANGED <<mutexVars, want, holds>>

SleepSpinEnds ==
  /\ At("sleepSpin")
  /\ state[current_tcb] # "SLEEPING"
  /\ Goto("app")
  /\ UNCHANGED <<tcbVars, schedVars, mutexVars, want, holds, owed>>

(* The running program writes over the canary word of its own stack.       *)
StackOverflow ==
  /\ At("app")
  /\ current_tcb \in CanOverflow
  /\ canary' = [canary EXCEPT ![current_tcb] = FALSE]
  /\ UNCHANGED <<state, priority, wake_tick, schedVars, mutexVars, progVars, owed>>

(* IRQ_Handler.                                                            *)
TimerIRQ ==
  /\ ~halted
  /\ schedule_next
  /\ owed' = [t \in Tasks |-> IF owed[t] > 0 THEN owed[t] - 1 ELSE 0]
  /\ UNCHANGED <<mutexVars, progVars>>

(* while (1) with interrupts disabled.                                     *)
Halted == halted /\ UNCHANGED vars

KernelStep == LockGranted \/ LockRefused \/ LockSpinEnds \/ SleepSpinEnds

Next ==
  \/ \E m \in Mutexes : CallLock(m) \/ Unlock(m)
  \/ \E ticks \in SleepTicks : Sleep(ticks)
  \/ KernelStep
  \/ StackOverflow
  \/ TimerIRQ
  \/ Halted

Spec == Init /\ [][Next]_vars

(* The timer is periodic, and a task that has the CPU again and again gets *)
(* through the kernel code it is in.  Nothing is assumed of what           *)
(* application code calls, nor that it calls anything.                     *)
FairSpec ==
  /\ Spec
  /\ WF_vars(TimerIRQ)
  /\ \A t \in Tasks : SF_vars(current_tcb = t /\ KernelStep)

-----------------------------------------------------------------------------
(* Type invariant.                                                         *)
TypeOK ==
  /\ state \in [Tasks -> TaskState]
  /\ priority \in [Tasks -> 0..MAX_PRIORITY]
  /\ wake_tick \in [Tasks -> 0..(TickMod - 1)]
  /\ canary \in [Tasks -> BOOLEAN]
  /\ g_tick_count \in 0..(TickMod - 1)
  /\ current_tcb \in Tasks
  /\ current_index \in Tasks
  /\ halted \in BOOLEAN
  /\ locked \in [Mutexes -> BOOLEAN]
  /\ owner \in [Mutexes -> Tasks \cup {NoTask}]
  /\ waiters \in [Mutexes -> SUBSET Tasks]
  /\ pc \in [Tasks -> PC]
  /\ want \in [Tasks -> Mutexes \cup {NoMutex}]
  /\ holds \in [Tasks -> SUBSET Mutexes]
  /\ owed \in [Tasks -> 0..(TickMod - 1)]

-----------------------------------------------------------------------------
(* Mutual exclusion: two tasks are never past mutex_lock() on the same     *)
(* mutex, although unlocking wakes every waiter and each of them, and any  *)
(* newcomer, may be dispatched first (mutex.c:15-73).                      *)
MutualExclusion ==
  \A m \in Mutexes : \A s, t \in Tasks :
    m \in holds[s] /\ m \in holds[t] => s = t

(* A wait list names only tasks still inside mutex_lock() on that very     *)
(* mutex, while it is locked.  A stale entry would later wake a task that  *)
(* has blocked on something else (mutex.c:32-41, 64-69).                   *)
NoStaleWaiter ==
  \A m \in Mutexes : \A t \in waiters[m] :
    /\ locked[m]
    /\ want[t] = m
    /\ pc[t] \in {"lock", "lockSpin"}

(* A blocked task is on the wait list of a locked mutex, so some unlock    *)
(* will wake it.  mutex_lock() blocks the caller even when the list is     *)
(* full (mutex.c:39-44): this needs NumTasks <= MUTEX_MAX_WAITERS + 1.     *)
NoLostWakeup ==
  \A t \in Tasks : state[t] = "BLOCKED" =>
    /\ want[t] \in Mutexes
    /\ t \in waiters[want[t]]
    /\ locked[want[t]]

(* Priority inheritance: the owner of a mutex runs at the priority of its  *)
(* most urgent registered waiter at least (mutex.c:27-29).                 *)
OwnerInheritsPriority ==
  \A m \in Mutexes : \A t \in waiters[m] :
    owner[m] # NoTask /\ priority[owner[m]] >= priority[t]

(* A boost does not outlive the critical section it was given for: a task  *)
(* that holds no mutex is back at its own priority (mutex.c:59).           *)
PriorityRestored ==
  \A t \in Tasks : holds[t] = {} => priority[t] = BasePriority[t]

(* No unbounded priority inversion: while the owner of a mutex could run,  *)
(* the timer never gives the CPU to a task less urgent than one that waits *)
(* for this mutex (scheduler.c:74-97 with mutex.c:27-29).                  *)
NoPriorityInversion ==
  [][\A m \in Mutexes : \A t \in waiters[m] :
       /\ TimerIRQ /\ ~halted'
       /\ state'[owner[m]] \in {"READY", "RUNNING"}
       => priority[current_tcb'] >= priority[t]]_vars

(* To its tasks the kernel is a lock service: blocking, waking every       *)
(* waiter, re-trying, sleeping and preemption do not show (mutex.c:15-73,  *)
(* scheduler.c:40-100).                                                    *)
Service == INSTANCE LockService WITH
  Clients <- Tasks, Locks <- Mutexes, NoLock <- NoMutex, asked <- want, held <- holds
ImplementsLockService == Service!Spec

-----------------------------------------------------------------------------
(* Only the task in current_tcb is RUNNING, whatever mixture of sleeping,  *)
(* blocking and idling came before (scheduler.c:56-58, 96-97).             *)
OnlyCurrentRuns ==
  \A t \in Tasks : state[t] = "RUNNING" => t = current_tcb

(* task_sleep() never oversleeps: once the ticks it asked for have passed, *)
(* the task is no longer SLEEPING, across the wrap of g_tick_count too     *)
(* (scheduler.c:63-68, 113).  This needs 0 \notin SleepTicks: task_sleep(0) *)
(* on the last tick before the wrap sets a wake_tick the next tick has     *)
(* already wrapped below, and the task sleeps for a whole turn of the      *)
(* counter.                                                                *)
NoOversleep ==
  \A t \in Tasks :
    ~halted /\ state[t] = "SLEEPING" => owed[t] > 0

(* Every sleeping task sleeps its ticks out, except for two ways of waking *)
(* early: no task at all could run and it was the interrupted one, or its  *)
(* wake_tick was computed past the wrap of the 32-bit tick counter         *)
(* (scheduler.c:65, 90-97, 113).                                           *)
EarlyWakeOnlyWhenIdle ==
  [][\A t \in Tasks :
       state[t] = "SLEEPING" /\ state'[t] # "SLEEPING" /\ owed'[t] > 0 =>
         \/ t = current_tcb /\ \A u \in Tasks \ {t} : state'[u] \in {"SLEEPING", "BLOCKED"}
         \/ g_tick_count + owed[t] >= TickMod]_vars

(* Round robin at the top: a tick that passes over a runnable task none is *)
(* more urgent than brings it strictly nearer to the front of the scan, so *)
(* it waits NumTasks - 1 dispatches at most (scheduler.c:70-94).           *)
TopPriorityProgress ==
  [][\A t \in Tasks :
       /\ TimerIRQ /\ ~halted'
       /\ state'[t] = "READY"
       /\ \A u \in Runnable(state') : priority[u] <= priority[t]
       => ScanPos(t)' < ScanPos(t)]_vars

(* The selection loop finds exactly the task Selected describes: the       *)
(* highest priority, and among equals the first after current_index        *)
(* (scheduler.c:70-88).                                                    *)
LoopSelects ==
  LET st == WakeDue(Yield(state), Wrap(g_tick_count + 1))
  IN IF Runnable(st) = {} THEN Scan(st) = NoTask ELSE Selected(st, Scan(st))

(* A task whose canary is gone is never switched away from: it stays the   *)
(* current task until the tick that halts the system, and so no other task *)
(* runs on after an overflow (scheduler.c:49-54).                          *)
CorruptedTaskStaysCurrent ==
  \A t \in Tasks : ~canary[t] => t = current_tcb

-----------------------------------------------------------------------------
(* What README.md promises and the code does not keep.                     *)

(* "The scheduler skips sleeping/blocked tasks entirely when selecting the *)
(* next task to run" (README.md, Real Blocking): a sleeping task sleeps    *)
(* until g_tick_count has reached its wake_tick.                           *)
SleepsUntilWakeTick ==
  [][\A t \in Tasks :
       state[t] = "SLEEPING" /\ state'[t] # "SLEEPING"
         => g_tick_count' >= wake_tick[t]]_vars

(* "round-robin tie-breaking among equal priorities" (README.md, Preemptive, *)
(* Priority-Based Scheduler): of two tasks of equal priority that stay     *)
(* runnable, one is not dispatched again and again while the other is      *)
(* never.  The second conjunct keeps early wake-ups, a different matter,   *)
(* out of the counterexample.                                              *)
EqualPriorityTasksShare ==
  \A s, t \in Tasks :
    (/\ BasePriority[s] = BasePriority[t]
     /\ <>[][\A u \in Tasks :
               state[u] = "SLEEPING" /\ state'[u] # "SLEEPING" => owed'[u] = 0]_vars
     /\ <>[](state[s] \in {"READY", "RUNNING"} /\ state[t] \in {"READY", "RUNNING"})
     /\ []<>(current_tcb = s))
    => []<>(current_tcb = t)

=============================================================================
