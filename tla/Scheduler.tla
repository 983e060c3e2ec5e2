------------------------------ MODULE Scheduler ------------------------------
(***************************************************************************)
(* kernel/scheduler.c in the steady state, after scheduler_start():        *)
(* schedule_next(), which the timer interrupt runs, and task_sleep(),      *)
(* which the current task runs with interrupts disabled.                   *)
(*                                                                         *)
(* ready_queue is full and never changes again, so ready_queue[i] is       *)
(* task i and task_count is NumTasks.                                      *)
(***************************************************************************)
EXTENDS Task

CONSTANT TickMod      \* 2^32: g_tick_count and wake_tick are uint32_t

ASSUME TickAssumption == TickMod \in Nat \ {0}

VARIABLES
  g_tick_count,
  current_tcb,
  current_index,
  halted              \* stack_overflow_handler() reached its while (1)

schedVars == <<g_tick_count, current_tcb, current_index, halted>>

(* As scheduler_start() leaves them; the timer may have ticked before.     *)
SchedulerInit ==
  /\ g_tick_count \in 0..(TickMod - 1)
  /\ current_tcb = 0
  /\ current_index = 0
  /\ halted = FALSE

(* uint32_t addition of two values below TickMod.                          *)
WrapLate(n) == IF n > TickMod THEN n - TickMod ELSE n   \* mutant: off by one
Wrap(n) == IF n >= TickMod THEN n - TickMod ELSE n

-----------------------------------------------------------------------------
(* The four phases of schedule_next().                                     *)

(* The interrupted task goes back to READY, unless it has just put itself  *)
(* to sleep or blocked itself.                                             *)
YieldKeepsRunning(st) == st   \* mutant: the interrupted task stays RUNNING
Yield(st) ==
  IF st[current_tcb] = "RUNNING"
  THEN [st EXCEPT ![current_tcb] = "READY"]
  ELSE st

(* Every sleeper whose wake_tick has come becomes READY.                   *)
WakeDueStrict(st, tick) ==    \* mutant: > for >=
  [t \in Tasks |-> IF st[t] = "SLEEPING" /\ tick > wake_tick[t] THEN "READY" ELSE st[t]]
WakeAll(st, tick) ==          \* mutant: the wake_tick test is dropped
  [t \in Tasks |-> IF st[t] = "SLEEPING" THEN "READY" ELSE st[t]]
WakeDue(st, tick) ==
  [t \in Tasks |-> IF st[t] = "SLEEPING" /\ tick >= wake_tick[t] THEN "READY" ELSE st[t]]

(* The order in which the selection loop visits the slots: 1 for the one   *)
(* after current_index, NumTasks for current_index itself.                 *)
ScanFromZero(t) == t          \* mutant: the scan ignores current_index
ScanPos(t) ==
  IF t > current_index THEN t - current_index ELSE t - current_index + NumTasks

(* What the selection loop finds: the runnable task of the highest         *)
(* priority, the first one visited among equals.                           *)
SelectedLow(st, t) ==         \* mutant: the comparison of priorities reversed
  /\ t \in Runnable(st)
  /\ \A u \in Runnable(st) :
       \/ priority[u] > priority[t]
       \/ priority[u] = priority[t] /\ ScanPos(t) <= ScanPos(u)
Selected(st, t) ==
  /\ t \in Runnable(st)
  /\ \A u \in Runnable(st) :
       \/ priority[u] < priority[t]
       \/ priority[u] = priority[t] /\ ScanPos(t) <= ScanPos(u)

(* The selection loop as it is written: idx steps round the queue and best *)
(* is replaced only by a strictly higher priority.  Scan(st) is best after *)
(* the last iteration, NoTask when nothing can run.                        *)
ScanLoopLate(st, i, best, idx) ==   \* mutant: >= for >, the last of equals wins
  IF idx \in Runnable(st) /\ (best = NoTask \/ priority[idx] >= priority[best])
  THEN idx ELSE best
ScanLoop(st, i, best, idx) ==
  IF idx \in Runnable(st) /\ (best = NoTask \/ priority[idx] > priority[best])
  THEN idx ELSE best
Scan(st) ==
  LET step[i \in 0..NumTasks] ==
        IF i = 0 THEN [best |-> NoTask, idx |-> current_index]
        ELSE LET prev == step[i - 1]
                 idx == IF prev.idx + 1 >= NumTasks THEN 0 ELSE prev.idx + 1
             IN [best |-> ScanLoop(st, i, prev.best, idx), idx |-> idx]
  IN step[NumTasks].best

-----------------------------------------------------------------------------
(* The task schedule_next() leaves in current_tcb: the selected one, or,   *)
(* when every task is asleep or blocked, the interrupted one again.        *)
Dispatched(st, t) ==
  IF Runnable(st) = {} THEN t = current_tcb ELSE Selected(st, t)

(* schedule_next(), called by IRQ_Handler with interrupts disabled.        *)
CheckNext == task_check_stack_overflow((current_tcb + 1) % NumTasks)  \* mutant: wrong tcb
CheckCurrent == task_check_stack_overflow(current_tcb)

schedule_next ==
  /\ g_tick_count' = Wrap(g_tick_count + 1)
  /\ IF CheckCurrent
     THEN /\ halted' = TRUE
          /\ UNCHANGED <<state, current_tcb, current_index>>
     ELSE LET woken == WakeDue(Yield(state), Wrap(g_tick_count + 1))
          IN \E t \in Tasks :
               /\ Dispatched(woken, t)
               /\ state' = [woken EXCEPT ![t] = "RUNNING"]
               /\ current_tcb' = t
               /\ current_index' = IF Runnable(woken) = {} THEN current_index ELSE t
               /\ UNCHANGED halted
  /\ UNCHANGED <<priority, wake_tick, canary>>

(* The critical section of task_sleep(ticks); its closing loop, which      *)
(* spins until the state is no longer SLEEPING, is a step of the caller.   *)
SleepUntil(ticks) == Wrap(g_tick_count + ticks)

task_sleep(ticks) ==
  /\ wake_tick' = [wake_tick EXCEPT ![current_tcb] = SleepUntil(ticks)]
  /\ state' = [state EXCEPT ![current_tcb] = "SLEEPING"]
  /\ UNCHANGED <<priority, canary, g_tick_count, current_tcb, current_index, halted>>

=============================================================================
