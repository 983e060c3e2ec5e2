-------------------------------- MODULE Task --------------------------------
(***************************************************************************)
(* The task control block of kernel/task.h and its construction by         *)
(* task_create() in kernel/task.c.                                         *)
(*                                                                         *)
(* A task is named by its slot of ready_queue, so the tcb_t fields are     *)
(* functions on 0..NumTasks-1.  The fields no kernel code reads (cpu_time, *)
(* name, next) are left out; stack_ptr and the stack words belong to the   *)
(* context switch, and the one stack word the scheduler reads, the canary  *)
(* stack_base[0], is kept as the Boolean "it still holds 0xDEADBEEF".      *)
(***************************************************************************)
EXTENDS Integers

CONSTANTS
  NumTasks,       \* tasks registered when scheduler_start() runs
  BasePriority    \* the priority each one was created with

MAX_TASKS == 8
MAX_PRIORITY == 255   \* priority is a uint8_t

ASSUME TaskAssumption ==
  /\ NumTasks \in 1..MAX_TASKS
  /\ BasePriority \in [0..(NumTasks - 1) -> 0..MAX_PRIORITY]

Tasks == 0..(NumTasks - 1)
NoTask == -1          \* the null tcb_t pointer

(* task_state_t.  TASK_SUSPENDED is declared there and never assigned.     *)
TaskState == {"READY", "RUNNING", "BLOCKED", "SLEEPING"}

VARIABLES
  state,          \* tcb->state
  priority,       \* tcb->priority, the one priority inheritance raises
  wake_tick,      \* tcb->wake_tick
  canary          \* tcb->stack_base[0] == STACK_CANARY_VALUE

tcbVars == <<state, priority, wake_tick, canary>>

(* The tcbs as kernel_main() leaves them: task_create() and                *)
(* scheduler_add_task() make every task ready, and scheduler_start() has   *)
(* marked slot 0 as running.                                               *)
TaskInit ==
  /\ state = [t \in Tasks |-> IF t = 0 THEN "RUNNING" ELSE "READY"]
  /\ priority = BasePriority
  /\ wake_tick = [t \in Tasks |-> 0]
  /\ canary = [t \in Tasks |-> TRUE]

task_check_stack_overflow(t) == ~canary[t]

Runnable(st) == {t \in Tasks : st[t] \in {"READY", "RUNNING"}}

=============================================================================
