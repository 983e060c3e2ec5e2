------------------------------ MODULE Startup ------------------------------
(***************************************************************************)
(* kernel_main() up to the first task, with the timer already running.     *)
(*                                                                         *)
(* Reset_Handler enters System mode with interrupts enabled, and           *)
(* timer_init() is the second thing kernel_main() does, so a tick may      *)
(* come between any two statements after it.  IRQ_Handler then saves the   *)
(* interrupted context through current_tcb, whoever that context belongs   *)
(* to, and resumes the one current_tcb points to after schedule_next().    *)
(*                                                                         *)
(* A context is [of |-> whose, at |-> statement, n |-> argument].  The     *)
(* frame tcb->stack_ptr points to is saved[t]; saved[NoTask] is the frame  *)
(* the null current_tcb leads to, at address 0.  Stacks do not overflow    *)
(* here, so the canary test of schedule_next() never fires; nothing in     *)
(* kernel_main() reads shared_mutex, so mutex_init() is left out.          *)
(***************************************************************************)
EXTENDS Scheduler, FiniteSets

CONSTANT SleepTicks   \* the arguments task_sleep() is called with

ASSUME StartupAssumption == SleepTicks \subseteq 1..(TickMod - 1)

VARIABLES
  cpu,            \* the context that is executing
  saved,          \* the context in each tcb's frame
  timer_on,       \* timer_init() has been run
  task_count,
  stored,         \* the slots of ready_queue that have been written
  started,        \* the tasks whose function has begun
  disturbed,      \* history: a tick came where kernel_main() cannot bear it
  null_running    \* the word at address 8, state of a null tcb, is TASK_RUNNING

startupVars == <<cpu, saved, timer_on, task_count, stored, started, disturbed,
                 null_running>>
bootVars == <<tcbVars, schedVars, startupVars>>

Main == NoTask        \* kernel_main() is nobody's task
Entry(t) == [of |-> t, at |-> "entry", n |-> 0]

(* The slots schedule_next() sees.  One that is counted and not yet        *)
(* written holds a null pointer, whose state is the word at address 8, a   *)
(* vector and no task_state_t, until schedule_next() writes it.            *)
Registered == {t \in stored : t < task_count}
EmptySlots == {t \in Tasks \ stored : t < task_count}
InQueue(st) == [t \in Tasks |-> IF t \in Registered THEN st[t] ELSE "NULL"]

(* Out of reset the tcbs are zero: state 0 is TASK_READY.                  *)
BootInit ==
  /\ state = [t \in Tasks |-> "READY"]
  /\ priority = [t \in Tasks |-> 0]
  /\ wake_tick = [t \in Tasks |-> 0]
  /\ canary = [t \in Tasks |-> FALSE]
  /\ g_tick_count = 0
  /\ current_tcb = NoTask
  /\ current_index = 0
  /\ halted = FALSE
  /\ cpu = [of |-> Main, at |-> "timer_init", n |-> 0]
  /\ saved = [t \in Tasks \cup {NoTask} |-> Entry(NoTask)]
  /\ timer_on = FALSE
  /\ task_count = 0
  /\ stored = {}
  /\ started = {}
  /\ disturbed = FALSE
  /\ null_running = FALSE

At(who, here) == cpu.of = who /\ cpu.at = here
GoesTo(there, n) == cpu' = [cpu EXCEPT !.at = there, !.n = n]

-----------------------------------------------------------------------------
(* The statements of kernel_main().                                        *)
timer_init ==
  /\ At(Main, "timer_init")
  /\ timer_on' = TRUE
  /\ GoesTo("scheduler_init", 0)
  /\ UNCHANGED <<tcbVars, schedVars, saved, task_count, stored, started, disturbed,
                 null_running>>

scheduler_init ==
  /\ At(Main, "scheduler_init")
  /\ g_tick_count' = 0
  /\ current_index' = 0
  /\ current_tcb' = NoTask
  /\ task_count' = 0
  /\ GoesTo("create", 0)
  /\ UNCHANGED <<tcbVars, halted, saved, timer_on, stored, started, disturbed,
                 null_running>>

task_create(t) ==
  /\ At(Main, "create") /\ cpu.n = t
  /\ saved' = [saved EXCEPT ![t] = Entry(t)]
  /\ state' = [state EXCEPT ![t] = "READY"]
  /\ priority' = [priority EXCEPT ![t] = BasePriority[t]]
  /\ wake_tick' = [wake_tick EXCEPT ![t] = 0]
  /\ canary' = [canary EXCEPT ![t] = TRUE]
  /\ IF t = NumTasks - 1 THEN GoesTo("add", 0) ELSE GoesTo("create", t + 1)
  /\ UNCHANGED <<schedVars, timer_on, task_count, stored, started, disturbed,
                 null_running>>

(* scheduler_add_task(): C leaves open whether ready_queue[task_count++] = *)
(* tcb stores the slot or the new count first.                             *)
AddedEarly(t) ==    \* mutant: scheduler_start() is called one task too early
  IF t >= NumTasks - 2 THEN GoesTo("index", 0) ELSE GoesTo("add", t + 1)
Added(t) ==
  IF t = NumTasks - 1 THEN GoesTo("index", 0) ELSE GoesTo("add", t + 1)

CountsFirst(t) ==
  /\ At(Main, "add") /\ cpu.n = t
  /\ task_count < MAX_TASKS
  /\ task_count' = task_count + 1
  /\ GoesTo("store", t)
  /\ state' = [state EXCEPT ![t] = "READY"]
  /\ UNCHANGED <<priority, wake_tick, canary, schedVars, saved, timer_on, stored,
                 started, disturbed, null_running>>
ThenStores(t) ==
  /\ At(Main, "store") /\ cpu.n = t
  /\ stored' = stored \cup {t}
  /\ Added(t)
  /\ UNCHANGED <<tcbVars, schedVars, saved, timer_on, task_count, started,
                 disturbed, null_running>>
StoresFirst(t) ==
  /\ At(Main, "add") /\ cpu.n = t
  /\ task_count < MAX_TASKS
  /\ stored' = stored \cup {t}
  /\ GoesTo("count", t)
  /\ state' = [state EXCEPT ![t] = "READY"]
  /\ UNCHANGED <<priority, wake_tick, canary, schedVars, saved, timer_on,
                 task_count, started, disturbed, null_running>>
ThenCounts(t) ==
  /\ At(Main, "count") /\ cpu.n = t
  /\ task_count' = task_count + 1
  /\ Added(t)
  /\ UNCHANGED <<tcbVars, schedVars, saved, timer_on, stored, started, disturbed,
                 null_running>>

scheduler_add_task(t) == CountsFirst(t) \/ ThenStores(t) \/ StoresFirst(t) \/ ThenCounts(t)

(* The three assignments of scheduler_start(), then start_first_task(),    *)
(* which disables interrupts and resumes what current_tcb points to.       *)
StartsAtZero ==
  /\ At(Main, "index")
  /\ current_index' = 0
  /\ GoesTo("current", 0)
  /\ UNCHANGED <<tcbVars, g_tick_count, current_tcb, halted, saved, timer_on,
                 task_count, stored, started, disturbed, null_running>>
StartsFirstTask ==
  /\ At(Main, "current")
  /\ current_tcb' = 0
  /\ GoesTo("state", 0)
  /\ UNCHANGED <<tcbVars, g_tick_count, current_index, halted, saved, timer_on,
                 task_count, stored, started, disturbed, null_running>>
FirstStateKept == state          \* mutant: the first task is left READY
FirstState == [state EXCEPT ![current_tcb] = "RUNNING"]
MarksRunning ==
  /\ At(Main, "state")
  /\ state' = FirstState
  /\ GoesTo("restore", 0)
  /\ UNCHANGED <<priority, wake_tick, canary, schedVars, saved, timer_on,
                 task_count, stored, started, disturbed, null_running>>
start_first_task ==
  /\ At(Main, "restore")
  /\ cpu' = saved[current_tcb]
  /\ UNCHANGED <<tcbVars, schedVars, saved, timer_on, task_count, stored, started,
                 disturbed, null_running>>

scheduler_start == StartsAtZero \/ StartsFirstTask \/ MarksRunning \/ start_first_task

MainStep ==
  \/ timer_init \/ scheduler_init \/ scheduler_start
  \/ \E t \in Tasks : task_create(t) \/ scheduler_add_task(t)

-----------------------------------------------------------------------------
(* The task functions: they start, and from then on they sleep now and     *)
(* then.                                                                   *)
TaskStarts(t) ==
  /\ At(t, "entry")
  /\ started' = started \cup {t}
  /\ GoesTo("app", 0)
  /\ UNCHANGED <<tcbVars, schedVars, saved, timer_on, task_count, stored, disturbed,
                 null_running>>
TaskSleeps(t) ==
  /\ At(t, "app")
  /\ \E ticks \in SleepTicks : task_sleep(ticks)
  /\ GoesTo("spin", 0)
  /\ UNCHANGED <<saved, timer_on, task_count, stored, started, disturbed,
                 null_running>>
TaskWakes(t) ==
  /\ At(t, "spin")
  /\ state[current_tcb] # "SLEEPING"
  /\ GoesTo("app", 0)
  /\ UNCHANGED <<tcbVars, schedVars, saved, timer_on, task_count, stored, started,
                 disturbed, null_running>>

-----------------------------------------------------------------------------
(* The bad moments for a tick: some tasks are registered and some are not, *)
(* and kernel_main() loses the CPU for good; or current_tcb is set, and    *)
(* the context of kernel_main() takes the place of the first task's.       *)
Disturbing ==
  /\ cpu.of = Main
  /\ current_tcb # NoTask \/ Registered \notin {{}, Tasks}

(* A null slot that reads as RUNNING is taken, as its priority, a byte of  *)
(* the vectors, is above any of kernel.c; best is null then, and whatever  *)
(* the loop has visited before is forgotten.                               *)
Remembered(st) ==
  [t \in Tasks |->
     IF null_running /\ \E e \in EmptySlots : ScanPos(t) < ScanPos(e) THEN "NULL" ELSE st[t]]

(* IRQ_Handler around schedule_next(), with any number of tasks            *)
(* registered and possibly no current one.                                 *)
SaveNextLate(next) == [saved EXCEPT ![next] = cpu]        \* mutant: saved after the switch
Saved(next) == [saved EXCEPT ![current_tcb] = cpu]

TimerIRQ ==
  /\ timer_on
  /\ g_tick_count' = Wrap(g_tick_count + 1)
  /\ LET yielded == InQueue(IF current_tcb = NoTask THEN state ELSE Yield(state))
         woken == WakeDue(yielded, Wrap(g_tick_count + 1))
     IN \E next \in Tasks \cup {NoTask} :
          /\ Dispatched(Remembered(woken), next)
          /\ state' = [t \in Tasks |->
                         IF t = next THEN "RUNNING"
                         ELSE IF t \in Registered THEN woken[t] ELSE state[t]]
          /\ current_index' =
               IF Runnable(Remembered(woken)) = {} THEN current_index ELSE next
          /\ current_tcb' = next
          /\ saved' = Saved(next)
          /\ cpu' = saved'[next]
          /\ null_running' = (null_running \/ (task_count > 0 /\ next = NoTask))
  /\ disturbed' = (disturbed \/ Disturbing)
  /\ UNCHANGED <<priority, wake_tick, canary, halted, timer_on, task_count, stored,
                 started>>

BootNext ==
  \/ MainStep
  \/ \E t \in Tasks : TaskStarts(t) \/ TaskSleeps(t) \/ TaskWakes(t)
  \/ TimerIRQ

BootSpec == BootInit /\ [][BootNext]_bootVars

(* The timer is periodic; a context that has the CPU again and again gets  *)
(* on with kernel_main(), or with the beginning of its task function.      *)
BootFairSpec ==
  /\ BootSpec
  /\ WF_bootVars(TimerIRQ)
  /\ SF_bootVars(MainStep)
  /\ \A t \in Tasks : SF_bootVars(TaskStarts(t))

-----------------------------------------------------------------------------
(* Type invariant.                                                         *)
BootTypeOK ==
  /\ state \in [Tasks -> TaskState]
  /\ current_tcb \in Tasks \cup {NoTask}
  /\ current_index \in Tasks
  /\ g_tick_count \in 0..(TickMod - 1)
  /\ cpu.of \in Tasks \cup {Main}
  /\ task_count \in 0..NumTasks
  /\ stored \subseteq Tasks

(* Unless a tick came at a bad moment, no task is left out: kernel_main()  *)
(* runs until all of them are registered.  After one, current_tcb is a     *)
(* registered task all the same, never an empty slot (kernel.c:136-152,    *)
(* scheduler.c:32-97, irq_handler.s:50-62).                                *)
NobodyLeftOut ==
  /\ disturbed \/ cpu.of = Main \/ Registered = Tasks
  /\ disturbed => current_tcb \in Registered

(* Whatever tick came, each task finds its own frame: the one              *)
(* task_create() built until it runs, then the one it was interrupted      *)
(* with.  The exception is the first task's, where the last two            *)
(* statements of kernel_main() may have put kernel_main(); everybody is    *)
(* registered then (task.c:4-20, scheduler.c:102-108,                      *)
(* irq_handler.s:50-62).                                                   *)
FramesIntact ==
  \A t \in Tasks : canary[t] =>
    \/ saved[t].of = t
    \/ /\ disturbed /\ t = 0 /\ Registered = Tasks
       /\ saved[t].of = Main /\ saved[t].at \in {"state", "restore"}

(* When start_first_task() hands over undisturbed, the kernel is in the    *)
(* initial state of the running kernel (scheduler.c:102-108, task.c:18-27). *)
HandsOverInitialKernel ==
  [][start_first_task /\ ~disturbed =>
       TaskInit /\ SchedulerInit /\ cpu' = Entry(0)]_bootVars

(* Unless a tick comes at a bad moment, the most urgent task starts, also  *)
(* when ticks interrupt kernel_main() before, between and after            *)
(* (kernel.c:132-154, scheduler.c:40-108).                                 *)
MostUrgent(t) == \A u \in Tasks \ {t} : BasePriority[u] < BasePriority[t]
UrgentStarts == \A t \in Tasks : MostUrgent(t) => <>(disturbed \/ t \in started)

(* README.md, Expected Output: every task prints that it has started; here *)
(* the most urgent one, which no other task can keep from it.              *)
UrgentAlwaysStarts == \A t \in Tasks : MostUrgent(t) => <>(t \in started)

=============================================================================
