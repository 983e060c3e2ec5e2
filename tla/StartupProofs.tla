---------------------------- MODULE StartupProofs ----------------------------
(***************************************************************************)
(* Proofs about Startup, for any number of tasks, priorities and sleeps,   *)
(* with ticks between any two statements of kernel_main().                 *)
(* The argument follows the one thing kernel_main() owns, its context.     *)
(* While it has the CPU, what it has registered can be read off its        *)
(* statement (MainHasDone).  A tick that takes the CPU from it leaves the  *)
(* context either at address 0, where nobody ever looks again, or, from    *)
(* the last two statements, in the first task's frame; and each of the two *)
(* is a bad moment unless everything was registered already.               *)
(***************************************************************************)
EXTENDS Startup, TLAPS

Building == {"timer_init", "scheduler_init", "create"}
Adding == {"add", "store", "count"}
Starting == {"index", "current"}
Handing == {"state", "restore"}      \* current_tcb is set
MainAt == Building \cup Adding \cup Starting \cup Handing
TaskAt == {"entry", "app", "spin"}

Contexts == [of : Tasks \cup {Main}, at : MainAt \cup TaskAt, n : Int]

VarTypes ==
  /\ BootTypeOK
  /\ priority \in [Tasks -> 0..MAX_PRIORITY]
  /\ wake_tick \in [Tasks -> 0..(TickMod - 1)]
  /\ canary \in [Tasks -> BOOLEAN]
  /\ saved \in [Tasks \cup {NoTask} -> Contexts]
  /\ cpu \in Contexts
  /\ disturbed \in BOOLEAN
  /\ halted = FALSE

(* What kernel_main() has done when it is at a statement.                  *)
MainHasDone ==
  cpu.of = Main =>
    /\ cpu.at \in MainAt
    /\ cpu.at \in {"create"} \cup Adding => cpu.n \in Tasks
    /\ cpu.at \in Building => stored = {} /\ task_count = 0
    /\ cpu.at = "create" => \A t \in Tasks : t < cpu.n => canary[t]
    /\ cpu.at \notin Building => \A t \in Tasks : canary[t]
    /\ cpu.at = "add" => stored = 0..(cpu.n - 1) /\ task_count = cpu.n
    /\ cpu.at = "store" => stored = 0..(cpu.n - 1) /\ task_count = cpu.n + 1
    /\ cpu.at = "count" => stored = 0..cpu.n /\ task_count = cpu.n
    /\ cpu.at \in Starting \cup Handing => stored = Tasks /\ task_count = NumTasks
    /\ current_tcb = IF cpu.at \in Handing THEN 0 ELSE NoTask

(* The context that executes is that of kernel_main() or of current_tcb.   *)
TaskIsCurrent == cpu.of # Main => cpu.of = current_tcb /\ cpu.at \in TaskAt

(* A task whose frame task_create() has built finds its own context there; *)
(* after a bad moment the first one may find kernel_main()'s.              *)
FramesOwned ==
  /\ Registered # {} \/ current_tcb # NoTask => \A t \in Tasks : canary[t]
  /\ \A t \in Tasks : canary[t] =>
       \/ saved[t].of = t /\ saved[t].at \in TaskAt
       \/ /\ disturbed /\ t = 0
          /\ saved[t].of = Main /\ saved[t].at \in Handing
          /\ stored = Tasks /\ task_count = NumTasks

(* Until a task is dispatched the kernel is as kernel_main() made it.      *)
MainUndisturbed ==
  /\ current_tcb = NoTask => cpu.of = Main /\ ~disturbed
  /\ cpu.of = Main /\ ~disturbed =>
       /\ current_index = 0
       /\ \A t \in Tasks :
            state[t] = IF cpu.at = "restore" /\ t = 0 THEN "RUNNING" ELSE "READY"
       /\ \A t \in Tasks : canary[t] =>
            saved[t] = Entry(t) /\ priority[t] = BasePriority[t] /\ wake_tick[t] = 0

BInv ==
  /\ VarTypes
  /\ MainHasDone
  /\ TaskIsCurrent
  /\ FramesOwned
  /\ MainUndisturbed
  /\ NobodyLeftOut

-----------------------------------------------------------------------------
(* What the assumptions say of the constants.                              *)
LEMMA SlotFacts ==
  /\ NumTasks \in Nat /\ 1 <= NumTasks /\ NumTasks <= MAX_TASKS
  /\ Tasks = 0..(NumTasks - 1) /\ 0 \in Tasks
  /\ NoTask \notin Tasks /\ Main = NoTask
  BY TaskAssumption, SMT DEF MAX_TASKS, Tasks, NoTask, Main

LEMMA ValueFacts ==
  /\ "READY" \in TaskState /\ "RUNNING" \in TaskState /\ "SLEEPING" \in TaskState
  /\ BasePriority \in [Tasks -> 0..MAX_PRIORITY]
  /\ 0 \in 0..(TickMod - 1)
  BY TaskAssumption, TickAssumption, SMT DEF TaskState, Tasks

LEMMA InitBInv == BootInit => BInv
  <1> SUFFICES ASSUME BootInit PROVE BInv
    OBVIOUS
  <1> USE SlotFacts DEF BootInit
  <1>1. VarTypes
    <2>1. 0 \in 0..(TickMod - 1)
      BY TickAssumption, SMT
    <2>2. 0 \in 0..MAX_PRIORITY
      BY SMT DEF MAX_PRIORITY
    <2>3. cpu \in Contexts /\ Entry(NoTask) \in Contexts
      BY DEF Contexts, Entry, MainAt, TaskAt, Building
    <2>4. BootTypeOK
      BY <2>1, SMT DEF BootTypeOK, TaskState
    <2> QED
      BY <2>1, <2>2, <2>3, <2>4 DEF VarTypes
  <1>2. MainHasDone
    BY DEF MainHasDone, MainAt, Building, Adding, Starting, Handing
  <1>3. TaskIsCurrent
    BY DEF TaskIsCurrent
  <1>4. FramesOwned
    BY DEF FramesOwned, Registered
  <1>5. MainUndisturbed
    BY DEF MainUndisturbed, Building, Adding
  <1>6. NobodyLeftOut
    BY DEF NobodyLeftOut
  <1> QED
    BY <1>1, <1>2, <1>3, <1>4, <1>5, <1>6 DEF BInv

(* A statement of the context that executes leads to another one.          *)
LEMMA Moves ==
  ASSUME cpu \in Contexts, NEW there \in MainAt \cup TaskAt, NEW n \in Int, GoesTo(there, n)
  PROVE  cpu' \in Contexts /\ cpu'.of = cpu.of /\ cpu'.at = there /\ cpu'.n = n
  <1>1. cpu' = [cpu EXCEPT !.at = there, !.n = n]
    BY DEF GoesTo
  <1> DEFINE Owners == Tasks \cup {Main}
             Places == MainAt \cup TaskAt
  <1>2. cpu \in [of : Owners, at : Places, n : Int] /\ there \in Places
    BY DEF Contexts
  <1> HIDE DEF Owners, Places
  <1>3. /\ cpu' \in [of : Owners, at : Places, n : Int]
        /\ cpu'.of = cpu.of /\ cpu'.at = there /\ cpu'.n = n
    BY <1>1, <1>2
  <1> QED
    BY <1>3 DEF Contexts, Owners, Places

(* No tick has done harm before current_tcb is set.                        *)
LEMMA Calm ==
  ASSUME BInv, cpu.of = Main, cpu.at \notin Handing
  PROVE  current_tcb = NoTask /\ ~disturbed
  BY SMT DEF BInv, MainHasDone, MainUndisturbed

(* timer_init().                                                           *)
LEMMA TimerInitStep ==
  ASSUME BInv, timer_init
  PROVE  BInv'
  <1> USE SlotFacts DEF BInv
  <1>0. /\ cpu.of = Main /\ cpu.at = "timer_init" /\ cpu \in Contexts
        /\ cpu' \in Contexts /\ cpu'.of = Main
        /\ cpu'.at = "scheduler_init"
    BY Moves, SMT DEF VarTypes, At, timer_init, MainAt, Building, Handing
  <1>1. VarTypes'
    <2>1. BootTypeOK'
      BY <1>0, ValueFacts, SMT DEF VarTypes, BootTypeOK, tcbVars, schedVars, timer_init
    <2> QED
      BY <1>0, <2>1, SMT DEF VarTypes, tcbVars, schedVars, timer_init
  <1>2. MainHasDone'
    BY <1>0, SMT DEF timer_init, MainHasDone, tcbVars, schedVars, MainAt, TaskAt, Building,
       Adding, Starting, Handing
  <1>3. TaskIsCurrent'
    BY <1>0, SMT DEF TaskIsCurrent, tcbVars, schedVars, timer_init
  <1>4. FramesOwned'
    BY <1>0, SMT DEF FramesOwned, Registered, tcbVars, schedVars, timer_init
  <1>5. MainUndisturbed'
    BY <1>0, SMT DEF MainUndisturbed, Handing, tcbVars, schedVars, timer_init
  <1>6. NobodyLeftOut'
    BY <1>0, Calm, SMT DEF NobodyLeftOut, Handing, tcbVars, schedVars, timer_init
  <1> QED
    BY <1>1, <1>2, <1>3, <1>4, <1>5, <1>6

(* scheduler_init().                                                       *)
LEMMA SchedulerInitStep ==
  ASSUME BInv, scheduler_init
  PROVE  BInv'
  <1> USE SlotFacts DEF BInv
  <1>0. /\ cpu.of = Main /\ cpu.at = "scheduler_init" /\ cpu \in Contexts
        /\ cpu' \in Contexts /\ cpu'.of = Main
        /\ cpu'.at = "create" /\ cpu'.n = 0
    BY Moves, SMT DEF VarTypes, At, scheduler_init, MainAt, Building, Handing
  <1>1. VarTypes'
    <2>1. BootTypeOK'
      BY <1>0, ValueFacts, SMT DEF VarTypes, BootTypeOK, tcbVars, scheduler_init
    <2> QED
      BY <1>0, <2>1, SMT DEF VarTypes, tcbVars, schedVars, scheduler_init
  <1>2. MainHasDone'
    BY <1>0, SMT DEF scheduler_init, MainHasDone, MainAt, TaskAt, Building, Adding, Starting,
       Handing, tcbVars, schedVars
  <1>3. TaskIsCurrent'
    BY <1>0, SMT DEF TaskIsCurrent, tcbVars, schedVars, scheduler_init
  <1>4. FramesOwned'
    BY <1>0, SMT DEF scheduler_init, FramesOwned, Registered, MainHasDone, tcbVars, MainAt,
       TaskAt, Building, Adding, Starting, Handing, schedVars
  <1>5. MainUndisturbed'
    BY <1>0, SMT DEF MainUndisturbed, MainHasDone, Handing, tcbVars, scheduler_init
  <1>6. NobodyLeftOut'
    BY <1>0, Calm, SMT DEF NobodyLeftOut, Handing, tcbVars, schedVars, scheduler_init
  <1> QED
    BY <1>1, <1>2, <1>3, <1>4, <1>5, <1>6

(* task_create().                                                          *)
LEMMA CreateStep ==
  ASSUME BInv, NEW t \in Tasks, task_create(t)
  PROVE  BInv'
  <1> USE SlotFacts DEF BInv
  <1>0. /\ cpu.of = Main /\ cpu.at = "create" /\ cpu \in Contexts
        /\ cpu' \in Contexts /\ cpu'.of = Main
        /\ cpu.n = t /\ IF t = NumTasks - 1 THEN cpu'.at = "add" /\ cpu'.n = 0
           ELSE cpu'.at = "create" /\ cpu'.n = t + 1
    BY Moves, SMT DEF VarTypes, At, task_create, MainAt, Building, Adding, Starting, Handing,
       MainHasDone
  <1>1. VarTypes'
    <2>1. Entry(t) \in Contexts
      BY SMT DEF Entry, Contexts, MainAt, TaskAt, Building
    <2>2. 0 \in 0..(TickMod - 1) /\ BasePriority[t] \in 0..MAX_PRIORITY
      BY ValueFacts
    <2> QED
      BY <1>0, <2>1, <2>2, ValueFacts DEF VarTypes, BootTypeOK, schedVars, task_create
  <1>2. MainHasDone'
    <2>1. /\ stored = {} /\ task_count = 0 /\ current_tcb = NoTask
          /\ \A u \in Tasks : u < t => canary[u]
      BY <1>0, SMT DEF MainHasDone, Building, Handing
    <2>2. \A u \in Tasks : u <= t => canary'[u]
      BY <2>1, SMT DEF task_create, VarTypes
    <2>3. stored' = {} /\ task_count' = 0 /\ current_tcb' = NoTask
      BY <2>1 DEF task_create, schedVars
    <2>4. CASE t = NumTasks - 1
      <3>1. \A u \in Tasks : canary'[u]
        BY <2>2, <2>4, SMT
      <3>2. cpu'.at = "add" /\ cpu'.n = 0
        BY <1>0, <2>4
      <3>3. stored' = 0..(cpu'.n - 1) /\ task_count' = cpu'.n
        BY <2>3, <3>2, SMT
      <3> QED
        BY <2>3, <3>1, <3>2, <3>3, SMT DEF MainHasDone, MainAt, Adding, Starting, Handing
    <2>5. CASE t # NumTasks - 1
      <3>1. t + 1 \in Tasks /\ \A u \in Tasks : u < t + 1 => canary'[u]
        BY <2>2, <2>5, SMT
      <3>2. cpu'.at = "create" /\ cpu'.n = t + 1
        BY <1>0, <2>5
      <3> QED
        BY <2>3, <3>1, <3>2, SMT DEF MainHasDone, MainAt, Building, Starting, Handing
    <2> QED
      BY <2>4, <2>5
  <1>3. TaskIsCurrent'
    BY <1>0, SMT DEF TaskIsCurrent, tcbVars, schedVars, task_create
  <1>4. FramesOwned'
    <2>1. stored = {}
      BY <1>0, SMT DEF MainHasDone, Building
    <2>2. Registered' = {} /\ current_tcb' = NoTask
      BY <1>0, <2>1, SMT DEF Registered, task_create, schedVars, MainHasDone
    <2>3. saved'[t].of = t /\ saved'[t].at \in TaskAt
      BY DEF task_create, Entry, TaskAt, VarTypes
    <2>4. ASSUME NEW u \in Tasks, u # t, canary'[u]
          PROVE  saved'[u].of = u /\ saved'[u].at \in TaskAt
      <3>1. canary[u] /\ saved'[u] = saved[u]
        BY <2>4, SMT DEF task_create, VarTypes
      <3>2. stored # Tasks
        BY <2>1
      <3> QED
        BY <3>1, <3>2, Zenon DEF FramesOwned
    <2> QED
      BY <2>2, <2>3, <2>4, Zenon DEF FramesOwned
  <1>5. MainUndisturbed'
    <2>1. /\ cpu.at # "restore" /\ cpu'.at # "restore" /\ cpu'.at \notin {"current"} \cup Handing
      BY <1>0, SMT DEF Handing
    <2>2. UNCHANGED <<current_tcb, current_index, disturbed>>
      BY DEF task_create, schedVars
    <2>3. \A u \in Tasks : state[u] = "READY" => state'[u] = "READY"
      BY SMT DEF task_create, VarTypes, BootTypeOK
    <2>4. saved'[t] = Entry(t) /\ priority'[t] = BasePriority[t] /\ wake_tick'[t] = 0
      BY DEF task_create, VarTypes
    <2>5. ASSUME NEW u \in Tasks, u # t, canary'[u]
          PROVE  /\ canary[u] /\ saved'[u] = saved[u]
                 /\ priority'[u] = priority[u] /\ wake_tick'[u] = wake_tick[u]
      BY <2>5, SMT DEF task_create, VarTypes
    <2>6. ASSUME ~disturbed, NEW u \in Tasks, canary'[u]
          PROVE  saved'[u] = Entry(u) /\ priority'[u] = BasePriority[u] /\ wake_tick'[u] = 0
      <3>1. CASE u = t
        BY <2>4, <3>1
      <3>2. CASE u # t
        BY <1>0, <2>5, <2>6, <3>2, Zenon DEF MainUndisturbed
      <3> QED
        BY <3>1, <3>2
    <2>7. /\ current_tcb = NoTask => ~disturbed
          /\ ~disturbed => current_index = 0 /\ \A u \in Tasks : state[u] = "READY"
      BY <1>0, <2>1 DEF MainUndisturbed
    <2> QED
      BY <1>0, <2>1, <2>2, <2>3, <2>6, <2>7 DEF MainUndisturbed
  <1>6. NobodyLeftOut'
    BY <1>0, Calm, SMT DEF NobodyLeftOut, Handing, tcbVars, schedVars, task_create
  <1> QED
    BY <1>1, <1>2, <1>3, <1>4, <1>5, <1>6

(* scheduler_add_task(), the count before the slot.                        *)
LEMMA CountsFirstStep ==
  ASSUME BInv, NEW t \in Tasks, CountsFirst(t)
  PROVE  BInv'
  <1> USE SlotFacts DEF BInv
  <1>0. /\ cpu.of = Main /\ cpu.at = "add" /\ cpu \in Contexts
        /\ cpu' \in Contexts /\ cpu'.of = Main
        /\ cpu.n = t /\ cpu'.at = "store" /\ cpu'.n = t
        /\ task_count + 1 \in 0..NumTasks
    BY Moves, SMT DEF VarTypes, At, MainHasDone, CountsFirst, MainAt, Building, Adding,
       Starting, Handing
  <1>1. VarTypes'
    <2>1. BootTypeOK'
      BY <1>0, ValueFacts, SMT DEF VarTypes, BootTypeOK, schedVars, CountsFirst
    <2> QED
      BY <1>0, <2>1, SMT DEF VarTypes, tcbVars, schedVars, CountsFirst
  <1>2. MainHasDone'
    BY <1>0, SMT DEF CountsFirst, MainHasDone, tcbVars, schedVars, MainAt, TaskAt, Building,
       Adding, Starting, Handing
  <1>3. TaskIsCurrent'
    BY <1>0, SMT DEF TaskIsCurrent, tcbVars, schedVars, CountsFirst
  <1>4. FramesOwned'
    BY <1>0, SMT DEF FramesOwned, MainHasDone, Building, CountsFirst
  <1>5. MainUndisturbed'
    BY <1>0, SMT DEF MainUndisturbed, Handing, tcbVars, schedVars, CountsFirst
  <1>6. NobodyLeftOut'
    BY <1>0, Calm, SMT DEF NobodyLeftOut, Handing, tcbVars, schedVars, CountsFirst
  <1> QED
    BY <1>1, <1>2, <1>3, <1>4, <1>5, <1>6

(* and then the slot.                                                      *)
LEMMA ThenStoresStep ==
  ASSUME BInv, NEW t \in Tasks, ThenStores(t)
  PROVE  BInv'
  <1> USE SlotFacts DEF BInv
  <1>0. /\ cpu.of = Main /\ cpu.at = "store" /\ cpu \in Contexts
        /\ cpu' \in Contexts /\ cpu'.of = Main
        /\ cpu.n = t /\ IF t = NumTasks - 1 THEN cpu'.at = "index" /\ cpu'.n = 0
           ELSE cpu'.at = "add" /\ cpu'.n = t + 1
    BY Moves, SMT DEF VarTypes, At, ThenStores, Added, MainAt, Building, Adding, Starting,
       Handing, MainHasDone
  <1>1. VarTypes'
    <2>1. BootTypeOK'
      BY <1>0, ValueFacts, SMT DEF VarTypes, BootTypeOK, tcbVars, schedVars, ThenStores
    <2> QED
      BY <1>0, <2>1, SMT DEF VarTypes, tcbVars, schedVars, ThenStores, Added
  <1>2. MainHasDone'
    <2>1. /\ \A u \in Tasks : canary[u]
          /\ current_tcb = NoTask
          /\ stored = 0..(t - 1) /\ task_count = t + 1
      BY <1>0, SMT DEF MainHasDone
    <2>2. /\ \A u \in Tasks : canary'[u]
          /\ current_tcb' = NoTask
          /\ stored' = 0..t /\ task_count' = t + 1
      BY <2>1, SMT DEF ThenStores, tcbVars, schedVars
    <2>3. CASE t = NumTasks - 1
      BY <1>0, <2>2, <2>3, SMT DEF MainHasDone, MainAt, Building, Starting, Handing
    <2>4. CASE t # NumTasks - 1
      <3>1. cpu'.at = "add" /\ cpu'.n = t + 1 /\ t + 1 \in Tasks
        BY <1>0, <2>4, SMT
      <3>2. stored' = 0..(cpu'.n - 1) /\ task_count' = cpu'.n
        BY <2>2, <3>1, SMT
      <3> QED
        BY <2>2, <3>1, <3>2, SMT DEF MainHasDone, MainAt, Building, Adding, Starting, Handing
    <2> QED
      BY <2>3, <2>4
  <1>3. TaskIsCurrent'
    BY <1>0, SMT DEF TaskIsCurrent, tcbVars, schedVars, ThenStores, Added
  <1>4. FramesOwned'
    BY <1>0, SMT DEF FramesOwned, MainHasDone, tcbVars, ThenStores
  <1>5. MainUndisturbed'
    <2>1. /\ cpu'.at \notin {"current"} \cup Handing /\ cpu'.at # "restore" /\ cpu.at # "restore"
      BY <1>0, SMT DEF Handing
    <2>2. UNCHANGED <<state, priority, wake_tick, canary, current_tcb, current_index,
                    saved, disturbed>>
      BY DEF ThenStores, tcbVars, schedVars
    <2> QED
      BY <1>0, <2>1, <2>2, Zenon DEF MainUndisturbed
  <1>6. NobodyLeftOut'
    BY <1>0, Calm, SMT DEF NobodyLeftOut, Handing, tcbVars, schedVars, ThenStores
  <1> QED
    BY <1>1, <1>2, <1>3, <1>4, <1>5, <1>6

(* The slot before the count,                                              *)
LEMMA StoresFirstStep ==
  ASSUME BInv, NEW t \in Tasks, StoresFirst(t)
  PROVE  BInv'
  <1> USE SlotFacts DEF BInv
  <1>0. /\ cpu.of = Main /\ cpu.at = "add" /\ cpu \in Contexts
        /\ cpu' \in Contexts /\ cpu'.of = Main
        /\ cpu.n = t /\ cpu'.at = "count" /\ cpu'.n = t
    BY Moves, SMT DEF VarTypes, At, StoresFirst, MainAt, Building, Adding, Starting, Handing,
       MainHasDone
  <1>1. VarTypes'
    <2>1. BootTypeOK'
      BY <1>0, ValueFacts, SMT DEF VarTypes, BootTypeOK, schedVars, StoresFirst
    <2> QED
      BY <1>0, <2>1, SMT DEF VarTypes, tcbVars, schedVars, StoresFirst
  <1>2. MainHasDone'
    BY <1>0, SMT DEF StoresFirst, MainHasDone, tcbVars, schedVars, MainAt, TaskAt, Building,
       Adding, Starting, Handing
  <1>3. TaskIsCurrent'
    BY <1>0, SMT DEF TaskIsCurrent, tcbVars, schedVars, StoresFirst
  <1>4. FramesOwned'
    BY <1>0, SMT DEF FramesOwned, MainHasDone, Building, StoresFirst
  <1>5. MainUndisturbed'
    BY <1>0, SMT DEF MainUndisturbed, Handing, tcbVars, schedVars, StoresFirst
  <1>6. NobodyLeftOut'
    BY <1>0, Calm, SMT DEF NobodyLeftOut, Handing, tcbVars, schedVars, StoresFirst
  <1> QED
    BY <1>1, <1>2, <1>3, <1>4, <1>5, <1>6

(* and then the count.                                                     *)
LEMMA ThenCountsStep ==
  ASSUME BInv, NEW t \in Tasks, ThenCounts(t)
  PROVE  BInv'
  <1> USE SlotFacts DEF BInv
  <1>0. /\ cpu.of = Main /\ cpu.at = "count" /\ cpu \in Contexts
        /\ cpu' \in Contexts /\ cpu'.of = Main
        /\ cpu.n = t /\ IF t = NumTasks - 1 THEN cpu'.at = "index" /\ cpu'.n = 0
           ELSE cpu'.at = "add" /\ cpu'.n = t + 1
        /\ task_count + 1 \in 0..NumTasks
    BY Moves, SMT DEF VarTypes, At, MainHasDone, ThenCounts, Added, MainAt, Building, Adding,
       Starting, Handing
  <1>1. VarTypes'
    <2>1. BootTypeOK'
      BY <1>0, ValueFacts, SMT DEF VarTypes, BootTypeOK, tcbVars, schedVars, ThenCounts
    <2> QED
      BY <1>0, <2>1, SMT DEF VarTypes, tcbVars, schedVars, ThenCounts, Added
  <1>2. MainHasDone'
    <2>1. /\ \A u \in Tasks : canary[u]
          /\ current_tcb = NoTask
          /\ stored = 0..t /\ task_count = t
      BY <1>0, SMT DEF MainHasDone, Building
    <2>2. /\ \A u \in Tasks : canary'[u]
          /\ current_tcb' = NoTask
          /\ stored' = 0..t /\ task_count' = t + 1
      BY <2>1, SMT DEF ThenCounts, tcbVars, schedVars
    <2>3. CASE t = NumTasks - 1
      BY <1>0, <2>2, <2>3, SMT DEF MainHasDone, MainAt, Building, Starting, Handing
    <2>4. CASE t # NumTasks - 1
      <3>1. cpu'.at = "add" /\ cpu'.n = t + 1 /\ t + 1 \in Tasks
        BY <1>0, <2>4, SMT
      <3>2. stored' = 0..(cpu'.n - 1) /\ task_count' = cpu'.n
        BY <2>2, <3>1, SMT
      <3> QED
        BY <2>2, <3>1, <3>2, SMT DEF MainHasDone, MainAt, Building, Adding, Starting, Handing
    <2> QED
      BY <2>3, <2>4
  <1>3. TaskIsCurrent'
    BY <1>0, SMT DEF TaskIsCurrent, tcbVars, schedVars, ThenCounts, Added
  <1>4. FramesOwned'
    BY <1>0, SMT DEF FramesOwned, MainHasDone, Building, tcbVars, ThenCounts
  <1>5. MainUndisturbed'
    <2>1. /\ cpu'.at \notin {"current"} \cup Handing /\ cpu'.at # "restore" /\ cpu.at # "restore"
      BY <1>0, SMT DEF Handing
    <2>2. UNCHANGED <<state, priority, wake_tick, canary, current_tcb, current_index,
                    saved, disturbed>>
      BY DEF ThenCounts, tcbVars, schedVars
    <2> QED
      BY <1>0, <2>1, <2>2, Zenon DEF MainUndisturbed
  <1>6. NobodyLeftOut'
    BY <1>0, Calm, SMT DEF NobodyLeftOut, Handing, tcbVars, schedVars, ThenCounts
  <1> QED
    BY <1>1, <1>2, <1>3, <1>4, <1>5, <1>6

(* The assignments of scheduler_start().                                   *)
LEMMA StartsAtZeroStep ==
  ASSUME BInv, StartsAtZero
  PROVE  BInv'
  <1> USE SlotFacts DEF BInv
  <1>0. /\ cpu.of = Main /\ cpu.at = "index" /\ cpu \in Contexts
        /\ cpu' \in Contexts /\ cpu'.of = Main
        /\ cpu'.at = "current"
    BY Moves, SMT DEF VarTypes, At, StartsAtZero, MainAt, Building, Starting
  <1>1. VarTypes'
    <2>1. BootTypeOK'
      BY <1>0, ValueFacts, SMT DEF VarTypes, BootTypeOK, tcbVars, StartsAtZero
    <2> QED
      BY <1>0, <2>1, SMT DEF VarTypes, tcbVars, schedVars, StartsAtZero
  <1>2. MainHasDone'
    BY <1>0, SMT DEF StartsAtZero, MainHasDone, tcbVars, schedVars, MainAt, TaskAt, Building,
       Adding, Starting, Handing
  <1>3. TaskIsCurrent'
    BY <1>0, SMT DEF TaskIsCurrent, tcbVars, schedVars, StartsAtZero
  <1>4. FramesOwned'
    BY <1>0, SMT DEF FramesOwned, MainHasDone, Starting, tcbVars, StartsAtZero
  <1>5. MainUndisturbed'
    BY <1>0, SMT DEF MainUndisturbed, Handing, tcbVars, schedVars, StartsAtZero
  <1>6. NobodyLeftOut'
    BY <1>0, Calm, SMT DEF NobodyLeftOut, Handing, tcbVars, schedVars, StartsAtZero
  <1> QED
    BY <1>1, <1>2, <1>3, <1>4, <1>5, <1>6

LEMMA StartsFirstTaskStep ==
  ASSUME BInv, StartsFirstTask
  PROVE  BInv'
  <1> USE SlotFacts DEF BInv
  <1>0. /\ cpu.of = Main /\ cpu.at = "current" /\ cpu \in Contexts
        /\ cpu' \in Contexts /\ cpu'.of = Main
        /\ cpu'.at = "state"
    BY Moves, SMT DEF VarTypes, At, StartsFirstTask, MainAt, Building, Handing
  <1>1. VarTypes'
    <2>1. BootTypeOK'
      BY <1>0, ValueFacts, SMT DEF VarTypes, BootTypeOK, tcbVars, StartsFirstTask
    <2> QED
      BY <1>0, <2>1, SMT DEF VarTypes, tcbVars, schedVars, StartsFirstTask
  <1>2. MainHasDone'
    BY <1>0, SMT DEF StartsFirstTask, MainHasDone, tcbVars, schedVars, MainAt, TaskAt,
       Building, Adding, Starting, Handing
  <1>3. TaskIsCurrent'
    BY <1>0, SMT DEF TaskIsCurrent, tcbVars, schedVars, StartsFirstTask
  <1>4. FramesOwned'
    BY <1>0, SMT DEF FramesOwned, MainHasDone, Starting, tcbVars, StartsFirstTask
  <1>5. MainUndisturbed'
    BY <1>0, SMT DEF MainUndisturbed, tcbVars, StartsFirstTask
  <1>6. NobodyLeftOut'
    BY <1>0, Calm, SMT DEF NobodyLeftOut, Handing, tcbVars, schedVars, StartsFirstTask
  <1> QED
    BY <1>1, <1>2, <1>3, <1>4, <1>5, <1>6

LEMMA MarksRunningStep ==
  ASSUME BInv, MarksRunning
  PROVE  BInv'
  <1> USE SlotFacts DEF BInv
  <1>0. /\ cpu.of = Main /\ cpu.at = "state" /\ cpu \in Contexts
        /\ cpu' \in Contexts /\ cpu'.of = Main
        /\ cpu'.at = "restore"
    BY Moves, SMT DEF VarTypes, At, MarksRunning, MainAt, Building, Adding, Starting, Handing,
       MainHasDone
  <1>1. VarTypes'
    <2>1. state' \in [Tasks -> TaskState]
      <3>1. state \in [Tasks -> TaskState] /\ state' = [state EXCEPT ![current_tcb] = "RUNNING"]
        BY DEF VarTypes, BootTypeOK, MarksRunning, FirstState
      <3> QED
        BY <3>1, ValueFacts
    <2>2. BootTypeOK'
      BY <1>0, <2>1, SMT DEF VarTypes, BootTypeOK, schedVars, MarksRunning
    <2> QED
      BY <1>0, <2>2, SMT DEF VarTypes, schedVars, MarksRunning
  <1>2. MainHasDone'
    BY <1>0, SMT DEF MarksRunning, MainHasDone, tcbVars, schedVars, FirstState, MainAt,
       TaskAt, Building, Adding, Starting, Handing
  <1>3. TaskIsCurrent'
    BY <1>0, SMT DEF TaskIsCurrent, tcbVars, schedVars, MarksRunning, FirstState
  <1>4. FramesOwned'
    BY <1>0, SMT DEF FramesOwned, MainHasDone, Handing, MarksRunning
  <1>5. MainUndisturbed'
    BY <1>0, SMT DEF MarksRunning, VarTypes, BootTypeOK, MainUndisturbed, MainHasDone,
       Handing, schedVars, FirstState, tcbVars
  <1>6. NobodyLeftOut'
    <2>1. stored' = Tasks /\ task_count' = NumTasks /\ current_tcb' = 0
      BY <1>0, SMT DEF MarksRunning, schedVars, MainHasDone, Building, Adding, Handing
    <2> QED
      BY <1>0, <2>1, SMT DEF NobodyLeftOut, Registered
  <1> QED
    BY <1>1, <1>2, <1>3, <1>4, <1>5, <1>6

(* A task function begins, and goes on after a sleep.                      *)
LEMMA TaskStartsStep ==
  ASSUME BInv, NEW t \in Tasks, TaskStarts(t)
  PROVE  BInv'
  <1> USE SlotFacts DEF BInv
  <1>0. /\ cpu.of = t /\ cpu.at = "entry" /\ cpu \in Contexts
        /\ cpu' \in Contexts /\ cpu'.of = t
        /\ cpu'.at = "app"
    BY Moves, SMT DEF VarTypes, At, TaskStarts, MainAt, Building, TaskAt
  <1>1. VarTypes'
    <2>1. BootTypeOK'
      BY <1>0, ValueFacts, SMT DEF VarTypes, BootTypeOK, tcbVars, schedVars, TaskStarts
    <2> QED
      BY <1>0, <2>1, SMT DEF VarTypes, tcbVars, schedVars, TaskStarts
  <1>2. MainHasDone'
    BY <1>0, SMT DEF MainHasDone, Handing, tcbVars, schedVars, TaskStarts
  <1>3. TaskIsCurrent'
    BY <1>0, SMT DEF TaskIsCurrent, TaskAt, tcbVars, schedVars, TaskStarts
  <1>4. FramesOwned'
    BY <1>0, SMT DEF FramesOwned, Registered, tcbVars, schedVars, TaskStarts
  <1>5. MainUndisturbed'
    BY <1>0, SMT DEF MainUndisturbed, Handing, tcbVars, schedVars, TaskStarts
  <1>6. NobodyLeftOut'
    BY <1>0, SMT DEF NobodyLeftOut, Registered, tcbVars, schedVars, TaskStarts
  <1> QED
    BY <1>1, <1>2, <1>3, <1>4, <1>5, <1>6

LEMMA TaskWakesStep ==
  ASSUME BInv, NEW t \in Tasks, TaskWakes(t)
  PROVE  BInv'
  <1> USE SlotFacts DEF BInv
  <1>0. /\ cpu.of = t /\ cpu.at = "spin" /\ cpu \in Contexts
        /\ cpu' \in Contexts /\ cpu'.of = t
        /\ cpu'.at = "app"
    BY Moves, SMT DEF VarTypes, At, TaskWakes, MainAt, Building, Handing, TaskAt
  <1>1. VarTypes'
    <2>1. BootTypeOK'
      BY <1>0, ValueFacts, SMT DEF VarTypes, BootTypeOK, tcbVars, schedVars, TaskWakes
    <2> QED
      BY <1>0, <2>1, SMT DEF VarTypes, tcbVars, schedVars, TaskWakes
  <1>2. MainHasDone'
    BY <1>0, SMT DEF MainHasDone, Handing, tcbVars, schedVars, TaskWakes
  <1>3. TaskIsCurrent'
    BY <1>0, SMT DEF TaskIsCurrent, TaskAt, tcbVars, schedVars, TaskWakes
  <1>4. FramesOwned'
    BY <1>0, SMT DEF FramesOwned, Registered, tcbVars, schedVars, TaskWakes
  <1>5. MainUndisturbed'
    BY <1>0, SMT DEF MainUndisturbed, Handing, tcbVars, schedVars, TaskWakes
  <1>6. NobodyLeftOut'
    BY <1>0, SMT DEF NobodyLeftOut, Registered, tcbVars, schedVars, TaskWakes
  <1> QED
    BY <1>1, <1>2, <1>3, <1>4, <1>5, <1>6


(* task_sleep() changes nothing of all this.                               *)
LEMMA TaskSleepsStep ==
  ASSUME BInv, NEW t \in Tasks, TaskSleeps(t)
  PROVE  BInv'
  <1> USE SlotFacts DEF BInv
  <1>1. PICK ticks \in SleepTicks : task_sleep(ticks)
    BY DEF TaskSleeps
  <1>2. /\ cpu.of = t /\ current_tcb = t /\ cpu' \in Contexts
        /\ cpu'.of = t /\ cpu'.at = "spin"
        /\ UNCHANGED <<saved, timer_on, task_count, stored, started, disturbed>>
    <2>1. cpu.of = t /\ current_tcb = t /\ cpu \in Contexts /\ GoesTo("spin", 0)
          /\ UNCHANGED <<saved, timer_on, task_count, stored, started, disturbed>>
      BY DEF VarTypes, At, TaskIsCurrent, TaskSleeps
    <2>2. "spin" \in MainAt \cup TaskAt /\ 0 \in Int
      BY DEF TaskAt
    <2>3. cpu' \in Contexts /\ cpu'.of = cpu.of /\ cpu'.at = "spin"
      BY <2>1, <2>2, Moves
    <2> QED
      BY <2>1, <2>3
  <1>3. /\ state' = [state EXCEPT ![current_tcb] = "SLEEPING"]
        /\ wake_tick' = [wake_tick EXCEPT ![current_tcb] = Wrap(g_tick_count + ticks)]
        /\ UNCHANGED <<priority, canary, g_tick_count, current_tcb, current_index, halted>>
    BY <1>1 DEF task_sleep, SleepUntil
  <1>4. Wrap(g_tick_count + ticks) \in 0..(TickMod - 1)
    BY TickAssumption, StartupAssumption, SMT DEF Wrap, VarTypes, BootTypeOK
  <1>5. VarTypes'
    <2>1. BootTypeOK'
      BY <1>2, <1>3, ValueFacts, SMT DEF VarTypes, BootTypeOK
    <2> QED
      BY <1>2, <1>3, <1>4, <2>1, SMT DEF VarTypes
  <1>6. MainHasDone' /\ TaskIsCurrent' /\ MainUndisturbed'
    BY <1>2, <1>3 DEF MainHasDone, TaskIsCurrent, MainUndisturbed, TaskAt
  <1>7. FramesOwned' /\ NobodyLeftOut'
    BY <1>2, <1>3, Zenon DEF FramesOwned, NobodyLeftOut, Registered
  <1> QED
    BY <1>5, <1>6, <1>7

(* start_first_task() finds the first task's context in its frame, or in   *)
(* its place its own.                                                      *)
LEMMA HandOverStep ==
  ASSUME BInv, start_first_task
  PROVE  BInv'
  <1> USE SlotFacts DEF BInv
  <1>1. /\ cpu' = saved[0] /\ current_tcb = 0
        /\ stored = Tasks /\ task_count = NumTasks
        /\ \A t \in Tasks : canary[t]
        /\ UNCHANGED <<tcbVars, schedVars, saved, timer_on, task_count, stored, started, disturbed>>
    BY SMT DEF start_first_task, At, MainHasDone, MainAt, TaskAt, Building, Adding, Starting,
       Handing, tcbVars, schedVars
  <1> USE DEF tcbVars, schedVars
  <1>2. \/ cpu'.of = 0 /\ cpu'.at \in TaskAt
        \/ disturbed /\ cpu'.of = Main /\ cpu'.at \in Handing
    BY <1>1 DEF FramesOwned
  <1>3. VarTypes'
    <2>1. cpu' \in Contexts
      BY <1>1 DEF VarTypes
    <2>2. BootTypeOK'
      BY <1>1, <2>1, SMT DEF VarTypes, BootTypeOK, Contexts
    <2> QED
      BY <1>1, <2>1, <2>2 DEF VarTypes
  <1>4. MainHasDone'
    BY <1>1, <1>2, SMT DEF MainHasDone, MainAt, Building, Adding, Handing
  <1>5. TaskIsCurrent' /\ MainUndisturbed'
    BY <1>1, <1>2, SMT DEF TaskIsCurrent, MainUndisturbed
  <1>6. Registered' = Tasks
    BY <1>1, SMT DEF Registered
  <1>7. FramesOwned' /\ NobodyLeftOut'
    BY <1>1, <1>6, Zenon DEF FramesOwned, NobodyLeftOut
  <1> QED
    BY <1>3, <1>4, <1>5, <1>7

-----------------------------------------------------------------------------
(* What schedule_next() makes of the states it sees.                       *)
Seen == InQueue(IF current_tcb = NoTask THEN state ELSE Yield(state))
Woken == WakeDue(Seen, Wrap(g_tick_count + 1))
Found == Remembered(Woken)

LEMMA WokenFacts ==
  ASSUME BInv
  PROVE  /\ Runnable(Found) \subseteq Registered
         /\ \A t \in Registered : Woken[t] \in TaskState
         /\ current_tcb = NoTask /\ Runnable(Found) = {} => Registered = {}
  <1> USE SlotFacts DEF BInv
  <1>1. \A t \in Tasks : Yield(state)[t] \in TaskState /\ state[t] \in TaskState
    BY ValueFacts, SMT DEF VarTypes, BootTypeOK, Yield
  <1>2. \A t \in Tasks : /\ t \notin Registered => Seen[t] = "NULL"
                         /\ t \in Registered => Seen[t] \in TaskState
    BY <1>1 DEF Seen, InQueue
  <1>3. \A t \in Tasks : Woken[t] = Seen[t] \/ (Woken[t] = "READY" /\ Seen[t] = "SLEEPING")
    BY DEF Woken, WakeDue
  <1>4. Registered \subseteq Tasks
    BY DEF Registered, VarTypes, BootTypeOK
  <1>5. \A t \in Tasks : t \notin Registered => Woken[t] = "NULL"
    BY <1>2, <1>3
  <1>6. Runnable(Found) \subseteq Registered
    BY <1>5 DEF Runnable, Found, Remembered
  <1>7. \A t \in Registered : Woken[t] \in TaskState
    BY <1>2, <1>3, <1>4, ValueFacts
  <1>8. ASSUME current_tcb = NoTask, NEW t \in Registered
        PROVE  Woken[t] = "READY"
    <2>1. cpu.of = Main /\ ~disturbed /\ cpu.at # "restore"
      BY <1>8, SMT DEF MainUndisturbed, MainHasDone, Handing
    <2>2. state[t] = "READY"
      BY <1>4, <2>1 DEF MainUndisturbed
    <2>3. Seen[t] = "READY"
      BY <1>4, <1>8, <2>2 DEF Seen, InQueue
    <2> QED
      BY <1>3, <1>4, <2>3
  <1>9. ASSUME current_tcb = NoTask, Registered # {}
        PROVE  0 \in Runnable(Found)
    <2>1. cpu.of = Main /\ ~disturbed /\ current_index = 0
      BY <1>9 DEF MainUndisturbed
    <2>2. 0 \in Registered
      BY <1>9, <2>1, SMT
         DEF Registered, MainHasDone, MainAt, Building, Adding, Starting, Handing
    <2>3. \A e \in Tasks : ~(ScanPos(0) < ScanPos(e))
      BY <2>1, SMT DEF ScanPos
    <2>4. Found[0] = Woken[0]
      BY <2>3 DEF Found, Remembered, EmptySlots
    <2> QED
      BY <1>8, <1>9, <2>2, <2>4 DEF Runnable
  <1> QED
    BY <1>4, <1>6, <1>7, <1>9

(* current_tcb leads to no slot that is still empty.                       *)
LEMMA CurrentRegistered ==
  ASSUME BInv, current_tcb # NoTask
  PROVE  current_tcb \in Registered
  <1> USE SlotFacts DEF BInv
  <1>1. current_tcb \in Tasks
    BY DEF VarTypes, BootTypeOK
  <1>2. CASE disturbed
    BY <1>2 DEF NobodyLeftOut
  <1>3. CASE ~disturbed /\ cpu.of = Main
    <2>1. stored = Tasks /\ task_count = NumTasks
      BY <1>3 DEF MainHasDone
    <2> QED
      BY <1>1, <2>1, SMT DEF Registered
  <1>4. CASE ~disturbed /\ cpu.of # Main
    BY <1>1, <1>4 DEF NobodyLeftOut
  <1> QED
    BY <1>2, <1>3, <1>4

(* A tick, with the task it leaves in current_tcb.                         *)
LEMMA TickStep ==
  ASSUME BInv, TimerIRQ
  PROVE  BInv'
  <1> USE SlotFacts DEF BInv
  <1>1. PICK next \in Tasks \cup {NoTask} :
          /\ Dispatched(Found, next)
          /\ state' = [t \in Tasks |->
                         IF t = next THEN "RUNNING"
                         ELSE IF t \in Registered THEN Woken[t] ELSE state[t]]
          /\ current_index' = IF Runnable(Found) = {} THEN current_index ELSE next
          /\ current_tcb' = next
          /\ saved' = [saved EXCEPT ![current_tcb] = cpu]
          /\ cpu' = saved'[next]
    BY DEF TimerIRQ, Seen, Woken, Found, Saved
  <1>2. /\ g_tick_count' = Wrap(g_tick_count + 1)
        /\ disturbed' = (disturbed \/ Disturbing)
        /\ UNCHANGED <<priority, wake_tick, canary, halted, timer_on, task_count, stored, started>>
        /\ Registered' = Registered
    BY DEF TimerIRQ, Registered
  <1>3. \/ next = NoTask /\ current_tcb = NoTask /\ Runnable(Found) = {}
        \/ next \in Tasks /\ next \in Registered
        \/ next \in Tasks /\ next = current_tcb /\ Runnable(Found) = {}
    <2>1. Runnable(Found) = {} => next = current_tcb
      BY <1>1 DEF Dispatched
    <2>2. Runnable(Found) # {} => next \in Runnable(Found)
      BY <1>1 DEF Dispatched, Selected
    <2>3. Registered \subseteq Tasks
      BY DEF Registered, VarTypes, BootTypeOK
    <2> QED
      BY <2>1, <2>2, <2>3, WokenFacts
  <1>4. saved' \in [Tasks \cup {NoTask} -> Contexts] /\ cpu' \in Contexts
    <2>1. saved \in [Tasks \cup {NoTask} -> Contexts] /\ cpu \in Contexts
      BY DEF VarTypes
    <2>2. saved' = [saved EXCEPT ![current_tcb] = cpu] /\ cpu' = saved'[next]
      BY <1>1
    <2>3. saved' \in [Tasks \cup {NoTask} -> Contexts]
      BY <2>1, <2>2
    <2> QED
      BY <2>2, <2>3
  <1>5. VarTypes'
    <2>1. state' \in [Tasks -> TaskState]
      BY <1>1, WokenFacts, ValueFacts DEF VarTypes, BootTypeOK
    <2>2. g_tick_count' \in 0..(TickMod - 1)
      BY <1>2, TickAssumption, SMT DEF Wrap, VarTypes, BootTypeOK
    <2>3. current_index' \in Tasks /\ current_tcb' \in Tasks \cup {NoTask}
      BY <1>1, <1>3, WokenFacts DEF VarTypes, BootTypeOK
    <2>4. cpu'.of \in Tasks \cup {Main} /\ task_count' \in 0..NumTasks /\ stored' \subseteq Tasks
      BY <1>2, <1>4 DEF Contexts, VarTypes, BootTypeOK
    <2>5. disturbed' \in BOOLEAN
      BY <1>2 DEF VarTypes, Disturbing
    <2> QED
      BY <1>2, <1>4, <2>1, <2>2, <2>3, <2>4, <2>5, Zenon DEF VarTypes, BootTypeOK
  <1>6. FramesOwned'
    <2>1. \A t \in Tasks : Registered # {} \/ current_tcb # NoTask => canary[t]
      BY DEF FramesOwned
    <2>2. Registered' # {} \/ current_tcb' # NoTask => \A t \in Tasks : canary'[t]
      BY <1>1, <1>2, <1>3, <2>1
    <2>3. ASSUME NEW t \in Tasks, canary'[t]
          PROVE  \/ saved'[t].of = t /\ saved'[t].at \in TaskAt
                 \/ /\ disturbed' /\ t = 0
                    /\ saved'[t].of = Main /\ saved'[t].at \in Handing
                    /\ stored' = Tasks /\ task_count' = NumTasks
      <3>1. CASE t # current_tcb
        <4>1. saved'[t] = saved[t] /\ canary[t]
          BY <1>1, <1>2, <2>3, <3>1 DEF VarTypes
        <4> QED
          BY <1>2, <4>1 DEF FramesOwned
      <3>2. CASE t = current_tcb
        <4>1. saved'[t] = cpu
          BY <1>1, <3>2 DEF VarTypes
        <4>2. CASE cpu.of # Main
          BY <3>2, <4>1, <4>2 DEF TaskIsCurrent
        <4>3. CASE cpu.of = Main
          <5>1. cpu.at \in Handing /\ t = 0
            BY <3>2, <4>3 DEF MainHasDone
          <5>2. stored = Tasks /\ task_count = NumTasks
            BY <4>3, <5>1 DEF MainHasDone
          <5>3. disturbed'
            BY <1>2, <3>2, <4>3 DEF Disturbing
          <5> QED
            BY <1>2, <4>1, <4>3, <5>1, <5>2, <5>3
        <4> QED
          BY <4>2, <4>3
      <3> QED
        BY <3>1, <3>2
    <2> QED
      BY <2>2, <2>3, Zenon DEF FramesOwned
  <1>7. CASE next = NoTask
    <2>1. current_tcb = NoTask /\ Registered = {}
      BY <1>3, <1>7, WokenFacts
    <2>2. cpu' = cpu /\ current_tcb' = current_tcb /\ current_index' = current_index
      BY <1>1, <1>3, <1>7, <2>1 DEF VarTypes
    <2>3. state' = state
      BY <1>1, <1>7, <2>1 DEF VarTypes, BootTypeOK
    <2>4. cpu.of = Main /\ ~disturbed /\ ~disturbed'
      <3>1. ~Disturbing
        BY <2>1 DEF Disturbing
      <3> QED
        BY <1>2, <2>1, <3>1 DEF MainUndisturbed
    <2>5. MainHasDone'
      BY <1>2, <2>2, Zenon DEF MainHasDone
    <2>6. \A t \in Tasks : saved'[t] = saved[t]
      BY <1>1, <2>1 DEF VarTypes
    <2>7. MainUndisturbed'
      <3>1. UNCHANGED <<canary, priority, wake_tick>>
        BY <1>2
      <3> QED
        BY <2>2, <2>3, <2>4, <2>6, <3>1 DEF MainUndisturbed
    <2> QED
      BY <1>5, <1>6, <2>2, <2>4, <2>5, <2>7 DEF TaskIsCurrent, NobodyLeftOut
  <1>8. CASE next \in Tasks
    <2>1. canary'[next]
      BY <1>2, <1>3, <1>8 DEF FramesOwned
    <2>2. \/ cpu'.of = next /\ cpu'.at \in TaskAt
          \/ /\ disturbed' /\ next = 0
             /\ cpu'.of = Main /\ cpu'.at \in Handing
             /\ stored' = Tasks /\ task_count' = NumTasks
      BY <1>1, <1>6, <1>8, <2>1 DEF FramesOwned
    <2>3. \A t \in Tasks : canary'[t]
      BY <1>1, <1>6, <1>8 DEF FramesOwned
    <2>4. MainHasDone'
      BY <1>1, <1>8, <2>2, <2>3, SMT
         DEF MainHasDone, MainAt, Building, Adding, Starting, Handing
    <2>5. TaskIsCurrent' /\ MainUndisturbed'
      BY <1>1, <1>8, <2>2 DEF TaskIsCurrent, MainUndisturbed
    <2>6. NobodyLeftOut'
      <3>1. current_tcb' \in Registered'
        BY <1>1, <1>2, <1>3, <1>8, CurrentRegistered
      <3>2. ASSUME ~disturbed', cpu'.of # Main
            PROVE  Registered' = Tasks
        <4>1. ~disturbed /\ ~Disturbing
          BY <1>2, <3>2
        <4>2. CASE cpu.of # Main
          BY <1>2, <4>1, <4>2 DEF NobodyLeftOut
        <4>3. CASE cpu.of = Main
          <5>1. current_tcb = NoTask /\ Registered \in {{}, Tasks}
            BY <4>1, <4>3 DEF Disturbing
          <5>2. next \in Registered
            BY <1>3, <1>8, <5>1
          <5> QED
            BY <1>2, <5>1, <5>2
        <4> QED
          BY <4>2, <4>3
      <3> QED
        BY <3>1, <3>2 DEF NobodyLeftOut
    <2> QED
      BY <1>5, <1>6, <2>4, <2>5, <2>6
  <1> QED
    BY <1>7, <1>8

LEMMA StepBInv == BInv /\ [BootNext]_bootVars => BInv'
  <1> SUFFICES ASSUME BInv, [BootNext]_bootVars
               PROVE  BInv'
    OBVIOUS
  <1>1. CASE MainStep
    <2>1. ASSUME NEW t \in Tasks, task_create(t) \/ scheduler_add_task(t)
          PROVE  BInv'
      BY <2>1, CreateStep, CountsFirstStep, ThenStoresStep, StoresFirstStep, ThenCountsStep
         DEF scheduler_add_task
    <2>2. CASE timer_init \/ scheduler_init \/ scheduler_start
      BY <2>2, TimerInitStep, SchedulerInitStep, StartsAtZeroStep, StartsFirstTaskStep,
         MarksRunningStep, HandOverStep DEF scheduler_start
    <2> QED
      BY <1>1, <2>1, <2>2 DEF MainStep
  <1>2. ASSUME NEW t \in Tasks, TaskStarts(t) \/ TaskSleeps(t) \/ TaskWakes(t)
        PROVE  BInv'
    BY <1>2, TaskStartsStep, TaskSleepsStep, TaskWakesStep
  <1>3. CASE TimerIRQ
    BY <1>3, TickStep
  <1>4. CASE UNCHANGED bootVars
    BY <1>4 DEF bootVars, tcbVars, schedVars, startupVars, BInv, VarTypes, BootTypeOK,
       MainHasDone,
       TaskIsCurrent, FramesOwned, MainUndisturbed, NobodyLeftOut, Registered
  <1> QED
    BY <1>1, <1>2, <1>3, <1>4 DEF BootNext

-----------------------------------------------------------------------------
(* The counts and indices stay in range, with a tick between any two       *)
(* statements of kernel_main() (kernel.c:132-154, scheduler.c:22-108).     *)
THEOREM BootTypeCorrect == BootSpec => []BootTypeOK
  <1>1. BInv => BootTypeOK
    BY DEF BInv, VarTypes
  <1> QED
    BY <1>1, InitBInv, StepBInv, PTL DEF BootSpec

(* Every way to lose a task goes through a tick at a bad moment            *)
(* (kernel.c:136-152, scheduler.c:32-38, irq_handler.s:50-62).             *)
THEOREM NobodyLeftOutHolds == BootSpec => []NobodyLeftOut
  <1>1. BInv => NobodyLeftOut
    BY DEF BInv
  <1> QED
    BY <1>1, InitBInv, StepBInv, PTL DEF BootSpec

(* No tick gives a task a frame that is not its own, but for the first     *)
(* one's, and that only from the end of kernel_main() (task.c:4-20,        *)
(* scheduler.c:102-108, irq_handler.s:50-62).                              *)
THEOREM FramesIntactHolds == BootSpec => []FramesIntact
  <1>1. ASSUME BInv
        PROVE  FramesIntact
    <2>1. stored = Tasks /\ task_count = NumTasks => Registered = Tasks
      BY SlotFacts, SMT DEF Registered
    <2> QED
      BY <1>1, <2>1, SlotFacts DEF BInv, FramesOwned, FramesIntact, Handing
  <1> QED
    BY <1>1, InitBInv, StepBInv, PTL DEF BootSpec

(* The running kernel of Kernel.tla begins in the state start_first_task() *)
(* leaves (scheduler.c:102-108, task.c:18-27).                             *)
THEOREM HandsOverInitialKernelHolds == BootSpec => HandsOverInitialKernel
  <1>1. ASSUME BInv, start_first_task, ~disturbed
        PROVE  TaskInit /\ SchedulerInit /\ cpu' = Entry(0)
    <2> USE SlotFacts, <1>1 DEF BInv
    <2>1. /\ cpu.of = Main /\ cpu.at = "restore" /\ cpu' = saved[current_tcb]
      BY DEF start_first_task, At
    <2>2. current_tcb = 0 /\ \A t \in Tasks : canary[t]
      BY <2>1, SMT DEF MainHasDone, Building, Handing
    <2>3. /\ current_index = 0
          /\ \A t \in Tasks :
               /\ state[t] = IF t = 0 THEN "RUNNING" ELSE "READY"
               /\ saved[t] = Entry(t) /\ priority[t] = BasePriority[t] /\ wake_tick[t] = 0
      BY <2>1, <2>2 DEF MainUndisturbed, Handing
    <2>4. TaskInit
      <3>1. state = [t \in Tasks |-> IF t = 0 THEN "RUNNING" ELSE "READY"]
        BY <2>3 DEF VarTypes, BootTypeOK
      <3>2. priority = BasePriority
        BY <2>3, ValueFacts DEF VarTypes
      <3>3. wake_tick = [t \in Tasks |-> 0]
        BY <2>3 DEF VarTypes
      <3>4. canary = [t \in Tasks |-> TRUE]
        BY <2>2 DEF VarTypes
      <3> QED
        BY <3>1, <3>2, <3>3, <3>4 DEF TaskInit
    <2>5. SchedulerInit
      BY <2>2, <2>3 DEF SchedulerInit, VarTypes, BootTypeOK
    <2> QED
      BY <2>1, <2>2, <2>3, <2>4, <2>5
  <1>2. BInv /\ [BootNext]_bootVars
          => [start_first_task /\ ~disturbed => TaskInit /\ SchedulerInit /\ cpu' = Entry(0)]_bootVars
    BY <1>1
  <1> QED
    BY <1>2, InitBInv, StepBInv, PTL DEF BootSpec, HandsOverInitialKernel

=============================================================================
