-------------------------------- MODULE Mutex --------------------------------
(***************************************************************************)
(* kernel/mutex.c: the two critical sections of the priority-inheritance   *)
(* mutex, each run by the current task with interrupts disabled.           *)
(*                                                                         *)
(* waiters[m] is the set of the first waiter_count entries of m->waiters:  *)
(* an entry is never added twice and mutex_unlock() treats all of them     *)
(* alike, so their order is not kept.                                      *)
(***************************************************************************)
EXTENDS Scheduler, FiniteSets

CONSTANTS
  Mutexes,
  MUTEX_MAX_WAITERS   \* 4 in mutex.h

ASSUME MutexAssumption ==
  /\ IsFiniteSet(Mutexes)
  /\ MUTEX_MAX_WAITERS \in Nat

VARIABLES
  locked,             \* m->locked
  owner,              \* m->owner
  waiters             \* m->waiters[0 .. m->waiter_count - 1]

mutexVars == <<locked, owner, waiters>>

(* mutex_init() on every mutex.                                            *)
MutexInit ==
  /\ locked = [m \in Mutexes |-> FALSE]
  /\ owner = [m \in Mutexes |-> NoTask]
  /\ waiters = [m \in Mutexes |-> {}]

-----------------------------------------------------------------------------
(* mutex_lock(): one turn of its loop.                                     *)

Acquire(m) ==
  /\ ~locked[m]
  /\ locked' = [locked EXCEPT ![m] = TRUE]
  /\ owner' = [owner EXCEPT ![m] = current_tcb]
  /\ UNCHANGED <<waiters, state, priority>>

NoBoost(m) == priority                   \* mutant: no priority inheritance
Boost(m) ==
  IF owner[m] # NoTask /\ priority[current_tcb] > priority[owner[m]]
  THEN [priority EXCEPT ![owner[m]] = priority[current_tcb]]
  ELSE priority

Register(m) ==
  IF Cardinality(waiters[m]) < MUTEX_MAX_WAITERS
  THEN waiters[m] \cup {current_tcb} ELSE waiters[m]

Block(m) ==
  /\ locked[m]
  /\ priority' = Boost(m)
  /\ waiters' = [waiters EXCEPT ![m] = Register(m)]
  /\ state' = [state EXCEPT ![current_tcb] = "BLOCKED"]
  /\ UNCHANGED <<locked, owner>>

-----------------------------------------------------------------------------
(* mutex_unlock().                                                         *)

WakeNone(m) == state                     \* mutant: the wake-up loop is dropped
WakeOne(m) ==                            \* mutant: one waiter woken, all forgotten
  IF \E t \in waiters[m] : state[t] = "BLOCKED"
  THEN [state EXCEPT ![CHOOSE t \in waiters[m] : state[t] = "BLOCKED"] = "READY"]
  ELSE state
WakeWaiters(m) ==
  [t \in Tasks |-> IF t \in waiters[m] /\ state[t] = "BLOCKED" THEN "READY" ELSE state[t]]

KeepBoost == priority                    \* mutant: the priority is not restored
RestorePriority == [priority EXCEPT ![current_tcb] = BasePriority[current_tcb]]

KeepWaiters(m) == waiters                \* mutant: waiter_count is not reset
ClearWaiters(m) == [waiters EXCEPT ![m] = {}]

(* A caller that is not the owner changes nothing.                         *)
AnyCaller(m) == TRUE                     \* mutant: the owner is not checked
IsOwner(m) == owner[m] = current_tcb

mutex_unlock(m) ==
  IF IsOwner(m)
  THEN /\ priority' = RestorePriority
       /\ locked' = [locked EXCEPT ![m] = FALSE]
       /\ owner' = [owner EXCEPT ![m] = NoTask]
       /\ state' = WakeWaiters(m)
       /\ waiters' = ClearWaiters(m)
  ELSE UNCHANGED <<priority, locked, owner, state, waiters>>

=============================================================================
