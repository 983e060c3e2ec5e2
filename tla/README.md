# Nova-RTOS in TLA+

Nova-RTOS is a small preemptive kernel for one ARM926 core: a priority
scheduler driven by a 10 ms timer interrupt, mutexes with priority inheritance,
blocking sleeps, a stack canary, and a demo application of five tasks. Beside it lies
a crypto library, SHA-256 and micro-ecc, with a test program for the host. This
directory holds TLA+ specifications of it, TLC configurations that check them on
small instances, and TLAPS proofs of the main results for every value of the
constants. `PROJECT.json` lists the runs, what each definition models line by
line, the hazards and the theorems. Source positions below are relative to the
repository root.

## 1. Inventory

| Component | State | Operations | Correct when |
|---|---|---|---|
| Task control blocks (`kernel/task.*`) | `state`, `priority`, `base_priority`, `wake_tick`, canary word | `task_create`, `task_check_stack_overflow` | a new frame can be resumed; an overflow is noticed before another task runs |
| Scheduler (`kernel/scheduler.*`) | `ready_queue`, `task_count`, `current_tcb`, `current_index`, `g_tick_count` | `scheduler_init/add_task/start`, `schedule_next`, `task_sleep` | most urgent runnable task runs, equals share, sleepers wake in time |
| Mutex (`kernel/mutex.*`) | `locked`, `owner`, `waiters[]`, `waiter_count` | `mutex_init/lock/unlock` | exclusion, no lost wake-up, bounded priority inversion |
| Critical sections (`kernel/critical.h`) | CPSR I bit | `irq_disable_save`, `irq_restore` | the stretch between them is atomic |
| Context switch (`boot/irq_handler.s`) | banked `sp`, `lr`, `spsr`, the frames | `IRQ_Handler`, `context_restore`, `start_first_task` | a resumed task finds its registers |
| Startup (`boot/boot.s`, `kernel_main`) | stacks, the registered tasks | `Reset_Handler`, `kernel_main` | all five tasks run |
| Demo (`kernel/kernel.c`) | `shared_mutex`, `sensor_raw_value`, `sensor_fault`, locals | five task functions | HIGH is not starved; FUSION works on measured, consistent readings |
| UART, timer (`drivers/`) | device registers | `uart_*`, `timer_*` | output is not interleaved; periodic ticks |
| Kalman filter (`kernel/kalman.*`) | `x`, `p`, `q`, `r` | `kalman_init/update` | gain and covariance stay in range |
| SHA-256 (`crypto/sha256.*`) | `SHA256_CTX`: `data`, `datalen`, `bitlen`, `state` | `sha256_init/update/final` | the blocks are those of the padded message, however it is cut into calls |
| micro-ecc (`crypto/uECC*`) | none between calls but `g_rng_function`; integers of several words | keys, shared secret, three ways to sign, verify, compress | key pairs are key pairs, signatures satisfy their equation, only valid ones are accepted, retries end |
| Host crypto test (`test/host/crypto_test.c`) | a key pair, a hash, a signature | hash, make key, sign, verify, tamper | uses the two libraries in that order |

How they interact: the tasks call `mutex_*` and `task_sleep` directly; these and
`schedule_next()` communicate only through the tcbs (`state`, `priority`,
`wake_tick`) and the globals `current_tcb` and `g_tick_count`. The one
asynchronous actor is the timer interrupt, which may come at any instruction at
which the I bit is clear. SENSOR and FUSION share two variables without a lock.
The crypto library is used by one program at a time: the digest of `sha256.c` is what
`uECC_sign()` signs, and micro-ecc calls back the random number generator it was given,
which may refuse or give a number that cannot be used.

What makes the code hard to test: a task changes its own state and then spins
on it, so between "I am BLOCKED" and losing the CPU it runs on; the tick that
finds nothing runnable resumes a task that sleeps; unlock wakes every waiter and
promises the lock to none; ticks wrap; boosts are given by one task and taken
back by another; equal priorities are served from one shared scan position. In the
crypto library the hard cases are rare values: a message that ends at the border of a
block, a word that an addition leaves unchanged, a scalar for which the ladder meets the
point at infinity, a nonce that must be drawn again.

## 2. Modules

| Module | Models |
|---|---|
| `Task` | the tcb fields the kernel reads; task `t` is slot `t` of `ready_queue` |
| `Scheduler` | `schedule_next()` as one action with its phases as operators (`Yield`, `WakeDue`, `Selected`, `Dispatched`), `task_sleep()`'s critical section, the halt |
| `Mutex` | the critical sections of `mutex_lock()` (`Acquire`, `Block`) and `mutex_unlock()` |
| `Kernel` | composes them: each task's program position (`pc`), what it waits for (`want`) and holds (`holds`); the timer; the properties |
| `LockService` | abstract specification: ask, be granted while nobody holds, give back |
| `Demo` | the five task functions of `kernel.c` as programs over `Kernel`'s actions |
| `Startup` | `kernel_main()` statement by statement with the timer already running, ending where `Kernel` begins |
| `ContextSwitch` | `IRQ_Handler`, `context_restore`, `task_create()`'s frame and `critical.h` on registers and memory |
| `Sha256` | `sha256.c` up to the block transformation: buffering, counting, padding |
| `Vli` | the integer routines of `uECC.c`, word by word with their carries and borrows |
| `Ecc` | the curve operations: co-Z ladder, regularised scalars, Shamir's trick, square root, hash to integer |
| `CurveGroup` | reference, not from the code: the affine group law and textbook ECDSA |
| `Ecdsa` | the public functions of micro-ecc; each call of the random number generator is a step |
| `CryptoTest` | composes them: a program that has a key, hashes, signs, verifies and tampers |
| `MCKernel`, `MCDemo`, `MCStartup`, `MCContextSwitch`, `MCCrypto` | values for the constants |
| `KernelProofs`, `DemoProofs`, `StartupProofs`, `ContextProofs` | theorems about `Kernel`, `Demo`, `Startup` and `ContextSwitch` |
| `VliProofs`, `EccProofs` | theorems about the operators of `Vli` and `Ecc` |
| `CryptoProofs` | theorems about `Sha256`, `Ecdsa` and `CryptoTest` |
| `Powers`, `Recursion` | not from the code: powers of two; induction and recursion for the proofs |

`Task <- Scheduler <- Mutex <- Kernel <- Demo` by EXTENDS; `Kernel` instantiates
`LockService` with `asked <- want`, `held <- holds`. `Startup` also extends
`Scheduler`: it uses its `Yield`, `WakeDue`, `Dispatched` and `task_sleep` with the
registered part of the queue. `ContextSwitch` stands alone: it justifies what all the others
take for granted, that a switch leaves each program where it was. `Vli <- Ecc <- Ecdsa`, and
`CryptoTest` extends `Sha256` and `Ecdsa`. Each proof module extends its own module;
`DemoProofs` also `KernelProofs`, because the demo is one of the programs `Kernel` speaks of; and
`CryptoProofs` also `EccProofs`, and that `VliProofs`, because each layer is exact if the one below is.

Loops of the C code are recursive functions (`f[i \in 0..n] == ...`) throughout: `Scan`, the turns of
`vli_add()`, the ladder. TLC evaluates them and the provers can reason about them.

**Granularity.** There is one CPU, so only the program of `current_tcb` takes
steps. Code between `irq_disable_save()` and `irq_restore()` is one step, and so is
`IRQ_Handler`. The two waiting loops (`mutex.c:49`, `scheduler.c:117`) are steps
of their own, enabled once the state they re-read has changed, because a task
stays current for a while after blocking itself. The build has no
optimisation flag, so these loops do re-read memory. Application code that calls
no kernel function is a stuttering step of `Kernel`: any number of ticks may pass.

**Correspondence worth knowing.**
- `waiters[m]` is a set: `mutex_lock()` adds an entry once, and unlock treats all
  entries alike. The length of the array is `MUTEX_MAX_WAITERS`, and a task that
  finds it full blocks unrecorded, as in the code.
- `Selected(st, t)` says what the selection loop finds; `Scan` is the loop itself,
  iteration by iteration, and the invariant `LoopSelects` compares the two in every
  reachable state.
- The canary is a Boolean: the word `stack_base[0]` still has its value or not.
- `TickMod` stands for 2^32. `wake_tick` and `g_tick_count` wrap; `owed` is a history
  variable, the ticks still to come of the sleep a task asked for, which no action reads.
- `MaxHeld` is how many mutexes a task holds at once. `kernel.c` uses one, and one task
  at a time; the code does not forbid more.
- `CallLock` requires that the caller does not hold the mutex: locking twice blocks
  the caller on itself, and no caller does it.
- The running kernel starts with any `g_tick_count`, because ticks may have come before
  `scheduler_start()`; `Startup` shows that an undisturbed hand-over satisfies `TaskInit`
  and `SchedulerInit`.
- In `Startup` a context is a token (whose, at which statement); `saved[t]` is the frame
  `tcb->stack_ptr` leads to and `saved[NoTask]` the one a null `current_tcb` leads to.
  `ready_queue[task_count++] = tcb` is two stores in either order, as C leaves it.
- `disturbed` is a history variable: a tick interrupted `kernel_main()` while only some
  tasks were registered, or after `current_tcb` was set. `UrgentStarts`,
  `HandsOverInitialKernel` and the first part of `NobodyLeftOut` say what holds without it; its second
  part and `FramesIntact` say what holds in spite of it; `boot_race` shows that it matters.
- A tick that finds tasks counted and none to take leaves `best` and `current_tcb` null and writes
  `TASK_RUNNING` at address 8, over a vector, which is where the state of a null tcb is read.
  `null_running` is that word. A slot that is counted and not yet written is then taken for a runnable task,
  and `Remembered` is what the loop still knows after it.
- In `ContextSwitch` one action is the code between two mode switches, run with interrupts
  off. The C functions the handler calls overwrite r0-r3, r12 and `lr_irq`. `left` is a history
  variable, the registers a task was last seen with.
- `mutex_unlock()` may be called by anybody; a caller that is not the owner changes nothing.
- `Sha256` represents `ctx->state` and the digest by the blocks transformed so far.
  `sha256_transform()` is a fixed function of the old state and a block, so equal blocks give equal
  digests, and what is left to get wrong is which blocks it is given. One call of `sha256_update()` takes
  less than 2^32 bytes (`UpdateAssumption`), because its loop counts in 32 bits.
- Field elements are integers modulo `p` in `Ecc`; inverses modulo `p` and everything modulo the
  order `n` (scalars, hashes, nonces, `r`, `s`) go through the words of `Vli`, because there the
  carries decide. The fast reductions modulo `p` are special to each standard curve and left out.
- In `Ecdsa` the generator is the environment's. It is set or not for the whole run; if it is, any
  call may fail or give any of `Draws`. The hash chain of `uECC_sign_deterministic()` gives any number,
  because its hash function is the caller's. The tampering in `verify` is that of
  `crypto_test.c`, and two variants more (`r` reduced modulo `n`, `s` negated).
- In micro-ecc as it is, the scalars 1, `n`-2 and `n`-1 make the ladder meet the point at infinity and
  are refused as private keys and nonces. `uECC_sign()` returns `r` as it is and does not look whether
  `s` is 0, so that `uECC_verify()` may refuse it. For `Q` = `G` and `Q` = -`G` there is no sum `G` + `Q`
  for the trick of `uECC_verify()`. A hash not longer than `n` is not reduced. The properties name these
  cases one by one; on the curves of the library they have negligible probability.

## 3. Runs

All runs but `crypto` check deadlock: there is always a step, the timer's at least, and a
halted system stutters in `while (1)`. The program of `crypto` ends.

| Run | Instance | Shows |
|---|---|---|
| `kernel_mutex` | 3 tasks of distinct priorities, 2 mutexes, list of 2, ticks mod 4, sleeps 0 or 2 | type, exclusion, no stale waiter, no lost wake-up, inheritance, boosts end, one RUNNING task, no unbounded inversion, refinement of `LockService` |
| `kernel_sched` | 4 tasks, 3 equal around one above, ticks mod 8, sleeps 2 or 3, 2 of them may overflow | no oversleeping, the loop selects what it should, halting before anybody else runs, early wake-ups explained, progress at the top priority |
| `demo_inheritance` | LOW, MEDIUM, HIGH, FUSION | HIGH gets the mutex though MEDIUM may hog the CPU for ever; LOW never overtakes a waiting HIGH |
| `demo_fusion` | LOW, HIGH, SENSOR, FUSION | what FUSION reads without a lock does not change under it |
| `startup` | 3 tasks registered in order of priority | unless disturbed: everybody registered, hand-over in the initial state, the most urgent task starts; disturbed or not: no empty slot is ever dispatched after a bad tick, and only the first task can lose its frame |
| `context_switch` | 2 tasks, r0-r12, 2 nested pushes or critical sections | contexts come back whole, frames stay whole, no leak on either stack, nested sections stay masked |
| `crypto` | two curves of 7 and 8 bits, 2-byte words, hash blocks of 16 bytes | no byte of a message lost, padding as in the standard, key pairs sound, secrets agree, the equation of signatures and whose point `r` is, verification accepts the valid ones only, every call returns |
| `sleep_early` | 2 tasks | **violated**: a sleeping task goes on before its `wake_tick` |
| `rr_starvation` | 2 equal tasks below one | **violated**: of two equal runnable tasks one is dispatched for ever, the other never |
| `nested_inheritance` | 3 tasks, 2 mutexes held at once | **violated**: unlocking one mutex drops the boost due to the other |
| `fusion_unmeasured` | all five tasks | **violated**: FUSION fuses the initial 0.0, which no sensor gave |
| `boot_race` | as `startup` | **violated**: a tick during registration, and the most urgent task never starts |

The five violations are disagreements between `README.md` of the repository and
the code, each quoted under `findings` in `PROJECT.json`.

**Bounds and why they are enough.**
Three tasks are an owner, a waiter and a third between, below or beside them;
with two mutexes one task can wait for each while both are held. A wait list of two
is exactly full when both others wait. Ticks modulo 4 or 8 make the counter wrap
within every run, also during a sleep; sleep 0 is there for the mutex because it
is a sleep that ends at the next tick. Scheduling takes four tasks so that three
are equal with one more urgent task registered between them: the scan then
starts before, between and after the equals. The demo's sleeps 5, 3, 8, 2, 4 (LOW,
MEDIUM, HIGH, SENSOR, FUSION) are scaled to 3, 2, 3, 2, 3, except in
`fusion_unmeasured`, which takes the real ones. They are not scaled down to 1: a task that
sleeps one tick is runnable at every tick, and no less urgent one would ever run. The sensor's period of 60 cycles with a fault
window of 20 is 4 with 2. In the demo how long a busy loop lasts is open, so the
scaled sleeps still meet every alignment of the tasks. The passing demo runs
take four of the five tasks; the fifth is left out where it shares nothing with
the property: SENSOR and FUSION take no mutex, LOW, MEDIUM and HIGH read no sensor.
FUSION stays in `demo_inheritance` as the task of HIGH's priority.
`startup` takes three tasks, so that there is a tick before, between and after
registrations, with the most urgent one last, as FUSION is. `context_switch` keeps all
thirteen registers and a stack just large enough for a frame, two pushed words and
the canary; two tasks suffice because a switch involves two, and one may be interrupted
again and again. Each task's code writes one set of register contents, all different from each other,
from the other task's and from the zeros it starts with.
`crypto` has bytes of 2 bits and words of 2 bytes, so that a coordinate takes two words and carries
pass between them. On the curve Wide (p = 251, n = 241) the order fills the words and k + n may
carry out of them. The high word of `n` is 15, the largest there is, so that adding it and a carry leaves a word
as it was and the carry must be kept. An x may lie between `n` and `p` (draw 9 as nonce), and `r` and `s` can be 0
(given nonce 44, and nonce 93 with key 79). On Narrow (p = 103, n = 109) it leaves them a bit, a hash has a bit too many, and n is
above p. The given private keys are both ends of each curve's range, what is just outside it and one
between; the hashes are such that valid signatures collide in Shamir's trick; the draws hold an acceptable number, 0, and one that is
rejected; `uECC_RNG_MAX_TRIES` is 2, a first try and a last one. Hash blocks of 16 bytes with a length of
2 keep the proportions of the padding; a message of 34 bytes in calls of 1, 13 and 16 bytes ends at
every offset of a block: below, at and above the border where the length needs a block of its own.

**Fairness.** Safety properties use `Spec` and `DemoSpec`, without any.
`WF(TimerIRQ)`: the SP804 runs in periodic mode and is never stopped. Strong
fairness of each task's step while it is current: a task that is given the CPU again
and again executes instructions, so it gets through the finite kernel code or
bounded loop it is in. MEDIUM's own code is exempt in `DemoFairSpec`: the
property is that HIGH gets the mutex even if MEDIUM never sleeps.
Nothing is assumed of a fair choice among tasks: who is current is `schedule_next()`'s doing.
That the calls of micro-ecc return needs no fairness: `CallsReturn` says that each step of a running
call makes a number smaller that cannot fall for ever, whatever the generator does.

## 4. Proofs

`KernelProofs` proves for every number of tasks up to `MAX_TASKS`, all priorities,
finite set of mutexes, wait-list length, tick modulus and set of sleeps
(assumptions `TaskAssumption`, `TickAssumption`, `MutexAssumption`,
`KernelAssumption`):

| Theorem | Further hypothesis |
|---|---|
| `TypeCorrect`, `MutualExclusionHolds`, `NoStaleWaiterHolds`, `PriorityRestoredHolds`, `OnlyCurrentRunsHolds`, `CorruptedTaskStaysCurrentHolds` | none |
| `EarlyWakeOnlyWhenIdleHolds`, `TopPriorityProgressHolds` (action properties) | none |
| `KernelImplementsLockService` (refinement) | none |
| `OwnerInheritsPriorityHolds`, `NoPriorityInversionHolds` | `MaxHeld <= 1` |
| `NoLostWakeupHolds` | `NumTasks <= MUTEX_MAX_WAITERS + 1` |
| `NoOversleepHolds` | `0 \notin SleepTicks` |

The hypotheses are needed: `nested_inheritance` refutes the second group
for `MaxHeld = 2`; a full wait list blocks a task nobody wakes; `task_sleep(0)` on
the last tick before the wrap sets a `wake_tick` that lies a whole turn ahead.

**The inductive invariant** is `IInv`. Exclusion is not inductive by itself: it needs
`HolderIsOwner` (a program is past `mutex_lock()` exactly when the mutex names it as
owner) and `LockedHasOwner` (a free mutex has no owner, so granting it cannot take it
from anybody). `WantsMutex` and `WantsAnother` type the argument of a lock call.
`StateMatchesProgram` ties a blocked or sleeping state to the loop that spins on
it: without it a task could be woken from a sleep by an unlock. `NoStaleWaiter`
needs that unlock clears the list and that a task leaves `lock`/`lockSpin` only by
being granted the mutex, when the list is empty. `PriorityRestored` follows because only an owner is
boosted and unlocking restores. `WaitersHoldNothing` (for
`MaxHeld <= 1`) says that an owner is not itself waiting, so that restoring its priority
leaves no waiter of another mutex behind. `WakeTickIsOwed` relates `wake_tick`
to the sleep asked for, modulo the wrap. `NoLostWakeup` adds a counting step
(`RoomOnWaitList`): the list names only tasks other than the owner and the caller, so with
enough entries it is never full. The refinement maps grants to grants and
everything else but calls and unlocks to stuttering; a grant needs
`HolderIsOwner` and `LockedHasOwner` to show that nobody holds the lock.

**The demo.** `DemoProofs` takes any cast of the five task functions, any priorities and sleeps.

| Theorem | Further hypothesis |
|---|---|
| `DemoRunsKernel`: `DemoSpec => Spec` | none |
| `FusionReadsConsistentlyHolds` | `FusionOutranksSensor` |
| `HighNotOvertakenHolds` | `HighOutranksLow`, `NumTasks <= MUTEX_MAX_WAITERS + 1` |

The first one brings in all of `KernelProofs`. FUSION needs no lock because neither it nor SENSOR
ever holds a mutex, so both keep their base priorities (`OnlyLockersLock`, `PriorityRestored`), and
`schedule_next()` does not pass over a runnable task for a less urgent one
(`FusionUndisturbed`). The hypothesis is what `kernel_main()` gives: 3 and 2. For the mutex the
invariant is `LockersInv`: LOW is boosted only while HIGH is blocked (`BoostedForBlocked`), so if
HIGH waits while LOW has the CPU, then HIGH is blocked or LOW has just given the mutex back and goes to
sleep (`LowGivesWay`). The wait list must have room, or HIGH would be blocked on no list and LOW
could take the mutex again and again.

**Startup.** `StartupProofs` proves `BootTypeCorrect`, `NobodyLeftOutHolds`, `FramesIntactHolds` and
`HandsOverInitialKernelHolds` for any number of tasks up to `MAX_TASKS` and any priorities, from
the assumptions of `Task`, `Scheduler` and `Startup`. The invariant is `BInv`. While
`kernel_main()` has the CPU, what it has done can be read off its statement (`MainHasDone`). Its
context can be in three places only: on the CPU, at address 0, or in the first task's frame,
and the last only after a bad moment (`FramesOwned`). Until then the kernel is as
`kernel_main()` made it (`MainUndisturbed`), which is the initial state of `Kernel`. While `current_tcb` is
null, the scan ends at slot 0, which is registered first, so a tick takes a task as soon as there is one, whatever
empty slot comes before it (`WokenFacts`); and once it is a task it stays one (`CurrentRegistered`).

**Context switch.** `ContextProofs` proves `ContextTypeCorrect`, `ResumesWhereItLeftHolds`,
`FramesHoldContextsHolds`, `IrqStackBalancedHolds` and `NestedSectionsMaskHolds` for any number
of tasks, registers, nested pushes, and stacks with room for a frame, the pushes and the canary
(`ContextAssumption`). None of them is inductive: a frame is built and taken apart in several
modes. `CInv` says at each value of `ip` which part of the interrupted context is in registers,
on the IRQ stack and on the task's own stack (`InHandler`), and that the others' frames are whole
(`OthersWhole`). `StackDepth` and `StackPointers` keep every write inside the writer's own stack, which
needs a little arithmetic of multiples of `STACK_SIZE`. `SectionsMask` is about the `cpsr`
words a task has pushed: all but the outermost are masked, so popping an inner one unmasks nothing.

**SHA-256.** `CryptoProofs` proves `ShaTypeCorrect`, `NothingLostHolds` and
`DigestOfPaddedMessageHolds` for any sizes of block and length, any message and any lengths of
`sha256_update()` calls. The first two are inductive together (`IInv`): the position of a byte in a
block follows from how many were taken. The third follows at the step of `sha256_final()`,
by cases of whether the length still fits. The weights of the length's bytes are
powers of two (`Powers`), about which `Recursion` proves what is needed: the provers know nothing
of `^`.

**The selection loop.** `LoopSelectsHolds` (in `KernelProofs`, no further hypothesis) says that the loop of
`schedule_next()`, turn by turn from `current_index + 1` with its strict comparison, ends at the
index that `Selected` describes. `Scan` is a recursive function; the proof goes by induction over
its turns: after `i` of them the best index so far is the first most urgent runnable one of
those visited.

**Loops and recursion.** A definition `f[x \in S] == e` means *some* function that satisfies its equation,
so a fact about `f` needs the existence of one. `Recursion` proves it for the kinds of recursion the model
uses, counting up (`RecursionExists` and what follows from it), up to a bound, down, and loops
that end because a natural number falls (`Loops`). Induction principles with an operator as
parameter are no use to these provers, so induction is stated of *sets*: a set of naturals that has 0,
and with `i` also `i + 1`, is `Nat` (`SetInduction`, from the well-founded
ordering of finite sets). A use names the set of those turns after which the loop's invariant holds.

**Multi-word integers.** `VliProofs` shows that the routines of `uECC.c` compute what they
are named after, for words of any width, vlis of any number of words and all inputs.

| Theorem | Says | Hypothesis |
|---|---|---|
| `AddExact`, `SubExact` | words and final carry or borrow together are the sum or difference | |
| `CmpExact` | the constant-time comparison is the order of the integers | |
| `ModAddExact` | the sum modulo `mod`, also when it carries out of the words | both below `mod` |
| `MultExact` | the accumulator `r2:r1:r0` of the column sums loses no carry | at most `Base` words |
| `NumBitsExact`, `TestBitExact` | length and single bits are those of the integer | |
| `MmodExact`, `ModMultExact` | shifting and subtracting in two buffers leaves the remainder | the top word of `mod` is not 0 |
| `ModInvExact` | binary Euclid ends with an inverse, keeping the carry of `u + mod` | `mod` odd, input coprime to it |

Each rests on the ones before it. The code detects a carry by comparing the sum with an addend
and skips the comparison when they are equal; the step lemmas of `AddExact` and `SubExact` are
about exactly that. `MultExact` has its hypothesis because the words of a column bound its sum: with far
more of them than a word can count, the third word of the accumulator would overflow. In `MmodExact`
the loop keeps `current` congruent to the product and below twice `mod_multiple`, which is the modulus times
a power of two; halving it moves a bit from its upper half to its lower one
(`HalveMultipleIsShift`). Were the top word of the modulus 0, the shift at the start could move a word
past the end of the buffer; no curve has such a modulus. `ModInvExact`
keeps `a = u * input` and `b = v * input` modulo `mod`, and that the pair is coprime; it ends because `a + b` falls.

**micro-ecc.** `CryptoProofs` proves about `Ecdsa`, for every set of curves, keys, nonces, hashes, draws and number of tries,

| Theorem | Says |
|---|---|
| `EcTypeCorrect` | `EcTypeOK` |
| `SignatureEquationHolds` | `s k = e + r d` modulo `n` for every signature returned, `s` below `n`, `k` in range |
| `KeyInRangeHolds` | whoever signs or computes a secret does so with a key in `1..n-1` |
| `KeyPairSoundHolds`, `RefusesOnlyExceptionalHolds` | `Q = d G` for every key pair, and compression keeps it; no key is refused but 1, `n`-2 and `n`-1 |
| `SecretsAgreeHolds` | both sides compute the x coordinate of one point |
| `NoncePointHolds` | `r` is the x coordinate of `k G` |
| `AcceptsOnlyValidHolds`, `AcceptsValidHolds` | verification accepts the valid signatures only, and all of them that do not collide on the way |
| `OwnSignatureValidHolds` | a signature the library returned is valid |
| `CallsReturnHolds` | every step of a running call ends it or lowers `StepsLeft`, whatever the generator does |
| `ProgramUsesEc` | `CryptoTest` implements the specification of micro-ecc, so all these hold in the program too |
| `ProgramHashes` | the three properties of SHA-256 hold for every message of the program |

on theorems about what the operations compute, compared with `CurveGroup`:

| Theorem | Says |
|---|---|
| `RegularizeExact` | adding `n` or `2n` gives a number of one fixed length that is congruent to the scalar |
| `SignatureExact` | the words of a signature satisfy the equation, with the inverse of the nonce taken behind a blinding factor |
| `LadderExact` | the ladder multiplies by the scalar, or gives the point at infinity; the latter only for 1, `n`-2, `n`-1 or a point with `x = 0` |
| `ShamirExact` | Shamir's trick gives `u1 G + u2 Q`, or a `z` of 0 |
| `VerifyExact` | `uECC_verify()` accepts only what is valid, and refuses something valid only where that `z` is 0 |
| `SignedValid` | the equation and the point of the nonce make a signature valid |
| `DecompressExact` | decompressing undoes compressing |

**Assumptions** (`Ecdsa`; TLC evaluates all four on `MCCurves` in the run `crypto`).
- `CurveAssumption`: `p`, `p + 1` and `n` fit the words of their curve, `n` is an odd prime of `num_n_bits` bits that needs
  the last of its words, `p` is below `2n`, `G` is a pair of field elements, and there are no more words than `Base`.
- `GroupAssumption`: `p` is an odd prime, `b` is not 0 modulo `p`, and the multiples of `G` below `n` are points
  of the curve that add up as their factors do modulo `n`. That is the group law with the published order of `G`: mathematics of the
  curve, in which nothing of the code occurs. Its hard part is that chord-and-tangent addition is
  associative; to prove that is polynomial algebra in many variables, out of reach of these provers.
- `RootAssumption`: `p` is 3 modulo 4. Only decompression needs it.
- `CallerAssumption`: a caller's keys and nonces are as long as the curve's, hashes are bytes, a peer's private key is in range.

secp256r1, which the host test uses, and secp192r1 satisfy them. Not covered are secp224r1 (its `p` is 1
modulo 4, and it has a square root of its own), secp256k1 (another equation, without the term -3x) and secp160r1 (its order
is a bit longer than its words). For secp224r1 with words of 1 or 4 bytes that concerns decompression
alone: `RootAssumption` is cited by one lemma about the square root only. With words of 8 bytes its
coordinates do not fill their words, and `num_bytes` is less than the model has it.

**From the words to the equation.** The equation is not inductive. The invariant `EcInv` adds `Control` (which draws a function may be waiting for,
and that nobody signs without a key), `KeyKept` (a key is in range before its public key is computed, and is not touched once it has one, so
that the equation of a signature goes on to speak of the key it was made with) and `NonceKept` (from when there is a nonce until it is done with, its words
stay in range: without it there would be no inverse).

**From the formulas to the group.** `Mul(i, c)` is the multiple of `G` by any integer. `GroupAssumption` gives its sums, and from them
follows which multiples are equal, opposite, have the same x, or lie on a chord or a tangent (`MulFacts`,
`MulNegative`, `MulDistinct`, `MulChord`, `MulTangent`). A point of the code has no denominators: it is some
multiple scaled by a `z` (`Scaled`). For each formula, a polynomial identity modulo `p`
says what it makes of scaled points (`AddScaled`, `AddCIsAdd`, `DoubleScaled`); the provers get these
only in small pieces, named product by named product (`Reckoning`).

*The ladder.* The two points of a turn are a rung: `m A` and `(m + 1) A` to a common `z` (`Rung`),
where `m` is the scalar's prefix so far. A turn leads from rung to rung (`TurnExact`) unless its two
points are opposite. Then the difference comes out as (0, 0) and the sum as a point
of `y^2 = x^3`, and there the formulas go on giving (0, 0) (`OppositePoints`, `CuspPoints`), which ends
in the point at infinity and never in a wrong point (`LastBitCusp`). Below `2n`, with a topmost bit that is set, the prefixes
that lead there are those of 1, `n`-2 and `n`-1 (`LastRungs`). The final 1/Z is computed before the last addition,
from the difference of the two points, which is the given point, scaled (`FinalZExact`).

*Shamir's trick.* `<<rx, ry, z>>` stands for a multiple of `G`, or `z` is 0 and stays 0 (`Stands`). An addition of two
points with the same x makes it 0, a doubled sum as well as a cancelled one: so collisions can
make a valid signature be refused but never an invalid one accepted.

*Square roots.* The loop of `mod_sqrt_default()` raises to `(p + 1) / 4` (`RootExact`); that this is a root of a
square is Fermat's little theorem (`Fermat`), proved by comparing the product of `1..p-1` with that of their multiples by `a`.

**The invariant of the points** is `CurveInv`, on top of `EcInv`: a public key is `Mul(d)`; while a nonce is
being blinded, its point `P` is `Mul(k)`; a secret is computed with a peer's key; and what was last returned has the property its function
promises (`Granted`). The seven properties follow from it together with `EcInv`. They are not inductive: `r` is taken from a point
computed one step earlier, and verification speaks of a key pair and a signature that other calls made.

**Only model-checked:**
- Liveness: `HighGetsMutex`; `EqualPriorityTasksShare`, which is refuted.
- The other refuted properties.

All other invariants and action properties of the passing runs are theorems.

## 5. Not modelled

- **UART** (`drivers/uart.c`): polled output to one register and the formatting of numbers. No decision
  of the kernel or of a task depends on what was printed. By reading
  alone: `uart_puts()` has the critical section the repository's README (line 140) speaks of,
  `uart_print_int()` and `uart_print_float()` have none, so a number FUSION prints can be cut by a line of
  HIGH, which has the same priority.
- **Kalman filter** (`kernel/kalman.c`): four lines of single precision arithmetic, which TLC does not
  have. Over exact rationals they would be a different computation, without the rounding in which an
  error could lie. `Demo` models which reading the filter is given, and when.
- **Parts of micro-ecc**: the fast reductions of `curve-specific.inc`, secp256k1's doubling and
  secp224r1's square root are special to moduli far beyond TLC; the HMAC chain of
  deterministic signing gives any number; the squaring routines and the little-endian layout
  are compiled only on request. Timing and side channels are not a matter of states.
- **ARM assembly of micro-ecc** (`crypto/asm_arm*.inc`): generated, with the meaning of the C routines.
- **`sha256_transform()`**: its rounds are fixed by the standard and have no state to explore;
  test vectors are the tool for them.
- **Verdicts of the host test**: on curves this small a tampered signature is now and then
  valid. `AcceptsOnlyValid` and `AcceptsValid` state what verification decides, tampered or not.
- **Timer driver**: register writes; what they configure is `TimerIRQ` and its fairness.
- **`Reset_Handler`**: only its outcome, System mode with interrupts enabled and both stacks
  set, because `start_first_task()` and the first tick depend on nothing else.
- **Build files and the linker script.** No optimisation level is given, so the waiting loops re-read
  memory although `tcb->state` is not volatile.
