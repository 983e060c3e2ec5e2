---------------------------- MODULE ContextSwitch ----------------------------
(***************************************************************************)
(* boot/irq_handler.s, the frame task_create() builds for it, and the      *)
(* interrupt mask of kernel/critical.h.                                    *)
(*                                                                         *)
(* The registers r0-r12 are shared by all modes; System and IRQ mode have  *)
(* an sp and an lr each, and IRQ mode has spsr.  Memory is one array of    *)
(* words: the stack of task t, then those of the next tasks, then the IRQ  *)
(* stack.  Inside the handler interrupts are off, so ip says which of its  *)
(* mode switches comes next.  Which task schedule_next() picks is left     *)
(* open.                                                                   *)
(***************************************************************************)
EXTENDS Integers, Sequences

CONSTANTS
  NumTasks,
  STACK_SIZE,     \* words of a stack
  LastReg,        \* 12: r0 .. r12
  Contents,       \* what each task's code may put into [r, lr, pc, flag]
  MaxPushed       \* bound: words task code pushes at once

Tasks == 0..(NumTasks - 1)
Regs == 0..LastReg
Frame == LastReg + 4                      \* words: CPSR, PC, r0..r12, LR

SYS == 31                                 \* 0x1F, interrupts enabled
IBit == 128
CBit == 536870912                         \* one of the flags, bit 29
Masked(psr) == (psr \div IBit) % 2 = 1
Unmask(psr) == IF Masked(psr) THEN psr - IBit ELSE psr
Mask(psr) == IF Masked(psr) THEN psr ELSE psr + IBit

ASSUME ContextAssumption ==
  /\ NumTasks \in Nat \ {0}
  /\ LastReg \in Nat /\ LastReg >= 3
  /\ MaxPushed \in Nat
  /\ STACK_SIZE \in Nat /\ STACK_SIZE >= Frame + MaxPushed + 1
  /\ \A t \in Tasks : \A c \in Contents[t] :
       c.r \in [Regs -> Int] /\ c.lr \in Int /\ c.pc \in Int /\ c.flag \in {0, CBit}

StackTop(t) == (t + 1) * STACK_SIZE
StackBase(t) == t * STACK_SIZE
IrqTop == (NumTasks + 1) * STACK_SIZE
Addresses == 0..(IrqTop - 1)
EntryPoint(t) == 4096 * (t + 1)           \* (uint32_t)task_func

VARIABLES
  mem,
  r, lr, sp,              \* r0.., and System mode's lr and sp
  pc, cpsr,               \* of the task code
  lr_irq, sp_irq, spsr,   \* IRQ mode's own
  ip,                     \* "task", or the part of the handler to run next
  current_tcb,
  stack_ptr,              \* tcb->stack_ptr
  calls,                  \* what each task's code has pushed: words or a saved cpsr
  left                    \* history: the context each task was last seen with

cpuVars == <<r, lr, sp, pc, cpsr>>
irqVars == <<lr_irq, sp_irq, spsr>>
progVars == <<calls, left>>
vars == <<mem, cpuVars, irqVars, ip, current_tcb, stack_ptr, progVars>>

-----------------------------------------------------------------------------
(* STMFD a!, {ws}: the first register goes to the lowest address.          *)
Stored(memory, a, ws) ==
  [k \in Addresses |-> IF k \in (a - Len(ws))..(a - 1)
                       THEN ws[k - (a - Len(ws)) + 1] ELSE memory[k]]

Context == [r |-> r, lr |-> lr, pc |-> pc, cpsr |-> cpsr, sp |-> sp]

(* What context_restore makes of the frame at address a.                   *)
FrameAt(a) ==
  [r |-> [i \in Regs |-> mem[a + 2 + i]], lr |-> mem[a + 3 + LastReg],
   pc |-> mem[a + 1], cpsr |-> mem[a], sp |-> a + Frame]

(* task_create() pushes LR, r12..r0, PC and CPSR, one word at a time.      *)
Initial(t) ==
  [r |-> [i \in Regs |-> 0], lr |-> 0, pc |-> EntryPoint(t), cpsr |-> SYS, sp |-> StackTop(t)]
CreatedSwapped(t) ==      \* mutant: PC and CPSR in the other order
  <<EntryPoint(t), SYS>> \o [i \in 1..(LastReg + 2) |-> 0]
Created(t) ==
  <<SYS, EntryPoint(t)>> \o [i \in 1..(LastReg + 2) |-> 0]

StackOf(a) == a \div STACK_SIZE

(* After task_create() on every task, where start_first_task branches to   *)
(* context_restore with current_tcb on the first.                          *)
Init ==
  /\ mem = [a \in Addresses |->
              IF a >= StackTop(NumTasks - 1) THEN 0
              ELSE LET t == StackOf(a)
                       k == a - (StackTop(t) - Frame)
                   IN IF k >= 0 THEN Created(t)[k + 1] ELSE 0]
  /\ stack_ptr = [t \in Tasks |-> StackTop(t) - Frame]
  /\ current_tcb = 0
  /\ r = [i \in Regs |-> 0] /\ lr = 0 /\ sp = 0 /\ pc = 0 /\ cpsr = Mask(SYS)
  /\ lr_irq = 0 /\ sp_irq = IrqTop /\ spsr = 0
  /\ ip = "restore"
  /\ calls = [t \in Tasks |-> <<>>]
  /\ left = [t \in Tasks |-> Initial(t)]

-----------------------------------------------------------------------------
(* Task code: any instruction that changes registers, a call that pushes a *)
(* word, the return that pops it, and the critical sections.               *)
Leaves == left' = [left EXCEPT ![current_tcb] = Context']

Compute ==
  /\ ip = "task"
  /\ \E c \in Contents[current_tcb] :
       r' = c.r /\ lr' = c.lr /\ pc' = c.pc /\ cpsr' = (cpsr % CBit) + c.flag
  /\ UNCHANGED <<mem, sp, irqVars, ip, current_tcb, stack_ptr, calls>>
  /\ Leaves

Pushes(kind, word) ==
  /\ ip = "task"
  /\ Len(calls[current_tcb]) < MaxPushed
  /\ mem' = Stored(mem, sp, <<word>>)
  /\ sp' = sp - 1
  /\ calls' = [calls EXCEPT ![current_tcb] = Append(@, kind)]

Pops(kind) ==
  /\ ip = "task"
  /\ calls[current_tcb] # <<>>
  /\ LET n == Len(calls[current_tcb])
     IN /\ calls[current_tcb][n] = kind
        /\ calls' = [calls EXCEPT ![current_tcb] = SubSeq(@, 1, n - 1)]
  /\ sp' = sp + 1

Call ==
  /\ Pushes("word", lr)
  /\ UNCHANGED <<r, lr, pc, cpsr, irqVars, ip, current_tcb, stack_ptr>>
  /\ Leaves
Return ==
  /\ Pops("word")
  /\ lr' = mem[sp]
  /\ UNCHANGED <<mem, r, pc, cpsr, irqVars, ip, current_tcb, stack_ptr>>
  /\ Leaves

irq_disable_save ==
  /\ Pushes("cpsr", cpsr)
  /\ cpsr' = Mask(cpsr)
  /\ UNCHANGED <<r, lr, pc, irqVars, ip, current_tcb, stack_ptr>>
  /\ Leaves
(* msr cpsr_c writes the control bits only: the flags stay.                *)
EnabledAgain(old) == Unmask(cpsr)         \* mutant: enables whatever was saved
Restored(old) == IF Masked(old) THEN Mask(cpsr) ELSE Unmask(cpsr)
irq_restore ==
  /\ Pops("cpsr")
  /\ cpsr' = Restored(mem[sp])
  /\ UNCHANGED <<mem, r, lr, pc, irqVars, ip, current_tcb, stack_ptr>>
  /\ Leaves

TaskCode == Compute \/ Call \/ Return \/ irq_disable_save \/ irq_restore

-----------------------------------------------------------------------------
(* IRQ_Handler.  The hardware has put the return address plus 4 into       *)
(* lr_irq and the interrupted cpsr into spsr.                              *)
Interrupt ==
  /\ ip = "task" /\ ~Masked(cpsr)
  /\ LET ret == (pc + 4) - 4
     IN mem' = Stored(Stored(mem, sp_irq, <<ret>>), sp_irq - 1, <<cpsr>>)
  /\ spsr' = cpsr
  /\ lr_irq' = cpsr
  /\ sp_irq' = sp_irq - 2
  /\ ip' = "save"
  /\ UNCHANGED <<cpuVars, current_tcb, stack_ptr, progVars>>

(* In System mode: r0-r12 and lr onto the task's stack.                    *)
SaveRegisters ==
  /\ ip = "save"
  /\ mem' = Stored(mem, sp, [i \in 1..(LastReg + 1) |-> r[i - 1]] \o <<lr>>)
  /\ sp' = sp - (LastReg + 2)
  /\ ip' = "fetch"
  /\ UNCHANGED <<r, lr, pc, cpsr, irqVars, current_tcb, stack_ptr, progVars>>

(* In IRQ mode: the two words come off the IRQ stack again; in System mode *)
(* they complete the frame, and sp goes into the tcb.                      *)
FetchOne == sp_irq + 1                    \* mutant: one of the words is left behind
FetchBoth == sp_irq + 2
SavedEarly == sp                          \* mutant: sp saved before the last push
SavedSp == sp - 2
SaveReturn ==
  /\ ip = "fetch"
  /\ r' = [r EXCEPT ![0] = mem[sp_irq], ![1] = mem[sp_irq + 1]]
  /\ sp_irq' = FetchBoth
  /\ mem' = Stored(mem, sp, <<mem[sp_irq], mem[sp_irq + 1]>>)
  /\ sp' = sp - 2
  /\ stack_ptr' = [stack_ptr EXCEPT ![current_tcb] = SavedSp]
  /\ ip' = "schedule"
  /\ UNCHANGED <<lr, pc, cpsr, lr_irq, spsr, current_tcb, progVars>>

(* The two C functions, on the IRQ stack: they return with sp_irq as it    *)
(* was, and with r0-r3, r12 and lr_irq overwritten.                        *)
Scratch == {0, 1, 2, 3} \cup ({12} \cap Regs)
Schedule ==
  /\ ip = "schedule"
  /\ \E t \in Tasks : current_tcb' = t
  /\ r' = [i \in Regs |-> IF i \in Scratch THEN 0 ELSE r[i]]
  /\ lr_irq' = 0
  /\ ip' = "restore"
  /\ UNCHANGED <<mem, lr, sp, pc, cpsr, sp_irq, spsr, stack_ptr, progVars>>

(* context_restore: sp from the tcb, then CPSR and PC into IRQ mode's own  *)
(* registers.                                                              *)
RestoreReturn ==
  /\ ip = "restore"
  /\ LET a == stack_ptr[current_tcb]
     IN /\ r' = [r EXCEPT ![0] = mem[a], ![1] = mem[a + 1]]
        /\ spsr' = mem[a]
        /\ lr_irq' = mem[a + 1]
        /\ sp' = a + 2
  /\ ip' = "resume"
  /\ UNCHANGED <<mem, lr, pc, cpsr, sp_irq, current_tcb, stack_ptr, progVars>>

(* r0-r12 and lr off the task's stack, and MOVS pc, lr.                    *)
PoppedOneMore == LastReg + 3              \* mutant: one register too many
Popped == LastReg + 2
Resume ==
  /\ ip = "resume"
  /\ r' = [i \in Regs |-> mem[sp + i]]
  /\ lr' = mem[sp + LastReg + 1]
  /\ sp' = sp + Popped
  /\ pc' = lr_irq
  /\ cpsr' = spsr
  /\ ip' = "task"
  /\ UNCHANGED <<mem, irqVars, current_tcb, stack_ptr, progVars>>

Handler == SaveRegisters \/ SaveReturn \/ Schedule \/ RestoreReturn \/ Resume

Next == TaskCode \/ Interrupt \/ Handler

Spec == Init /\ [][Next]_vars

-----------------------------------------------------------------------------
(* Type invariant.  Each stack pointer stays inside its own stack, above   *)
(* the canary word (irq_handler.s:34-77, task.c:4-18).                     *)
TypeOK ==
  /\ mem \in [Addresses -> Int]
  /\ r \in [Regs -> Int]
  /\ lr \in Int /\ pc \in Int /\ cpsr \in Int
  /\ sp_irq \in (IrqTop - 2)..IrqTop
  /\ ip \in {"task", "save", "fetch", "schedule", "restore", "resume"}
  /\ current_tcb \in Tasks
  /\ ip = "task" => sp \in (StackTop(current_tcb) - MaxPushed)..StackTop(current_tcb)
  /\ \A t \in Tasks : stack_ptr[t] \in (StackBase(t) + 1)..(StackTop(t) - Frame)

(* A task that has the CPU finds every register, its flags, its interrupt  *)
(* mask and its stack pointer as it left them, however often it was        *)
(* interrupted; the first time, as task_create() meant them                *)
(* (irq_handler.s:34-77, task.c:4-20).                                     *)
ResumesWhereItLeft == ip = "task" => Context = left[current_tcb]

(* The frame of each task that does not have the CPU stays whole while the *)
(* others run (irq_handler.s:47-52, task.c:4-20).                          *)
FramesHoldContexts ==
  \A t \in Tasks :
    t # current_tcb \/ ip = "restore" => FrameAt(stack_ptr[t]) = left[t]

(* Nothing stays behind on the IRQ stack, which every tick would otherwise *)
(* bring nearer to its end (irq_handler.s:36-45).                          *)
IrqStackBalanced == ip \in {"task", "schedule", "restore", "resume"} => sp_irq = IrqTop

(* Critical sections nest: the inner irq_restore() does not let the timer  *)
(* into the outer one (critical.h:6-25).                                   *)
NestedSectionsMask ==
  ip = "task" /\ (\E k \in 1..Len(calls[current_tcb]) : calls[current_tcb][k] = "cpsr")
    => Masked(cpsr)

=============================================================================
