---------------------------- MODULE ContextProofs ----------------------------
(***************************************************************************)
(* Proofs about ContextSwitch, for any number of tasks, any stacks long    *)
(* enough, and whatever the task code puts into the registers.             *)
(*                                                                         *)
(* The inductive invariant CInv follows a context through the handler:     *)
(* which part of it is in the registers, on the IRQ stack and on the       *)
(* task's own stack at each value of ip (InHandler), and what the stacks   *)
(* of all the other tasks hold meanwhile (OthersWhole).                    *)
(***************************************************************************)
EXTENDS ContextSwitch, SequenceTheorems, TLAPS

Kinds == {"word", "cpsr"}
Contexts == [r : [Regs -> Int], lr : Int, pc : Int, cpsr : Int, sp : Int]

Types ==
  /\ mem \in [Addresses -> Int]
  /\ r \in [Regs -> Int]
  /\ lr \in Int /\ pc \in Int /\ cpsr \in Int /\ sp \in Int
  /\ lr_irq \in Int /\ spsr \in Int
  /\ ip \in {"task", "save", "fetch", "schedule", "restore", "resume"}
  /\ current_tcb \in Tasks
  /\ stack_ptr \in [Tasks -> Int]
  /\ calls \in [Tasks -> Seq(Kinds)]
  /\ left \in [Tasks -> Contexts]

(* Two words are on the IRQ stack between the first and the last visit of  *)
(* IRQ mode, none otherwise.                                               *)
IrqStack == sp_irq = IF ip \in {"save", "fetch"} THEN IrqTop - 2 ELSE IrqTop

(* Task code pops what it has pushed.                                      *)
StackDepth ==
  \A t \in Tasks :
    /\ Len(calls[t]) <= MaxPushed
    /\ left[t].sp = StackTop(t) - Len(calls[t])

StackPointers ==
  \A t \in Tasks : stack_ptr[t] \in (StackBase(t) + 1)..(StackTop(t) - Frame)

(* The words of a frame, and how many there are.                           *)
Holds(t) ==
  LET a == stack_ptr[t]
  IN /\ mem[a] = left[t].cpsr
     /\ mem[a + 1] = left[t].pc
     /\ \A i \in Regs : mem[a + 2 + i] = left[t].r[i]
     /\ mem[a + 3 + LastReg] = left[t].lr
     /\ a + Frame = left[t].sp

OthersWhole ==
  \A t \in Tasks :
    t # current_tcb \/ ip \in {"schedule", "restore", "resume"} => Holds(t)

(* Where the interrupted context is, part by part.                         *)
InHandler ==
  LET was == left[current_tcb]
  IN /\ ip \in {"task", "save"} => Context = was
     /\ ip \in {"save", "fetch"} =>
          mem[IrqTop - 2] = was.cpsr /\ mem[IrqTop - 1] = was.pc
     /\ ip = "fetch" =>
          /\ sp = was.sp - (LastReg + 2)
          /\ \A i \in Regs : mem[sp + i] = was.r[i]
          /\ mem[sp + LastReg + 1] = was.lr
     /\ ip = "resume" =>
          sp = stack_ptr[current_tcb] + 2 /\ spsr = was.cpsr /\ lr_irq = was.pc

(* The masks: a task inside a critical section was last seen masked, and   *)
(* so was every cpsr it saved inside another one.                          *)
SectionMasks(t) ==
  \A k \in 1..Len(calls[t]) :
    calls[t][k] = "cpsr" =>
      /\ Masked(left[t].cpsr)
      /\ \A j \in 1..(k - 1) : calls[t][j] = "cpsr" => Masked(mem[StackTop(t) - k])
SectionsMask == \A t \in Tasks : SectionMasks(t)

CInv ==
  Types /\ IrqStack /\ StackDepth /\ StackPointers /\ OthersWhole /\ InHandler /\ SectionsMask

-----------------------------------------------------------------------------
(* Arithmetic of the program status register.                              *)
LEMMA MaskMasks ==
  ASSUME NEW psr \in Int
  PROVE  Mask(psr) \in Int /\ Unmask(psr) \in Int /\ Masked(Mask(psr))
  BY DEF Mask, Unmask, Masked, IBit

LEMMA FlagsKeepMask ==
  ASSUME NEW psr \in Int, NEW flag \in {0, CBit}
  PROVE  /\ (psr % CBit) + flag \in Int
         /\ Masked((psr % CBit) + flag) <=> Masked(psr)
  BY DEF Masked, IBit, CBit

(* The stacks lie one after the other.                                     *)
LEMMA Stacks ==
  /\ IrqTop \in Int
  /\ STACK_SIZE \in Int /\ LastReg \in Int /\ MaxPushed \in Int /\ Frame = LastReg + 4
  /\ LastReg >= 3 /\ MaxPushed >= 0 /\ STACK_SIZE >= Frame + MaxPushed + 1
  /\ Addresses = 0..(IrqTop - 1)
  /\ \A t \in Tasks :
       /\ StackBase(t) \in Nat /\ StackTop(t) = StackBase(t) + STACK_SIZE
       /\ StackTop(t) + STACK_SIZE <= IrqTop
       /\ \A s \in Tasks : s # t => StackTop(s) <= StackBase(t) \/ StackTop(t) <= StackBase(s)
  <1>1. \A t \in Tasks : t \in Nat /\ t < NumTasks
    BY ContextAssumption DEF Tasks
  <1>2. STACK_SIZE \in Nat /\ NumTasks \in Nat
    BY ContextAssumption
  <1>3. ASSUME NEW s \in Nat, NEW t \in Nat, s < t
        PROVE  (s + 1) * STACK_SIZE <= t * STACK_SIZE
    BY <1>2, <1>3
  <1>4. ASSUME NEW t \in Nat
        PROVE  (t + 1) * STACK_SIZE = t * STACK_SIZE + STACK_SIZE /\ t * STACK_SIZE \in Nat
    BY <1>2
  <1>5. ASSUME NEW t \in Tasks
        PROVE  /\ StackBase(t) \in Nat /\ StackTop(t) = StackBase(t) + STACK_SIZE
               /\ StackTop(t) + STACK_SIZE <= IrqTop
    <2>1. (t + 1) * STACK_SIZE <= NumTasks * STACK_SIZE
      BY <1>1, <1>2, <1>3
    <2>2. IrqTop = NumTasks * STACK_SIZE + STACK_SIZE
      BY <1>2, <1>4 DEF IrqTop
    <2> QED
      BY <1>1, <1>2, <1>4, <2>1, <2>2 DEF StackBase, StackTop
  <1>6. ASSUME NEW s \in Tasks, NEW t \in Tasks, s # t
        PROVE  StackTop(s) <= StackBase(t) \/ StackTop(t) <= StackBase(s)
    <2>1. s < t \/ t < s
      BY <1>1, <1>6
    <2> QED
      BY <1>1, <1>3, <2>1 DEF StackBase, StackTop
  <1>7. IrqTop \in Int
    BY <1>2, <1>4 DEF IrqTop
  <1> QED
    BY <1>5, <1>6, <1>7, ContextAssumption DEF Addresses, Frame

LEMMA StacksApart ==
  ASSUME NEW c \in Tasks, NEW t \in Tasks, NEW k \in StackBase(t)..(StackTop(t) - 1)
  PROVE  /\ k \in Addresses /\ k < IrqTop - 2
         /\ t # c => k \notin StackBase(c)..(StackTop(c) - 1)
  <1>1. /\ StackBase(t) \in Nat /\ StackTop(t) \in Int
        /\ StackBase(c) \in Nat /\ StackTop(c) \in Int
        /\ StackTop(t) + STACK_SIZE <= IrqTop /\ STACK_SIZE >= 8 /\ STACK_SIZE \in Int
        /\ IrqTop \in Int /\ Addresses = 0..(IrqTop - 1)
    BY Stacks
  <1>2. t # c => StackTop(c) <= StackBase(t) \/ StackTop(t) <= StackBase(c)
    BY Stacks
  <1> QED
    BY <1>1, <1>2

(* A block transfer writes its words and nothing else.                     *)
LEMMA StoredWords ==
  ASSUME NEW memory \in [Addresses -> Int], NEW a \in Int, NEW ws \in Seq(Int)
  PROVE  /\ Stored(memory, a, ws) \in [Addresses -> Int]
         /\ \A k \in Addresses :
              k < a - Len(ws) \/ k >= a => Stored(memory, a, ws)[k] = memory[k]
         /\ \A i \in 1..Len(ws) :
              a - Len(ws) + i - 1 \in Addresses =>
                Stored(memory, a, ws)[a - Len(ws) + i - 1] = ws[i]
  <1>1. Len(ws) \in Nat /\ \A i \in 1..Len(ws) : ws[i] \in Int
    OBVIOUS
  <1>2. Addresses \subseteq Int
    BY Stacks
  <1>3. ASSUME NEW k \in Addresses, k \in (a - Len(ws))..(a - 1)
        PROVE  k - (a - Len(ws)) + 1 \in 1..Len(ws)
    BY <1>1, <1>2, <1>3
  <1> QED
    BY <1>1, <1>2, <1>3 DEF Stored

LEMMA StoredPair ==
  ASSUME NEW memory \in [Addresses -> Int], NEW a \in Int, NEW x \in Int, NEW y \in Int,
         a - 2 \in Addresses, a - 1 \in Addresses
  PROVE  /\ Stored(memory, a, <<x, y>>) \in [Addresses -> Int]
         /\ Stored(memory, a, <<x, y>>)[a - 2] = x
         /\ Stored(memory, a, <<x, y>>)[a - 1] = y
         /\ \A k \in Addresses :
              k # a - 2 /\ k # a - 1 => Stored(memory, a, <<x, y>>)[k] = memory[k]
  <1>1. Addresses \subseteq Int
    BY Stacks
  <1> QED
    BY <1>1 DEF Stored

(* r0-r12 and lr as STMFD stores them.                                     *)
LEMMA SavedRegisters ==
  ASSUME NEW f \in [Regs -> Int], NEW x \in Int
  PROVE  LET ws == [i \in 1..(LastReg + 1) |-> f[i - 1]] \o <<x>>
         IN /\ ws \in Seq(Int) /\ Len(ws) = LastReg + 2
            /\ \A i \in 1..(LastReg + 1) : ws[i] = f[i - 1]
            /\ ws[LastReg + 2] = x
  <1> DEFINE rs == [i \in 1..(LastReg + 1) |-> f[i - 1]]
             ws == rs \o <<x>>
  <1>1. LastReg \in Nat
    BY ContextAssumption
  <1>2. \A i \in 1..(LastReg + 1) : f[i - 1] \in Int
    <2>1. \A i \in 1..(LastReg + 1) : i - 1 \in Regs
      BY <1>1 DEF Regs
    <2> QED
      BY <2>1
  <1>3. rs \in Seq(Int) /\ Len(rs) = LastReg + 1
    <2>1. rs \in [1..(LastReg + 1) -> Int] /\ LastReg + 1 \in Nat
      BY <1>1, <1>2
    <2> QED
      BY <2>1
  <1>4. \A i \in 1..(LastReg + 1) : rs[i] = f[i - 1]
    OBVIOUS
  <1> HIDE DEF rs
  <1>5. ws = Append(rs, x)
    <2>1. rs \in Seq(Int)
      BY <1>3
    <2> QED
      BY <2>1, AppendIsConcat
  <1> HIDE DEF ws
  <1>6. /\ Append(rs, x) \in Seq(Int) /\ Len(Append(rs, x)) = Len(rs) + 1
        /\ \A i \in 1..Len(rs) : Append(rs, x)[i] = rs[i]
        /\ Append(rs, x)[Len(rs) + 1] = x
    <2>1. rs \in Seq(Int)
      BY <1>3
    <2> QED
      BY <2>1, AppendProperties
  <1>7. /\ ws \in Seq(Int) /\ Len(ws) = Len(rs) + 1 /\ ws[Len(rs) + 1] = x
        /\ \A i \in 1..Len(rs) : ws[i] = rs[i]
    BY <1>5, <1>6, Zenon
  <1>8. Len(rs) + 1 = LastReg + 2
    BY <1>1, <1>3
  <1>9. \A i \in 1..(LastReg + 1) : ws[i] = f[i - 1]
    BY <1>3, <1>4, <1>7, Zenon
  <1> QED
    BY <1>7, <1>8, <1>9, Zenon DEF ws, rs

-----------------------------------------------------------------------------
(* Who keeps what.  A task whose own stack is not written to keeps its     *)
(* frame and the words it saved.                                           *)
LEMMA StackKept ==
  ASSUME Types, StackDepth, StackPointers, NEW t \in Tasks,
         \A k \in StackBase(t)..(StackTop(t) - 1) : mem'[k] = mem[k],
         calls'[t] = calls[t], left'[t] = left[t], stack_ptr'[t] = stack_ptr[t]
  PROVE  /\ Holds(t) => Holds(t)'
         /\ SectionMasks(t) => SectionMasks(t)'
  <1> DEFINE own == StackBase(t)..(StackTop(t) - 1)
  <1>1. ASSUME Holds(t)
        PROVE  Holds(t)'
    <2> DEFINE a == stack_ptr[t]
    <2>1. a \in own /\ a + 1 \in own /\ a + 3 + LastReg \in own
          /\ \A i \in Regs : a + 2 + i \in own
      <3>1. /\ StackBase(t) \in Int /\ StackTop(t) \in Int
            /\ a \in (StackBase(t) + 1)..(StackTop(t) - Frame)
        BY Stacks DEF StackPointers
      <3> HIDE DEF a
      <3> QED
        BY <3>1, Stacks DEF Regs
    <2>2. /\ mem'[a] = mem[a] /\ mem'[a + 1] = mem[a + 1]
          /\ mem'[a + 3 + LastReg] = mem[a + 3 + LastReg]
          /\ \A i \in Regs : mem'[a + 2 + i] = mem[a + 2 + i]
      BY <2>1
    <2> HIDE DEF own
    <2> QED
      BY <1>1, <2>2 DEF Holds
  <1>2. ASSUME SectionMasks(t)
        PROVE  SectionMasks(t)'
    <2>1. \A k \in 1..Len(calls[t]) : StackTop(t) - k \in own
      <3>1. Len(calls[t]) \in Nat /\ Len(calls[t]) <= MaxPushed
        BY DEF Types, StackDepth
      <3>2. /\ StackBase(t) \in Int /\ StackTop(t) = StackBase(t) + STACK_SIZE
            /\ STACK_SIZE \in Int /\ MaxPushed \in Int /\ MaxPushed < STACK_SIZE
        BY Stacks
      <3> QED
        BY <3>1, <3>2
    <2>2. \A k \in 1..Len(calls[t]) : mem'[StackTop(t) - k] = mem[StackTop(t) - k]
      BY <2>1
    <2> HIDE DEF own
    <2> QED
      BY <1>2, <2>2 DEF SectionMasks
  <1> QED
    BY <1>1, <1>2

(* Where task code has its stack pointer.                                  *)
LEMMA TaskStack ==
  ASSUME CInv, ip \in {"task", "save"}
  PROVE  /\ sp = StackTop(current_tcb) - Len(calls[current_tcb])
         /\ Len(calls[current_tcb]) \in Nat /\ Len(calls[current_tcb]) <= MaxPushed
         /\ r = left[current_tcb].r /\ lr = left[current_tcb].lr
         /\ pc = left[current_tcb].pc /\ cpsr = left[current_tcb].cpsr
         /\ sp = left[current_tcb].sp
  <1>1. Context = left[current_tcb]
    BY DEF CInv, InHandler
  <1> QED
    BY <1>1 DEF Context, CInv, StackDepth, Types

(* Task code keeps the invariant if it pushes and pops as a stack, and     *)
(* leaves its sections masked.                                             *)
LEMMA TaskStepKeeps ==
  ASSUME CInv, ip = "task", Leaves, UNCHANGED <<irqVars, ip, current_tcb, stack_ptr>>,
         mem' \in [Addresses -> Int], r' \in [Regs -> Int], lr' \in Int, pc' \in Int, cpsr' \in Int,
         NEW kinds \in Seq(Kinds), Len(kinds) <= MaxPushed,
         calls' = [calls EXCEPT ![current_tcb] = kinds],
         sp' = StackTop(current_tcb) - Len(kinds),
         \A k \in Addresses :
           mem'[k] # mem[k] => k \in StackBase(current_tcb)..(StackTop(current_tcb) - 1),
         \A k \in 1..Len(kinds) : kinds[k] = "cpsr" =>
           /\ Masked(cpsr')
           /\ \A j \in 1..(k - 1) : kinds[j] = "cpsr" => Masked(mem'[StackTop(current_tcb) - k])
  PROVE  CInv'
  <1> DEFINE c == current_tcb
  <1>1. c \in Tasks /\ c' = c
    BY DEF CInv, Types
  <1>2. Len(kinds) \in Nat /\ sp' \in Int
    <2>1. Len(kinds) \in Nat /\ StackTop(c) \in Int
      <3>1. StackTop(c) \in Int
        BY <1>1, Stacks
      <3> QED
        BY <3>1
    <2> QED
      BY <2>1
  <1>3. Context' \in Contexts
    BY <1>2 DEF Context, Contexts
  <1>4. left'[c] = Context' /\ calls'[c] = kinds
        /\ \A t \in Tasks \ {c} : left'[t] = left[t] /\ calls'[t] = calls[t]
    BY <1>1 DEF Leaves, CInv, Types
  <1>5. Types'
    BY <1>1, <1>2, <1>3 DEF CInv, Types, Leaves, irqVars
  <1>6. IrqStack'
    BY DEF CInv, IrqStack, irqVars
  <1>7. StackDepth'
    BY <1>2, <1>4 DEF CInv, StackDepth, Context
  <1>8. StackPointers'
    BY DEF CInv, StackPointers
  <1>9. ASSUME NEW t \in Tasks \ {c}
        PROVE  Holds(t)' /\ SectionMasks(t)'
    <2>1. \A k \in StackBase(t)..(StackTop(t) - 1) :
            k \in Addresses /\ k \notin StackBase(c)..(StackTop(c) - 1)
      BY <1>1, StacksApart
    <2>2. \A k \in StackBase(t)..(StackTop(t) - 1) : mem'[k] = mem[k]
      BY <2>1
    <2> QED
      BY <1>4, <2>2, StackKept DEF CInv, OthersWhole, SectionsMask
  <1>10. OthersWhole'
    BY <1>9 DEF OthersWhole
  <1>11. InHandler'
    BY <1>1, <1>4 DEF InHandler
  <1>12. SectionMasks(c)'
    BY <1>1, <1>4 DEF SectionMasks, Context
  <1> QED
    BY <1>5, <1>6, <1>7, <1>8, <1>9, <1>10, <1>11, <1>12 DEF CInv, SectionsMask

LEMMA PushStep ==
  ASSUME CInv, NEW kind \in Kinds, NEW word \in Int, Pushes(kind, word), Leaves,
         UNCHANGED <<r, lr, pc, irqVars, ip, current_tcb, stack_ptr>>,
         cpsr' \in Int, Masked(cpsr) => Masked(cpsr'),
         kind = "cpsr" => Masked(cpsr') /\ word = cpsr
  PROVE  CInv'
  <1> DEFINE c == current_tcb
             n == Len(calls[c])
             kinds == Append(calls[c], kind)
             own == StackBase(c)..(StackTop(c) - 1)
  <1>1. /\ ip = "task" /\ n < MaxPushed /\ mem' = Stored(mem, sp, <<word>>)
        /\ sp' = sp - 1 /\ calls' = [calls EXCEPT ![c] = kinds]
    BY DEF Pushes
  <1>2. /\ c \in Tasks /\ calls[c] \in Seq(Kinds) /\ n \in Nat /\ sp = StackTop(c) - n
        /\ cpsr = left[c].cpsr /\ SectionMasks(c)
    BY <1>1, TaskStack DEF CInv, Types, SectionsMask
  <1>3. /\ StackBase(c) \in Nat /\ StackTop(c) = StackBase(c) + STACK_SIZE
        /\ STACK_SIZE \in Int /\ MaxPushed \in Int /\ MaxPushed < STACK_SIZE
    BY <1>2, Stacks
  <1>4. sp - 1 \in own /\ sp \in Int
    BY <1>1, <1>2, <1>3
  <1>5. sp - 1 \in Addresses /\ Addresses \subseteq Int
    <2>1. sp - 1 \in Addresses
      BY <1>2, <1>4, StacksApart
    <2> QED
      BY <2>1, Stacks
  <1>6. mem \in [Addresses -> Int]
    BY DEF CInv, Types
  <1>7. /\ mem' \in [Addresses -> Int] /\ mem'[sp - 1] = word
        /\ \A k \in Addresses : k # sp - 1 => mem'[k] = mem[k]
    BY <1>1, <1>4, <1>5, <1>6, StoredWords DEF Stored
  <1>8. /\ kinds \in Seq(Kinds) /\ Len(kinds) = n + 1 /\ kinds[n + 1] = kind
        /\ \A k \in 1..n : kinds[k] = calls[c][k]
    BY <1>2
  <1>9. ASSUME NEW k \in 1..(n + 1), kinds[k] = "cpsr"
        PROVE  /\ Masked(cpsr')
               /\ \A j \in 1..(k - 1) : kinds[j] = "cpsr" => Masked(mem'[StackTop(c) - k])
    <2> HIDE DEF kinds
    <2>1. CASE k \in 1..n
      <3>1. /\ Masked(cpsr)
            /\ \A j \in 1..(k - 1) : calls[c][j] = "cpsr" => Masked(mem[StackTop(c) - k])
        BY <1>2, <1>8, <1>9, <2>1 DEF SectionMasks
      <3>2. StackTop(c) - k \in own /\ StackTop(c) - k # sp - 1
        BY <1>1, <1>2, <1>3, <2>1
      <3>3. mem'[StackTop(c) - k] = mem[StackTop(c) - k]
        BY <1>2, <1>7, <3>2, StacksApart
      <3>4. \A j \in 1..(k - 1) : kinds[j] = calls[c][j]
        BY <1>2, <1>8, <2>1
      <3> QED
        BY <3>1, <3>3, <3>4
    <2>2. CASE k = n + 1
      <3>1. Masked(cpsr') /\ mem'[StackTop(c) - k] = cpsr
        <4>1. StackTop(c) - k = sp - 1
          BY <1>2, <1>3, <2>2
        <4> QED
          BY <1>7, <1>8, <1>9, <2>2, <4>1
      <3>2. ASSUME NEW j \in 1..(k - 1), kinds[j] = "cpsr"
            PROVE  Masked(cpsr)
        <4>1. j \in 1..n
          BY <1>2, <2>2
        <4> QED
          BY <1>2, <1>8, <3>2, <4>1 DEF SectionMasks
      <3> QED
        BY <3>1, <3>2
    <2> QED
      BY <1>2, <2>1, <2>2
  <1>10. Len(kinds) <= MaxPushed /\ sp' = StackTop(c) - Len(kinds)
    BY <1>1, <1>2, <1>3, <1>8
  <1>11. \A k \in Addresses : mem'[k] # mem[k] => k \in own
    BY <1>4, <1>7
  <1>12. /\ r' \in [Regs -> Int] /\ lr' \in Int /\ pc' \in Int
         /\ UNCHANGED <<irqVars, ip, current_tcb, stack_ptr>>
    BY DEF CInv, Types
  <1> HIDE DEF kinds
  <1> QED
    BY <1>1, <1>7, <1>8, <1>9, <1>10, <1>11, <1>12, TaskStepKeeps

LEMMA PopStep ==
  ASSUME CInv, NEW kind, Pops(kind), Leaves,
         UNCHANGED <<mem, r, pc, irqVars, ip, current_tcb, stack_ptr>>,
         lr' = lr \/ lr' = mem[sp], cpsr' \in Int,
         kind # "cpsr" => cpsr' = cpsr,
         kind = "cpsr" /\ Masked(mem[sp]) => Masked(cpsr')
  PROVE  CInv'
  <1> DEFINE c == current_tcb
             n == Len(calls[c])
             kinds == SubSeq(calls[c], 1, n - 1)
             own == StackBase(c)..(StackTop(c) - 1)
  <1>1. /\ ip = "task" /\ calls[c] # <<>> /\ calls[c][n] = kind
        /\ sp' = sp + 1 /\ calls' = [calls EXCEPT ![c] = kinds]
    BY DEF Pops
  <1>2. /\ c \in Tasks /\ calls[c] \in Seq(Kinds) /\ n \in Nat /\ sp = StackTop(c) - n
        /\ n <= MaxPushed /\ cpsr = left[c].cpsr /\ SectionMasks(c)
    BY <1>1, TaskStack DEF CInv, Types, SectionsMask
  <1>3. n >= 1
    BY <1>1, <1>2
  <1>4. /\ StackBase(c) \in Nat /\ StackTop(c) = StackBase(c) + STACK_SIZE
        /\ STACK_SIZE \in Int /\ MaxPushed \in Int /\ MaxPushed < STACK_SIZE
    BY <1>2, Stacks
  <1>5. mem[sp] \in Int /\ mem \in [Addresses -> Int]
    <2>1. sp \in own
      BY <1>2, <1>3, <1>4
    <2> QED
      BY <1>2, <2>1, StacksApart DEF CInv, Types
  <1>6. /\ kinds \in Seq(Kinds) /\ Len(kinds) = n - 1
        /\ \A k \in 1..(n - 1) : kinds[k] = calls[c][k]
    BY <1>2, <1>3
  <1> HIDE DEF kinds
  <1>7. ASSUME NEW k \in 1..(n - 1), kinds[k] = "cpsr"
        PROVE  /\ Masked(cpsr')
               /\ \A j \in 1..(k - 1) : kinds[j] = "cpsr" => Masked(mem[StackTop(c) - k])
    <2>1. /\ k \in 1..n /\ calls[c][k] = "cpsr" /\ k \in 1..(n - 1) /\ n \in 1..n
          /\ \A j \in 1..(k - 1) : kinds[j] = calls[c][j]
      BY <1>2, <1>3, <1>6, <1>7
    <2>2. Masked(cpsr) /\ \A j \in 1..(k - 1) : calls[c][j] = "cpsr" => Masked(mem[StackTop(c) - k])
      BY <1>2, <2>1 DEF SectionMasks
    <2>3. kind = "cpsr" => Masked(mem[StackTop(c) - n])
      BY <1>1, <1>2, <2>1 DEF SectionMasks
    <2> QED
      BY <1>2, <2>1, <2>2, <2>3
  <1>8. Len(kinds) <= MaxPushed /\ sp' = StackTop(c) - Len(kinds)
    BY <1>1, <1>2, <1>4, <1>6
  <1>9. r' \in [Regs -> Int] /\ lr' \in Int /\ pc' \in Int /\ mem' = mem
        /\ UNCHANGED <<irqVars, ip, current_tcb, stack_ptr>>
    BY <1>5 DEF CInv, Types
  <1> QED
    BY <1>1, <1>5, <1>6, <1>7, <1>8, <1>9, TaskStepKeeps

LEMMA TaskCodeStep == CInv /\ TaskCode => CInv'
  <1> SUFFICES ASSUME CInv, TaskCode PROVE CInv'
    OBVIOUS
  <1>1. /\ lr \in Int /\ cpsr \in Int /\ current_tcb \in Tasks
        /\ Mask(cpsr) \in Int /\ Unmask(cpsr) \in Int /\ Masked(Mask(cpsr))
    BY MaskMasks DEF CInv, Types
  <1>2. CASE Compute
    <2> DEFINE c == current_tcb
               n == Len(calls[c])
    <2>1. PICK w \in Contents[c] :
            r' = w.r /\ lr' = w.lr /\ pc' = w.pc /\ cpsr' = (cpsr % CBit) + w.flag
      BY <1>2 DEF Compute
    <2>2. /\ r' \in [Regs -> Int] /\ lr' \in Int /\ pc' \in Int /\ cpsr' \in Int
          /\ Masked(cpsr') <=> Masked(cpsr)
      BY <1>1, <2>1, FlagsKeepMask, ContextAssumption
    <2>3. /\ ip = "task" /\ Leaves /\ UNCHANGED <<irqVars, ip, current_tcb, stack_ptr>>
          /\ mem' = mem /\ sp' = sp /\ calls' = calls
      BY <1>2 DEF Compute
    <2>4. /\ calls[c] \in Seq(Kinds) /\ n <= MaxPushed /\ sp = StackTop(c) - n
          /\ calls' = [calls EXCEPT ![c] = calls[c]] /\ mem \in [Addresses -> Int]
      BY <2>3, TaskStack DEF CInv, Types
    <2>5. \A k \in 1..n : calls[c][k] = "cpsr" =>
            /\ Masked(cpsr')
            /\ \A j \in 1..(k - 1) : calls[c][j] = "cpsr" => Masked(mem[StackTop(c) - k])
      <3>1. cpsr = left[c].cpsr /\ SectionMasks(c)
        BY <1>1, <2>3, TaskStack DEF CInv, SectionsMask
      <3> QED
        BY <2>2, <3>1 DEF SectionMasks
    <2> QED
      BY <2>2, <2>3, <2>4, <2>5, TaskStepKeeps
  <1>3. CASE Call
    BY <1>1, <1>3, PushStep DEF Call, Kinds
  <1>4. CASE Return
    BY <1>1, <1>4, PopStep DEF Return
  <1>5. CASE irq_disable_save
    BY <1>1, <1>5, PushStep DEF irq_disable_save, Kinds
  <1>6. CASE irq_restore
    <2>1. cpsr' \in Int /\ (Masked(mem[sp]) => Masked(cpsr'))
      BY <1>1, <1>6 DEF irq_restore, Restored
    <2> QED
      BY <1>6, <2>1, PopStep DEF irq_restore
  <1> QED
    BY <1>2, <1>3, <1>4, <1>5, <1>6 DEF TaskCode

-----------------------------------------------------------------------------
(* The handler writes to the IRQ stack and to the interrupted task's stack *)
(* below what that task has pushed.                                        *)
LEMMA HandlerKeeps ==
  ASSUME CInv, UNCHANGED progVars, NEW c, c = current_tcb,
         \A k \in Addresses : mem'[k] # mem[k] =>
           k >= IrqTop - 2 \/ (k < left[c].sp /\ k >= StackBase(c))
  PROVE  /\ StackDepth'
         /\ SectionsMask'
         /\ \A t \in Tasks \ {c} :
              Holds(t) /\ stack_ptr'[t] = stack_ptr[t] => Holds(t)'
  <1> DEFINE n == Len(calls[c])
  <1>1. calls' = calls /\ left' = left
    BY DEF progVars
  <1>2. StackDepth'
    BY <1>1 DEF CInv, StackDepth
  <1>3. /\ c \in Tasks /\ n \in Nat /\ n <= MaxPushed
        /\ left[c].sp = StackTop(c) - n
    BY DEF CInv, Types, StackDepth
  <1>4. /\ StackBase(c) \in Nat /\ StackTop(c) = StackBase(c) + STACK_SIZE
        /\ STACK_SIZE \in Int /\ MaxPushed \in Int /\ MaxPushed < STACK_SIZE /\ IrqTop \in Int
    BY <1>3, Stacks
  <1>5. ASSUME NEW t \in Tasks \ {c}
        PROVE  /\ SectionMasks(t)'
               /\ Holds(t) /\ stack_ptr'[t] = stack_ptr[t] => Holds(t)'
    <2>1. ASSUME NEW k \in StackBase(t)..(StackTop(t) - 1)
          PROVE  mem'[k] = mem[k]
      <3>1. k \in Addresses /\ k < IrqTop - 2 /\ k \notin StackBase(c)..(StackTop(c) - 1)
        BY <1>3, <1>5, StacksApart
      <3>2. k \in Int
        BY <2>1, Stacks
      <3>3. ~(k >= IrqTop - 2) /\ ~(k < left[c].sp /\ k >= StackBase(c))
        BY <1>3, <1>4, <3>1, <3>2
      <3> QED
        BY <3>1, <3>3
    <2>2. SectionMasks(t)'
      <3>1. \A k \in 1..Len(calls[t]) : mem'[StackTop(t) - k] = mem[StackTop(t) - k]
        <4>1. Len(calls[t]) \in Nat /\ Len(calls[t]) <= MaxPushed
          BY DEF CInv, Types, StackDepth
        <4>2. StackBase(t) \in Int /\ StackTop(t) = StackBase(t) + STACK_SIZE
          BY Stacks
        <4>3. \A k \in 1..Len(calls[t]) : StackTop(t) - k \in StackBase(t)..(StackTop(t) - 1)
          BY <1>4, <4>1, <4>2
        <4> QED
          BY <2>1, <4>3
      <3> QED
        BY <1>1, <3>1 DEF SectionMasks, CInv, SectionsMask
    <2>3. Holds(t) /\ stack_ptr'[t] = stack_ptr[t] => Holds(t)'
      BY <1>1, <2>1, StackKept DEF CInv
    <2> QED
      BY <2>2, <2>3
  <1>6. SectionMasks(c)'
    <2>1. ASSUME NEW k \in 1..n
          PROVE  mem'[StackTop(c) - k] = mem[StackTop(c) - k]
      <3>1. StackTop(c) - k \in StackBase(c)..(StackTop(c) - 1)
        BY <1>3, <1>4
      <3>2. StackTop(c) - k \in Addresses /\ StackTop(c) - k < IrqTop - 2
        BY <1>3, <3>1, StacksApart
      <3>3. ~(StackTop(c) - k >= IrqTop - 2) /\ ~(StackTop(c) - k < left[c].sp)
        BY <1>3, <1>4, <3>2
      <3> QED
        BY <3>2, <3>3
    <2> QED
      BY <1>1, <1>3, <2>1 DEF SectionMasks, CInv, SectionsMask
  <1>7. SectionsMask'
    BY <1>5, <1>6 DEF SectionsMask
  <1> QED
    BY <1>2, <1>5, <1>7

(* Where the interrupted task's stack lies.                                *)
LEMMA Room ==
  ASSUME CInv, NEW c, c = current_tcb
  PROVE  /\ c \in Tasks /\ left[c] \in Contexts /\ left[c].sp \in Int
         /\ left[c].sp <= IrqTop - 8 /\ left[c].sp <= StackTop(c)
         /\ left[c].sp - Frame >= StackBase(c) + 1
         /\ StackBase(c) \in Nat /\ StackTop(c) \in Int /\ IrqTop \in Int
         /\ Frame = LastReg + 4 /\ LastReg \in Nat
         /\ Addresses = 0..(IrqTop - 1)
  <1> DEFINE n == Len(calls[c])
  <1>1. /\ c \in Tasks /\ left[c] \in Contexts /\ left[c].sp \in Int /\ n \in Nat /\ n <= MaxPushed
        /\ left[c].sp = StackTop(c) - n
    BY DEF CInv, Types, StackDepth, Contexts
  <1>2. /\ StackBase(c) \in Nat /\ StackTop(c) = StackBase(c) + STACK_SIZE
        /\ StackTop(c) + STACK_SIZE <= IrqTop
    BY <1>1, Stacks
  <1>3. /\ IrqTop \in Int /\ STACK_SIZE \in Int /\ LastReg \in Nat /\ MaxPushed \in Int
        /\ Frame = LastReg + 4
        /\ LastReg >= 3 /\ MaxPushed >= 0 /\ STACK_SIZE >= Frame + MaxPushed + 1
        /\ Addresses = 0..(IrqTop - 1)
    BY Stacks
  <1> HIDE DEF n
  <1>4. /\ left[c].sp <= IrqTop - 8 /\ left[c].sp <= StackTop(c) /\ StackTop(c) \in Int
        /\ left[c].sp - Frame >= StackBase(c) + 1
    BY <1>1, <1>2, <1>3
  <1> QED
    BY <1>1, <1>2, <1>3, <1>4

(* The hardware enters the handler: its first two words.                   *)
LEMMA InterruptStep == CInv /\ Interrupt => CInv'
  <1> SUFFICES ASSUME CInv, Interrupt PROVE CInv'
    OBVIOUS
  <1> DEFINE c == current_tcb
             once == Stored(mem, IrqTop, <<pc>>)
  <1>1. /\ ip = "task" /\ ip' = "save" /\ spsr' = cpsr /\ lr_irq' = cpsr
        /\ UNCHANGED <<cpuVars, current_tcb, stack_ptr, progVars>>
    BY DEF Interrupt
  <1>2. /\ sp_irq = IrqTop /\ sp_irq' = sp_irq - 2 /\ pc \in Int /\ cpsr \in Int
        /\ mem \in [Addresses -> Int]
    BY <1>1 DEF Interrupt, CInv, IrqStack, Types
  <1>3. mem' = Stored(once, IrqTop - 1, <<cpsr>>)
    <2>1. (pc + 4) - 4 = pc
      BY <1>2
    <2> QED
      BY <1>2, <2>1 DEF Interrupt
  <1>4. IrqTop \in Int /\ IrqTop - 1 \in Addresses /\ IrqTop - 2 \in Addresses
        /\ Addresses = 0..(IrqTop - 1)
    BY Room
  <1>5. /\ once \in [Addresses -> Int] /\ once[IrqTop - 1] = pc
        /\ \A k \in Addresses : k # IrqTop - 1 => once[k] = mem[k]
    BY <1>2, <1>4 DEF Stored
  <1> HIDE DEF once
  <1>6. /\ mem' \in [Addresses -> Int]
        /\ mem'[IrqTop - 2] = cpsr
        /\ \A k \in Addresses : k # IrqTop - 2 => mem'[k] = once[k]
    BY <1>2, <1>3, <1>4, <1>5 DEF Stored
  <1>7. mem'[IrqTop - 1] = pc
    <2>1. IrqTop - 1 # IrqTop - 2
      BY <1>4
    <2> QED
      BY <1>4, <1>5, <1>6, <2>1
  <1>8. \A k \in Addresses : mem'[k] # mem[k] =>
          k >= IrqTop - 2 \/ (k < left[current_tcb].sp /\ k >= StackBase(current_tcb))
    <2>1. \A k \in Addresses : mem'[k] # mem[k] => k >= IrqTop - 2
      BY <1>4, <1>5, <1>6
    <2> QED
      BY <2>1
  <1>9. Types'
    BY <1>1, <1>2, <1>6 DEF CInv, Types, cpuVars, progVars
  <1>10. IrqStack'
    BY <1>1, <1>2 DEF IrqStack
  <1>11. StackDepth' /\ SectionsMask'
         /\ \A t \in Tasks \ {c} : Holds(t) /\ stack_ptr'[t] = stack_ptr[t] => Holds(t)'
    BY <1>1, <1>8, HandlerKeeps
  <1>12. StackPointers'
    BY <1>1 DEF CInv, StackPointers
  <1>13. OthersWhole'
    BY <1>1, <1>11 DEF CInv, OthersWhole
  <1>14. InHandler'
    <2>1. Context' = left'[c'] /\ Context = left[c]
      BY <1>1 DEF CInv, InHandler, Context, cpuVars, progVars
    <2>2. left'[c'].cpsr = cpsr /\ left'[c'].pc = pc
      BY <1>1, <2>1 DEF Context, progVars
    <2> QED
      BY <1>1, <1>6, <1>7, <2>1, <2>2 DEF InHandler
  <1> QED
    BY <1>9, <1>10, <1>11, <1>12, <1>13, <1>14 DEF CInv

LEMMA SaveRegistersStep == CInv /\ SaveRegisters => CInv'
  <1> SUFFICES ASSUME CInv, SaveRegisters PROVE CInv'
    OBVIOUS
  <1> DEFINE c == current_tcb
             ws == [i \in 1..(LastReg + 1) |-> r[i - 1]] \o <<lr>>
  <1>1. /\ ip = "save" /\ ip' = "fetch" /\ mem' = Stored(mem, sp, ws)
        /\ sp' = sp - (LastReg + 2)
        /\ UNCHANGED <<r, lr, pc, cpsr, irqVars, current_tcb, stack_ptr, progVars>>
    BY DEF SaveRegisters
  <1>2. /\ c \in Tasks /\ left[c].sp = sp /\ left[c].r = r /\ left[c].lr = lr
        /\ mem \in [Addresses -> Int] /\ r \in [Regs -> Int] /\ lr \in Int
        /\ left[c].cpsr = cpsr /\ left[c].pc = pc
    BY <1>1, TaskStack DEF CInv, Types
  <1>3. /\ sp \in Int /\ sp <= IrqTop - 8 /\ sp - LastReg - 4 >= StackBase(c) + 1
        /\ StackBase(c) \in Nat /\ LastReg \in Nat /\ IrqTop \in Int
        /\ Addresses = 0..(IrqTop - 1)
    BY <1>2, Room
  <1>4. /\ ws \in Seq(Int) /\ Len(ws) = LastReg + 2
        /\ \A i \in 1..(LastReg + 1) : ws[i] = r[i - 1]
        /\ ws[LastReg + 2] = lr
    BY <1>2, SavedRegisters, Zenon
  <1> HIDE DEF ws
  <1>5. /\ mem' \in [Addresses -> Int]
        /\ \A k \in Addresses : k < sp - Len(ws) \/ k >= sp => mem'[k] = mem[k]
        /\ \A i \in 1..Len(ws) : sp - Len(ws) + i - 1 \in Addresses =>
             mem'[sp - Len(ws) + i - 1] = ws[i]
    <2>1. mem \in [Addresses -> Int] /\ sp \in Int /\ ws \in Seq(Int)
      BY <1>2, <1>3, <1>4
    <2>2. /\ Stored(mem, sp, ws) \in [Addresses -> Int]
          /\ \A k \in Addresses :
               k < sp - Len(ws) \/ k >= sp => Stored(mem, sp, ws)[k] = mem[k]
          /\ \A i \in 1..Len(ws) : sp - Len(ws) + i - 1 \in Addresses =>
               Stored(mem, sp, ws)[sp - Len(ws) + i - 1] = ws[i]
      BY <2>1, StoredWords, Zenon
    <2> QED
      BY <1>1, <2>2, Zenon
  <1>6. /\ \A k \in Addresses : k < sp - (LastReg + 2) \/ k >= sp => mem'[k] = mem[k]
        /\ \A i \in 1..(LastReg + 2) : mem'[sp - (LastReg + 2) + i - 1] = ws[i]
    <2>1. \A i \in 1..(LastReg + 2) : sp - (LastReg + 2) + i - 1 \in Addresses
      BY <1>3
    <2> QED
      BY <1>4, <1>5, <2>1
  <1>7. \A i \in Regs : mem'[sp' + i] = r[i]
    <2> SUFFICES ASSUME NEW i \in Regs PROVE mem'[sp' + i] = r[i]
      OBVIOUS
    <2>1. /\ i + 1 \in 1..(LastReg + 1) /\ i + 1 \in 1..(LastReg + 2) /\ (i + 1) - 1 = i
          /\ sp - (LastReg + 2) + (i + 1) - 1 = sp' + i
      BY <1>1, <1>3 DEF Regs
    <2> QED
      BY <1>4, <1>6, <2>1
  <1>8. mem'[sp' + LastReg + 1] = lr
    <2>1. LastReg + 2 \in 1..(LastReg + 2)
          /\ sp - (LastReg + 2) + (LastReg + 2) - 1 = sp' + LastReg + 1
      BY <1>1, <1>3
    <2> QED
      BY <1>4, <1>6, <2>1
  <1>9. Types'
    BY <1>1, <1>3, <1>5 DEF CInv, Types, irqVars, progVars
  <1>10. IrqStack'
    BY <1>1 DEF CInv, IrqStack, irqVars
  <1>11. StackDepth' /\ SectionsMask'
         /\ \A t \in Tasks \ {c} : Holds(t) /\ stack_ptr'[t] = stack_ptr[t] => Holds(t)'
    <2>1. \A k \in Addresses : mem'[k] # mem[k] => k < sp /\ k >= StackBase(c)
      BY <1>3, <1>6
    <2>2. \A k \in Addresses : mem'[k] # mem[k] =>
            k >= IrqTop - 2 \/ (k < left[c].sp /\ k >= StackBase(c))
      BY <1>2, <2>1
    <2> QED
      BY <1>1, <2>2, HandlerKeeps
  <1>12. StackPointers'
    BY <1>1 DEF CInv, StackPointers
  <1>13. OthersWhole'
    BY <1>1, <1>11 DEF CInv, OthersWhole
  <1>14. InHandler'
    <2>1. mem[IrqTop - 2] = cpsr /\ mem[IrqTop - 1] = pc
      BY <1>1, <1>2 DEF CInv, InHandler
    <2>2. mem'[IrqTop - 2] = mem[IrqTop - 2] /\ mem'[IrqTop - 1] = mem[IrqTop - 1]
      BY <1>3, <1>6
    <2>3. left'[c'] = left[c]
      BY <1>1 DEF progVars
    <2> QED
      BY <1>1, <1>2, <1>7, <1>8, <2>1, <2>2, <2>3 DEF InHandler
  <1> QED
    BY <1>9, <1>10, <1>11, <1>12, <1>13, <1>14 DEF CInv

(* The frame is complete, and the tcb points to it.                        *)
LEMMA SaveReturnStep == CInv /\ SaveReturn => CInv'
  <1> SUFFICES ASSUME CInv, SaveReturn PROVE CInv'
    OBVIOUS
  <1> DEFINE c == current_tcb
             was == left[c]
             top == was.sp
  <1>0. /\ r' = [r EXCEPT ![0] = mem[sp_irq], ![1] = mem[sp_irq + 1]]
        /\ mem' = Stored(mem, sp, <<mem[sp_irq], mem[sp_irq + 1]>>)
    BY DEF SaveReturn
  <1>1. /\ ip = "fetch" /\ ip' = "schedule"
        /\ sp_irq' = sp_irq + 2
        /\ sp' = sp - 2 /\ stack_ptr' = [stack_ptr EXCEPT ![c] = sp - 2]
        /\ UNCHANGED <<lr, pc, cpsr, lr_irq, spsr, current_tcb, progVars>>
    BY DEF SaveReturn, FetchBoth, SavedSp
  <1>2. /\ c \in Tasks /\ was \in Contexts
    BY Room
  <1>3. /\ top \in Int /\ top <= IrqTop - 8 /\ top <= StackTop(c)
        /\ top - Frame >= StackBase(c) + 1
        /\ StackBase(c) \in Nat /\ StackTop(c) \in Int /\ IrqTop \in Int
        /\ Frame = LastReg + 4 /\ LastReg \in Nat /\ Addresses = 0..(IrqTop - 1)
    BY Room
  <1>4. /\ sp = top - (LastReg + 2)
        /\ \A i \in Regs : mem[sp + i] = was.r[i]
        /\ mem[sp + LastReg + 1] = was.lr
        /\ mem[IrqTop - 2] = was.cpsr /\ mem[IrqTop - 1] = was.pc
    BY <1>1 DEF CInv, InHandler
  <1> HIDE DEF top
  <1>5. sp_irq = IrqTop - 2 /\ sp_irq + 1 = IrqTop - 1 /\ sp_irq' = IrqTop
    <2>1. sp_irq = IrqTop - 2
      BY <1>1 DEF CInv, IrqStack
    <2> QED
      BY <1>1, <1>3, <2>1
  <1>6. was.cpsr \in Int /\ was.pc \in Int /\ mem \in [Addresses -> Int]
    BY <1>2 DEF Contexts, CInv, Types
  <1>7. mem' = Stored(mem, sp, <<was.cpsr, was.pc>>)
    BY <1>0, <1>4, <1>5
  <1>8. /\ sp \in Int /\ sp - 2 \in Addresses /\ sp - 1 \in Addresses
        /\ sp - 2 = top - Frame
        /\ sp - 2 >= StackBase(c) /\ sp - 1 >= StackBase(c) /\ sp - 1 < top /\ sp - 2 < top
        /\ sp + LastReg + 1 < top
    BY <1>3, <1>4
  <1>9. /\ mem' \in [Addresses -> Int]
        /\ mem'[sp - 2] = was.cpsr /\ mem'[sp - 1] = was.pc
        /\ \A k \in Addresses : k # sp - 2 /\ k # sp - 1 => mem'[k] = mem[k]
    BY <1>6, <1>7, <1>8, StoredPair
  <1>10. Types'
    <2>1. r' \in [Regs -> Int]
      BY <1>0, <1>4, <1>5, <1>6 DEF CInv, Types
    <2> QED
      BY <1>1, <1>8, <1>9, <2>1 DEF CInv, Types, progVars
  <1>11. IrqStack'
    BY <1>1, <1>5 DEF IrqStack
  <1>12. StackDepth' /\ SectionsMask'
         /\ \A t \in Tasks \ {c} : Holds(t) /\ stack_ptr'[t] = stack_ptr[t] => Holds(t)'
    <2>1. \A k \in Addresses : mem'[k] # mem[k] => k < top /\ k >= StackBase(c)
      BY <1>8, <1>9
    <2>2. \A k \in Addresses : mem'[k] # mem[k] =>
            k >= IrqTop - 2 \/ (k < left[c].sp /\ k >= StackBase(c))
      BY <2>1 DEF top
    <2> QED
      BY <1>1, <2>2, HandlerKeeps
  <1>13. /\ stack_ptr'[c] = sp - 2
         /\ \A t \in Tasks \ {c} : stack_ptr'[t] = stack_ptr[t]
    BY <1>1, <1>2 DEF CInv, Types
  <1>14. StackPointers'
    <2>1. stack_ptr'[c] \in (StackBase(c) + 1)..(StackTop(c) - Frame)
      BY <1>3, <1>8, <1>13
    <2> QED
      BY <1>13, <2>1 DEF CInv, StackPointers
  <1>15. ASSUME NEW t \in Tasks, t = c
         PROVE  Holds(t)'
    <2> DEFINE a == sp - 2
    <2>1. a + 1 = sp - 1 /\ a + 3 + LastReg = sp + LastReg + 1 /\ a + Frame = top
          /\ \A i \in Regs : a + 2 + i = sp + i
      BY <1>3, <1>8 DEF Regs
    <2>2. /\ mem'[sp + LastReg + 1] = mem[sp + LastReg + 1]
          /\ \A i \in Regs : mem'[sp + i] = mem[sp + i]
      <3>1. \A k \in Int : k >= sp /\ k <= sp + LastReg + 1 =>
              k \in Addresses /\ k # sp - 2 /\ k # sp - 1
        BY <1>3, <1>8
      <3>2. /\ sp + LastReg + 1 \in Int /\ sp + LastReg + 1 >= sp
            /\ \A i \in Regs : sp + i \in Int /\ sp + i >= sp /\ sp + i <= sp + LastReg + 1
        BY <1>3, <1>8 DEF Regs
      <3>3. \A k \in Int : k >= sp /\ k <= sp + LastReg + 1 => mem'[k] = mem[k]
        BY <1>9, <3>1
      <3>4. sp + LastReg + 1 <= sp + LastReg + 1
        BY <3>2
      <3> QED
        BY <3>2, <3>3, <3>4
    <2>3. left'[t] = was /\ stack_ptr'[t] = a
      BY <1>1, <1>13, <1>15 DEF progVars
    <2> HIDE DEF a
    <2> QED
      BY <1>4, <1>9, <2>1, <2>2, <2>3 DEF Holds, a, top
  <1>16. OthersWhole'
    BY <1>1, <1>12, <1>13, <1>15 DEF CInv, OthersWhole
  <1>17. InHandler'
    BY <1>1 DEF InHandler
  <1> QED
    BY <1>10, <1>11, <1>12, <1>14, <1>16, <1>17 DEF CInv

-----------------------------------------------------------------------------
(* Whichever task is chosen, its frame is whole.                           *)
LEMMA ScheduleStep == CInv /\ Schedule => CInv'
  <1> SUFFICES ASSUME CInv, Schedule PROVE CInv'
    OBVIOUS
  <1>1. /\ ip = "schedule" /\ ip' = "restore" /\ current_tcb' \in Tasks
        /\ UNCHANGED <<mem, lr, sp, pc, cpsr, sp_irq, spsr, stack_ptr, progVars>>
    BY DEF Schedule
  <1>2. r' \in [Regs -> Int] /\ lr_irq' \in Int
    BY DEF Schedule, CInv, Types
  <1>3. Types' /\ IrqStack' /\ StackDepth' /\ StackPointers'
    BY <1>1, <1>2 DEF CInv, Types, IrqStack, StackDepth, StackPointers, progVars
  <1>4. SectionsMask'
    BY <1>1 DEF CInv, SectionsMask, SectionMasks, progVars
  <1>5. OthersWhole'
    <2>1. \A t \in Tasks : Holds(t)
      BY <1>1 DEF CInv, OthersWhole
    <2> QED
      BY <1>1, <2>1 DEF OthersWhole, Holds, progVars
  <1>6. InHandler'
    BY <1>1 DEF InHandler
  <1> QED
    BY <1>3, <1>4, <1>5, <1>6 DEF CInv

LEMMA RestoreReturnStep == CInv /\ RestoreReturn => CInv'
  <1> SUFFICES ASSUME CInv, RestoreReturn PROVE CInv'
    OBVIOUS
  <1> DEFINE c == current_tcb
             a == stack_ptr[c]
             was == left[c]
  <1>1. /\ ip = "restore" /\ ip' = "resume"
        /\ UNCHANGED <<mem, lr, pc, cpsr, sp_irq, current_tcb, stack_ptr, progVars>>
        /\ r' = [r EXCEPT ![0] = mem[a], ![1] = mem[a + 1]]
        /\ spsr' = mem[a] /\ lr_irq' = mem[a + 1] /\ sp' = a + 2
    BY DEF RestoreReturn
  <1>2. c \in Tasks /\ was \in Contexts /\ Holds(c) /\ a \in Int
    BY <1>1 DEF CInv, Types, OthersWhole
  <1>3. mem[a] = was.cpsr /\ mem[a + 1] = was.pc
    BY <1>2 DEF Holds
  <1>4. mem[a] \in Int /\ mem[a + 1] \in Int
    BY <1>2, <1>3 DEF Contexts
  <1>5. Types'
    <2>1. r' \in [Regs -> Int]
      BY <1>1, <1>4 DEF CInv, Types
    <2>2. sp' \in Int /\ spsr' \in Int /\ lr_irq' \in Int
      BY <1>1, <1>2, <1>4
    <2> QED
      BY <1>1, <2>1, <2>2 DEF CInv, Types, progVars
  <1>6. IrqStack' /\ StackDepth' /\ StackPointers'
    BY <1>1 DEF CInv, IrqStack, StackDepth, StackPointers, progVars
  <1>7. SectionsMask'
    BY <1>1 DEF CInv, SectionsMask, SectionMasks, progVars
  <1>8. OthersWhole'
    BY <1>1 DEF CInv, OthersWhole, Holds, progVars
  <1>9. InHandler'
    BY <1>1, <1>3 DEF InHandler, progVars
  <1> QED
    BY <1>5, <1>6, <1>7, <1>8, <1>9 DEF CInv

(* MOVS pc, lr: the whole context is in the registers again.               *)
LEMMA ResumeStep == CInv /\ Resume => CInv'
  <1> SUFFICES ASSUME CInv, Resume PROVE CInv'
    OBVIOUS
  <1> DEFINE c == current_tcb
             a == stack_ptr[c]
             was == left[c]
  <1>1. /\ ip = "resume" /\ ip' = "task"
        /\ UNCHANGED <<mem, irqVars, current_tcb, stack_ptr, progVars>>
        /\ r' = [i \in Regs |-> mem[sp + i]] /\ lr' = mem[sp + LastReg + 1]
        /\ sp' = sp + (LastReg + 2) /\ pc' = lr_irq /\ cpsr' = spsr
    BY DEF Resume, Popped
  <1>2. /\ c \in Tasks /\ was \in Contexts /\ Holds(c) /\ a \in Int
        /\ lr_irq = was.pc /\ spsr = was.cpsr
    BY <1>1 DEF CInv, Types, OthersWhole, InHandler
  <1>3. sp = a + 2 /\ LastReg \in Nat /\ Frame = LastReg + 4
    BY <1>1, Room DEF CInv, InHandler
  <1>4. /\ \A i \in Regs : mem[a + 2 + i] = was.r[i]
        /\ mem[a + 3 + LastReg] = was.lr
        /\ a + Frame = was.sp
    BY <1>2 DEF Holds
  <1>5. r' = was.r
    <2>1. was.r \in [Regs -> Int]
      BY <1>2 DEF Contexts
    <2>2. \A i \in Regs : mem[sp + i] = was.r[i]
      BY <1>3, <1>4
    <2> QED
      BY <1>1, <2>1, <2>2
  <1>6. lr' = was.lr
    <2>1. sp + LastReg + 1 = a + 3 + LastReg
      BY <1>2, <1>3
    <2> QED
      BY <1>1, <1>4, <2>1
  <1>7. sp' = was.sp
    <2>1. sp + (LastReg + 2) = a + Frame
      BY <1>2, <1>3
    <2> QED
      BY <1>1, <1>4, <2>1
  <1>8. Context' = was
    BY <1>1, <1>2, <1>5, <1>6, <1>7 DEF Context, Contexts
  <1>9. Types'
    <2>1. r' \in [Regs -> Int] /\ lr' \in Int /\ sp' \in Int /\ pc' \in Int /\ cpsr' \in Int
      BY <1>1, <1>2, <1>5, <1>6, <1>7 DEF Contexts
    <2> QED
      BY <1>1, <2>1 DEF CInv, Types, irqVars, progVars
  <1>10. IrqStack' /\ StackDepth' /\ StackPointers'
    BY <1>1 DEF CInv, IrqStack, StackDepth, StackPointers, irqVars, progVars
  <1>11. SectionsMask'
    BY <1>1 DEF CInv, SectionsMask, SectionMasks, progVars
  <1>12. OthersWhole'
    BY <1>1 DEF CInv, OthersWhole, Holds, progVars
  <1>13. InHandler'
    BY <1>1, <1>8 DEF InHandler, progVars
  <1> QED
    BY <1>9, <1>10, <1>11, <1>12, <1>13 DEF CInv

LEMMA CInvStep == CInv /\ [Next]_vars => CInv'
  <1>1. ASSUME CInv, UNCHANGED vars
        PROVE  CInv'
    <2>1. UNCHANGED <<mem, cpuVars, irqVars, ip, current_tcb, stack_ptr, progVars>>
      BY <1>1 DEF vars
    <2>2. Types' /\ IrqStack' /\ StackDepth' /\ StackPointers'
      BY <1>1, <2>1
         DEF CInv, Types, IrqStack, StackDepth, StackPointers, cpuVars, irqVars, progVars
    <2>3. SectionsMask' /\ OthersWhole'
      BY <1>1, <2>1 DEF CInv, SectionsMask, SectionMasks, OthersWhole, Holds, progVars
    <2>4. InHandler'
      BY <1>1, <2>1 DEF CInv, InHandler, Context, cpuVars, irqVars, progVars
    <2> QED
      BY <2>2, <2>3, <2>4 DEF CInv
  <1> QED
    BY <1>1, TaskCodeStep, InterruptStep, SaveRegistersStep, SaveReturnStep, ScheduleStep,
       RestoreReturnStep, ResumeStep DEF Next, Handler

-----------------------------------------------------------------------------
(* The frame task_create() builds.                                         *)
LEMMA CreatedFrame ==
  ASSUME NEW t \in Tasks
  PROVE  /\ \A i \in 1..Frame : Created(t)[i] \in Int
         /\ Created(t)[1] = SYS /\ Created(t)[2] = EntryPoint(t)
         /\ \A i \in 3..Frame : Created(t)[i] = 0
  <1> DEFINE zeros == [i \in 1..(LastReg + 2) |-> 0]
             first == <<SYS, EntryPoint(t)>>
  <1>1. LastReg \in Nat /\ Frame = LastReg + 4 /\ t \in Int
    BY ContextAssumption DEF Frame, Tasks
  <1>2. EntryPoint(t) \in Int /\ SYS \in Int
    BY <1>1 DEF EntryPoint, SYS
  <1>3. zeros \in Seq(Int) /\ Len(zeros) = LastReg + 2
    <2>1. zeros \in [1..(LastReg + 2) -> Int] /\ LastReg + 2 \in Nat
      BY <1>1
    <2> QED
      BY <2>1
  <1>4. \A i \in 1..(LastReg + 2) : zeros[i] = 0
    OBVIOUS
  <1>5. first \in Seq(Int) /\ Len(first) = 2 /\ first[1] = SYS /\ first[2] = EntryPoint(t)
    BY <1>2
  <1>6. Created(t) = first \o zeros
    BY DEF Created
  <1> HIDE DEF zeros, first
  <1>7. \A i \in 1..(Len(first) + Len(zeros)) :
          Created(t)[i] = IF i <= Len(first) THEN first[i] ELSE zeros[i - Len(first)]
    <2>1. \A i \in 1..(Len(first) + Len(zeros)) :
            (first \o zeros)[i] = IF i <= Len(first) THEN first[i] ELSE zeros[i - Len(first)]
      <3>1. first \in Seq(Int) /\ zeros \in Seq(Int)
        BY <1>3, <1>5
      <3> QED
        BY <3>1, ConcatProperties, Zenon
    <2> QED
      BY <1>6, <2>1
  <1>8. Created(t)[1] = SYS /\ Created(t)[2] = EntryPoint(t)
    BY <1>1, <1>3, <1>5, <1>7
  <1>9. \A i \in 3..Frame : Created(t)[i] = 0
    BY <1>1, <1>3, <1>4, <1>5, <1>7
  <1>10. \A i \in 1..Frame : i = 1 \/ i = 2 \/ i \in 3..Frame
    BY <1>1
  <1> QED
    BY <1>2, <1>8, <1>9, <1>10

(* An address below the IRQ stack is in the stack of StackOf.              *)
LEMMA WhoseStack ==
  /\ \A a \in Addresses : a < StackTop(NumTasks - 1) =>
       /\ StackOf(a) \in Tasks
       /\ a >= StackBase(StackOf(a)) /\ a < StackTop(StackOf(a))
  /\ \A t \in Tasks : \A a \in StackBase(t)..(StackTop(t) - 1) :
       /\ StackOf(a) = t
       /\ a < StackTop(NumTasks - 1)
  <1>1. /\ NumTasks \in Nat \ {0} /\ STACK_SIZE \in Nat \ {0}
        /\ Addresses \subseteq Nat /\ Tasks = 0..(NumTasks - 1)
        /\ StackTop(NumTasks - 1) = NumTasks * STACK_SIZE
    BY ContextAssumption DEF Frame, Addresses, Tasks, StackTop
  <1>2. ASSUME NEW a \in Nat, a < NumTasks * STACK_SIZE
        PROVE  /\ a \div STACK_SIZE \in 0..(NumTasks - 1)
               /\ a >= (a \div STACK_SIZE) * STACK_SIZE
               /\ a < (a \div STACK_SIZE + 1) * STACK_SIZE
    BY <1>1, <1>2
  <1>3. ASSUME NEW t \in Nat, NEW a \in Int, a >= t * STACK_SIZE, a < (t + 1) * STACK_SIZE
        PROVE  a \div STACK_SIZE = t
    BY <1>1, <1>3
  <1>4. ASSUME NEW t \in Tasks, NEW a \in StackBase(t)..(StackTop(t) - 1)
        PROVE  a < NumTasks * STACK_SIZE
    <2>1. StackTop(t) + STACK_SIZE <= IrqTop /\ StackTop(t) \in Int /\ StackBase(t) \in Int
      BY Stacks
    <2>2. IrqTop = NumTasks * STACK_SIZE + STACK_SIZE /\ NumTasks * STACK_SIZE \in Int
      BY <1>1 DEF IrqTop
    <2> QED
      BY <1>1, <2>1, <2>2
  <1>5. ASSUME NEW t \in Tasks, NEW a \in StackBase(t)..(StackTop(t) - 1)
        PROVE  StackOf(a) = t
    <2>1. t \in Nat /\ StackBase(t) \in Int /\ StackTop(t) \in Int
      BY <1>1, Stacks
    <2>2. a \in Int /\ a >= t * STACK_SIZE /\ a < (t + 1) * STACK_SIZE
      BY <2>1 DEF StackBase, StackTop
    <2> QED
      BY <1>3, <2>1, <2>2 DEF StackOf
  <1> QED
    BY <1>1, <1>2, <1>4, <1>5 DEF StackOf, StackBase, StackTop

LEMMA CInvInit == Init => CInv
  <1> SUFFICES ASSUME Init PROVE CInv
    OBVIOUS
  <1>1. /\ 0 \in Tasks /\ IrqTop \in Int /\ LastReg \in Nat /\ MaxPushed \in Nat
        /\ Frame = LastReg + 4
    BY ContextAssumption, Stacks DEF Tasks, Frame
  <1>2. ASSUME NEW t \in Tasks
        PROVE  /\ StackBase(t) \in Int /\ StackTop(t) \in Int /\ EntryPoint(t) \in Int
               /\ StackTop(t) - Frame >= StackBase(t) + 1
    <2>1. t \in Int /\ Frame \in Int
      BY <1>1 DEF Tasks
    <2>2. /\ StackBase(t) \in Int /\ StackTop(t) = StackBase(t) + STACK_SIZE
          /\ STACK_SIZE \in Int /\ STACK_SIZE >= Frame + MaxPushed + 1
      BY Stacks
    <2> QED
      BY <1>1, <2>1, <2>2 DEF EntryPoint
  <1>3. ASSUME NEW a \in Addresses
        PROVE  mem[a] \in Int
    <2>1. CASE a >= StackTop(NumTasks - 1)
      BY <2>1 DEF Init
    <2>2. CASE ~(a >= StackTop(NumTasks - 1))
      <3> DEFINE t == StackOf(a)
                 k == a - (StackTop(t) - Frame)
      <3>1. a \in Int /\ StackTop(NumTasks - 1) \in Int
        <4>1. NumTasks - 1 \in Tasks
          BY ContextAssumption DEF Tasks
        <4> QED
          BY <4>1, Stacks
      <3>2. t \in Tasks /\ a < StackTop(t)
        BY <2>2, <3>1, WhoseStack
      <3>3. mem[a] = IF k >= 0 THEN Created(t)[k + 1] ELSE 0
        BY <2>2 DEF Init
      <3>4. StackTop(t) \in Int
        BY <1>2, <3>2
      <3> HIDE DEF t
      <3>5. k >= 0 => k + 1 \in 1..Frame
        BY <1>1, <3>1, <3>2, <3>4
      <3> QED
        BY <3>2, <3>3, <3>5, CreatedFrame
    <2> QED
      BY <2>1, <2>2
  <1>4. ASSUME NEW t \in Tasks, NEW j \in 0..(Frame - 1)
        PROVE  mem[(StackTop(t) - Frame) + j] = Created(t)[j + 1]
    <2> DEFINE a == (StackTop(t) - Frame) + j
    <2>1. /\ StackBase(t) \in Int /\ StackTop(t) \in Int /\ j \in Int /\ Frame \in Int
          /\ StackTop(t) - Frame >= StackBase(t) + 1 /\ j >= 0 /\ j < Frame
      BY <1>1, <1>2
    <2>2. a \in StackBase(t)..(StackTop(t) - 1) /\ a - (StackTop(t) - Frame) = j
      BY <2>1
    <2> HIDE DEF a
    <2>3. StackOf(a) = t /\ a < StackTop(NumTasks - 1) /\ a \in Addresses
      BY <2>2, WhoseStack, StacksApart
    <2>4. ~(a >= StackTop(NumTasks - 1))
      <3>1. NumTasks - 1 \in Tasks
        BY ContextAssumption DEF Tasks
      <3>2. StackTop(NumTasks - 1) \in Int /\ a \in Int
        BY <1>2, <2>1, <2>2, <3>1
      <3> QED
        BY <2>3, <3>2
    <2> QED
      BY <2>1, <2>2, <2>3, <2>4 DEF Init, a
  <1>5. ASSUME NEW t \in Tasks
        PROVE  Holds(t)
    <2> DEFINE a == StackTop(t) - Frame
    <2>1. a \in Int
      BY <1>1, <1>2
    <2>2. /\ stack_ptr[t] = a
          /\ left[t].r = [i \in Regs |-> 0] /\ left[t].lr = 0 /\ left[t].pc = EntryPoint(t)
          /\ left[t].cpsr = SYS /\ left[t].sp = StackTop(t)
      BY DEF Init, Initial
    <2>3. a + Frame = StackTop(t) /\ a + 0 = a
      BY <1>1, <1>2
    <2> HIDE DEF a
    <2>4. \A j \in 0..(Frame - 1) : mem[a + j] = Created(t)[j + 1]
      BY <1>4 DEF a
    <2>5. mem[a] = SYS /\ mem[a + 1] = EntryPoint(t)
      <3>1. 0 \in 0..(Frame - 1) /\ 1 \in 0..(Frame - 1) /\ 0 + 1 = 1 /\ 1 + 1 = 2
        BY <1>1
      <3> QED
        BY <2>3, <2>4, <3>1, CreatedFrame
    <2>6. \A j \in 2..(Frame - 1) : mem[a + j] = 0
      <3>1. \A j \in 2..(Frame - 1) : j \in 0..(Frame - 1) /\ j + 1 \in 3..Frame
        BY <1>1
      <3> QED
        BY <2>4, <3>1, CreatedFrame
    <2>7. /\ \A i \in Regs : a + 2 + i = a + (2 + i) /\ 2 + i \in 2..(Frame - 1)
          /\ a + 3 + LastReg = a + (3 + LastReg) /\ 3 + LastReg \in 2..(Frame - 1)
      BY <1>1, <2>1 DEF Regs
    <2>8. (\A i \in Regs : mem[a + 2 + i] = 0) /\ mem[a + 3 + LastReg] = 0
      BY <2>6, <2>7
    <2> QED
      BY <2>2, <2>3, <2>5, <2>8 DEF Holds
  <1>6. Types
    <2>1. \A t \in Tasks : Initial(t) \in Contexts
      BY <1>2 DEF Initial, Contexts, SYS
    <2>2. left \in [Tasks -> Contexts]
      BY <2>1 DEF Init
    <2>3. stack_ptr \in [Tasks -> Int]
      BY <1>1, <1>2 DEF Init
    <2>4. mem \in [Addresses -> Int]
      BY <1>3 DEF Init
    <2>5. cpsr \in Int
      BY MaskMasks DEF Init, SYS
    <2> QED
      BY <1>1, <2>2, <2>3, <2>4, <2>5 DEF Init, Types
  <1>7. IrqStack
    BY DEF Init, IrqStack
  <1>8. StackDepth
    BY <1>1, <1>2 DEF Init, StackDepth, Initial
  <1>9. StackPointers
    <2>1. \A t \in Tasks : StackTop(t) - Frame \in (StackBase(t) + 1)..(StackTop(t) - Frame)
      BY <1>1, <1>2
    <2> QED
      BY <2>1 DEF Init, StackPointers
  <1>10. OthersWhole /\ InHandler
    BY <1>5 DEF OthersWhole, InHandler, Init
  <1>11. SectionsMask
    <2>1. \A t \in Tasks : Len(calls[t]) = 0
      BY DEF Init
    <2>2. \A k \in 1..0 : FALSE
      OBVIOUS
    <2> QED
      BY <2>1, <2>2 DEF SectionsMask, SectionMasks
  <1> QED
    BY <1>6, <1>7, <1>8, <1>9, <1>10, <1>11 DEF CInv

LEMMA CInvHolds == Spec => []CInv
  BY CInvInit, CInvStep, PTL DEF Spec

-----------------------------------------------------------------------------
(* Every stack pointer stays inside its own stack, above the canary word   *)
(* (irq_handler.s:34-77, task.c:4-18).                                     *)
THEOREM ContextTypeCorrect == Spec => []TypeOK
  <1>1. ASSUME CInv
        PROVE  TypeOK
    <2>1. sp_irq \in (IrqTop - 2)..IrqTop
      BY <1>1, Stacks DEF CInv, IrqStack
    <2>2. ASSUME ip = "task"
          PROVE  sp \in (StackTop(current_tcb) - MaxPushed)..StackTop(current_tcb)
      <3>1. /\ current_tcb \in Tasks /\ sp = StackTop(current_tcb) - Len(calls[current_tcb])
            /\ Len(calls[current_tcb]) \in Nat /\ Len(calls[current_tcb]) <= MaxPushed
        BY <1>1, <2>2, TaskStack DEF CInv, Types
      <3>2. StackTop(current_tcb) \in Int /\ MaxPushed \in Int
        BY <1>1, <3>1, Room, Stacks
      <3> QED
        BY <3>1, <3>2
    <2> QED
      BY <1>1, <2>1, <2>2 DEF TypeOK, CInv, Types, StackPointers
  <1> QED
    BY <1>1, CInvHolds, PTL

(* A task that has the CPU again finds everything as it left it, however   *)
(* many other tasks ran in between and whatever they did to the registers  *)
(* (irq_handler.s:34-77).                                                  *)
THEOREM ResumesWhereItLeftHolds == Spec => []ResumesWhereItLeft
  <1>1. CInv => ResumesWhereItLeft
    BY DEF CInv, InHandler, ResumesWhereItLeft
  <1> QED
    BY <1>1, CInvHolds, PTL

(* Nobody touches the frame of a task that does not have the CPU           *)
(* (irq_handler.s:47-52, task.c:4-20).                                     *)
THEOREM FramesHoldContextsHolds == Spec => []FramesHoldContexts
  <1>1. ASSUME CInv
        PROVE  FramesHoldContexts
    <2> SUFFICES ASSUME NEW t \in Tasks, t # current_tcb \/ ip = "restore"
                 PROVE  FrameAt(stack_ptr[t]) = left[t]
      BY DEF FramesHoldContexts
    <2>1. Holds(t)
      BY <1>1 DEF CInv, OthersWhole
    <2>2. left[t] \in Contexts /\ left[t].r \in [Regs -> Int]
      BY <1>1 DEF CInv, Types, Contexts
    <2>3. [i \in Regs |-> mem[stack_ptr[t] + 2 + i]] = left[t].r
      BY <2>1, <2>2 DEF Holds
    <2> QED
      BY <2>1, <2>2, <2>3 DEF Holds, FrameAt, Contexts
  <1> QED
    BY <1>1, CInvHolds, PTL

(* The handler gives the IRQ stack back, tick after tick                   *)
(* (irq_handler.s:36-45).                                                  *)
THEOREM IrqStackBalancedHolds == Spec => []IrqStackBalanced
  <1>1. CInv => IrqStackBalanced
    BY DEF CInv, IrqStack, IrqStackBalanced
  <1> QED
    BY <1>1, CInvHolds, PTL

(* However critical sections are nested, the outermost one keeps the timer *)
(* out to its end (critical.h:6-25).                                       *)
THEOREM NestedSectionsMaskHolds == Spec => []NestedSectionsMask
  <1>1. ASSUME CInv
        PROVE  NestedSectionsMask
    <2> SUFFICES ASSUME ip = "task",
                        NEW k \in 1..Len(calls[current_tcb]), calls[current_tcb][k] = "cpsr"
                 PROVE  Masked(cpsr)
      BY DEF NestedSectionsMask
    <2>1. current_tcb \in Tasks /\ cpsr = left[current_tcb].cpsr
      BY <1>1, TaskStack DEF CInv, Types
    <2> QED
      BY <1>1, <2>1 DEF CInv, SectionsMask, SectionMasks
  <1> QED
    BY <1>1, CInvHolds, PTL

=============================================================================
