---------------------------- MODULE SteppingProofs ----------------------------
(***************************************************************************)
(* For every stack size, every MAXCALLSTACK, every nesting of calls and    *)
(* interrupts and any number of resets: what "s" and "e" promise, on any   *)
(* CPU the constants describe and on the 6811.                             *)
(*                                                                         *)
(* Four steps lead to it.  The stack is the one of CallStackProofs, so     *)
(* that its invariant holds.  The program keeps a shape: each call stacks  *)
(* its bytes below the ones around it; therefore a return cuts off the     *)
(* call in progress and no other, and an instruction does one of three     *)
(* things to the calls: none, one more, one less (Instruction).  The       *)
(* commands' own variables follow the calls: ret_sp lies between the       *)
(* routine "s" was typed in and those called since (OverOK); call_level    *)
(* has moved by the calls that return with RTS, until an RTI has counted   *)
(* as one (LevelOK, OutOK).  What the loops test then decides where the    *)
(* program is (OverDecides, OutDecides).                                   *)
(***************************************************************************)
EXTENDS MCStepping, SequenceTheorems, FiniteSetTheorems, TLAPS

\* The stack again, with what is proved of it, for both CPUs.
P == INSTANCE CallStackProofs
P6811 == INSTANCE CallStackProofs WITH Family <- "6811"

-----------------------------------------------------------------------------
(* Stk and P are the same stack, Cpu6811!Stk and P6811 that of the 6811.   *)

LEMMA SameFunctions ==
  /\ \A s : /\ P!pushword(s) = Stk!pushword(s) /\ P!popword(s) = Stk!popword(s)
            /\ P!push_context(s) = Stk!push_context(s) /\ P!pop_context(s) = Stk!pop_context(s)
            /\ P!SetStack(s) = Stk!SetStack(s)
  /\ \A s, v : P!reg_setsp(s, v) = Stk!reg_setsp(s, v)
  /\ \A s, a : P!callstack_push(s, a) = Stk!callstack_push(s, a)
  /\ \A cs, v : P!Outlive(cs, v) = Stk!Outlive(cs, v)
  /\ P!ContextBytes = Stk!ContextBytes /\ P!Stack = Stk!Stack
<1>1. \A fs, v : P!PopAbove(fs, v) = Stk!PopAbove(fs, v)
  BY Zenon DEF P!PopAbove, Stk!PopAbove
<1>2. \A s, v : P!reg_setsp(s, v) = Stk!reg_setsp(s, v)
  BY <1>1, Zenon DEF P!reg_setsp, Stk!reg_setsp
<1>3. \A s : P!pushbyte(s) = Stk!pushbyte(s) /\ P!popbyte(s) = Stk!popbyte(s)
  BY <1>2, Zenon DEF P!pushbyte, Stk!pushbyte, P!popbyte, Stk!popbyte
<1>4. \A s : P!pushword(s) = Stk!pushword(s) /\ P!popword(s) = Stk!popword(s)
  BY <1>3, Zenon DEF P!pushword, Stk!pushword, P!popword, Stk!popword
<1>5. \A s : P!push_context(s) = Stk!push_context(s) /\ P!pop_context(s) = Stk!pop_context(s)
  BY <1>3, <1>4, Zenon DEF P!push_context, Stk!push_context, P!pop_context, Stk!pop_context
<1>6. \A s, a : P!callstack_push(s, a) = Stk!callstack_push(s, a)
  BY Zenon DEF P!callstack_push, Stk!callstack_push
<1>7. \A cs, v : P!Outlive(cs, v) = Stk!Outlive(cs, v)
  BY Zenon DEF P!Outlive, Stk!Outlive
<1>8. P!ContextBytes = Stk!ContextBytes /\ P!Stack = Stk!Stack
  BY Zenon DEF P!ContextBytes, Stk!ContextBytes, P!Stack, Stk!Stack
<1>9. \A s : P!SetStack(s) = Stk!SetStack(s)
  BY Zenon DEF P!SetStack, Stk!SetStack
<1> QED BY <1>2, <1>4, <1>5, <1>6, <1>7, <1>8, <1>9, Zenon

LEMMA SameSteps ==
  /\ \A a : (P!jsr_addr(a) <=> Stk!jsr_addr(a)) /\ (P!int_addr(a) <=> Stk!int_addr(a))
  /\ (P!rts_inh <=> Stk!rts_inh) /\ (P!rti <=> Stk!rti)
  /\ \A v : P!SetSP(v) <=> Stk!SetSP(v)
<1>1. /\ \A n : P!AfterPush(n) = Stk!AfterPush(n) /\ P!AfterPull(n) = Stk!AfterPull(n)
      /\ \A v : P!AfterMove(v) = Stk!AfterMove(v)
      /\ \A n : P!Decremented(n) = Stk!Decremented(n)
  BY SameFunctions, Zenon DEF P!AfterPush, Stk!AfterPush, P!AfterPull, Stk!AfterPull,
     P!AfterMove, Stk!AfterMove, P!Decremented, Stk!Decremented
<1>2. \A a : (P!jsr_addr(a) <=> Stk!jsr_addr(a))
  BY <1>1, SameFunctions, Zenon DEF P!jsr_addr, Stk!jsr_addr
<1>3. \A a : (P!int_addr(a) <=> Stk!int_addr(a))
  BY <1>1, SameFunctions, Zenon DEF P!int_addr, Stk!int_addr
<1>4. P!rts_inh <=> Stk!rts_inh
  BY <1>1, SameFunctions, Zenon DEF P!rts_inh, Stk!rts_inh
<1>5. P!rti <=> Stk!rti
  BY <1>1, SameFunctions, Zenon DEF P!rti, Stk!rti
<1>6. \A v : P!SetSP(v) <=> Stk!SetSP(v)
  BY <1>1, SameFunctions, Zenon DEF P!SetSP, Stk!SetSP
<1> QED BY <1>2, <1>3, <1>4, <1>5, <1>6, Zenon

LEMMA Same6811Functions ==
  /\ \A s : /\ P6811!pushword(s) = Cpu6811!Stk!pushword(s) /\ P6811!popword(s) = Cpu6811!Stk!popword(s)
            /\ P6811!push_context(s) = Cpu6811!Stk!push_context(s) /\ P6811!pop_context(s) = Cpu6811!Stk!pop_context(s)
            /\ P6811!SetStack(s) = Cpu6811!Stk!SetStack(s)
  /\ \A s, v : P6811!reg_setsp(s, v) = Cpu6811!Stk!reg_setsp(s, v)
  /\ \A s, a : P6811!callstack_push(s, a) = Cpu6811!Stk!callstack_push(s, a)
  /\ \A cs, v : P6811!Outlive(cs, v) = Cpu6811!Stk!Outlive(cs, v)
  /\ P6811!ContextBytes = Cpu6811!Stk!ContextBytes /\ P6811!Stack = Cpu6811!Stk!Stack
<1>1. \A fs, v : P6811!PopAbove(fs, v) = Cpu6811!Stk!PopAbove(fs, v)
  BY Zenon DEF P6811!PopAbove, Cpu6811!Stk!PopAbove
<1>2. \A s, v : P6811!reg_setsp(s, v) = Cpu6811!Stk!reg_setsp(s, v)
  BY <1>1, Zenon DEF P6811!reg_setsp, Cpu6811!Stk!reg_setsp
<1>3. \A s : P6811!pushbyte(s) = Cpu6811!Stk!pushbyte(s) /\ P6811!popbyte(s) = Cpu6811!Stk!popbyte(s)
  BY <1>2, Zenon DEF P6811!pushbyte, Cpu6811!Stk!pushbyte, P6811!popbyte, Cpu6811!Stk!popbyte
<1>4. \A s : P6811!pushword(s) = Cpu6811!Stk!pushword(s) /\ P6811!popword(s) = Cpu6811!Stk!popword(s)
  BY <1>3, Zenon DEF P6811!pushword, Cpu6811!Stk!pushword, P6811!popword, Cpu6811!Stk!popword
<1>5. \A s : P6811!push_context(s) = Cpu6811!Stk!push_context(s) /\ P6811!pop_context(s) = Cpu6811!Stk!pop_context(s)
  BY <1>3, <1>4, Zenon DEF P6811!push_context, Cpu6811!Stk!push_context, P6811!pop_context, Cpu6811!Stk!pop_context
<1>6. \A s, a : P6811!callstack_push(s, a) = Cpu6811!Stk!callstack_push(s, a)
  BY Zenon DEF P6811!callstack_push, Cpu6811!Stk!callstack_push
<1>7. \A cs, v : P6811!Outlive(cs, v) = Cpu6811!Stk!Outlive(cs, v)
  BY Zenon DEF P6811!Outlive, Cpu6811!Stk!Outlive
<1>8. P6811!ContextBytes = Cpu6811!Stk!ContextBytes /\ P6811!Stack = Cpu6811!Stk!Stack
  BY Zenon DEF P6811!ContextBytes, Cpu6811!Stk!ContextBytes, P6811!Stack, Cpu6811!Stk!Stack
<1>9. \A s : P6811!SetStack(s) = Cpu6811!Stk!SetStack(s)
  BY Zenon DEF P6811!SetStack, Cpu6811!Stk!SetStack
<1> QED BY <1>2, <1>4, <1>5, <1>6, <1>7, <1>8, <1>9, Zenon

LEMMA Same6811Steps ==
  /\ \A a : (P6811!jsr_addr(a) <=> Cpu6811!Stk!jsr_addr(a)) /\ (P6811!int_addr(a) <=> Cpu6811!Stk!int_addr(a))
  /\ (P6811!rts_inh <=> Cpu6811!Stk!rts_inh) /\ (P6811!rti <=> Cpu6811!Stk!rti)
  /\ \A v : P6811!SetSP(v) <=> Cpu6811!Stk!SetSP(v)
<1>1. /\ \A n : P6811!AfterPush(n) = Cpu6811!Stk!AfterPush(n) /\ P6811!AfterPull(n) = Cpu6811!Stk!AfterPull(n)
      /\ \A v : P6811!AfterMove(v) = Cpu6811!Stk!AfterMove(v)
      /\ \A n : P6811!Decremented(n) = Cpu6811!Stk!Decremented(n)
  BY Same6811Functions, Zenon DEF P6811!AfterPush, Cpu6811!Stk!AfterPush, P6811!AfterPull, Cpu6811!Stk!AfterPull,
     P6811!AfterMove, Cpu6811!Stk!AfterMove, P6811!Decremented, Cpu6811!Stk!Decremented
<1>2. \A a : (P6811!jsr_addr(a) <=> Cpu6811!Stk!jsr_addr(a))
  BY <1>1, Same6811Functions, Zenon DEF P6811!jsr_addr, Cpu6811!Stk!jsr_addr
<1>3. \A a : (P6811!int_addr(a) <=> Cpu6811!Stk!int_addr(a))
  BY <1>1, Same6811Functions, Zenon DEF P6811!int_addr, Cpu6811!Stk!int_addr
<1>4. P6811!rts_inh <=> Cpu6811!Stk!rts_inh
  BY <1>1, Same6811Functions, Zenon DEF P6811!rts_inh, Cpu6811!Stk!rts_inh
<1>5. P6811!rti <=> Cpu6811!Stk!rti
  BY <1>1, Same6811Functions, Zenon DEF P6811!rti, Cpu6811!Stk!rti
<1>6. \A v : P6811!SetSP(v) <=> Cpu6811!Stk!SetSP(v)
  BY <1>1, Same6811Functions, Zenon DEF P6811!SetSP, Cpu6811!Stk!SetSP
<1> QED BY <1>2, <1>3, <1>4, <1>5, <1>6, Zenon

-----------------------------------------------------------------------------
(* The program, whose calls nest.                                          *)

\* What a routine stacks to return, and the stack pointer that the i-th call found.
Bytes(c, by) == IF by = "rts" THEN 2 ELSE c
Found(cs, i) == IF i = 1 THEN SPSize - 1 ELSE cs[i - 1].stack_on_entry

\* Every call stacks what it returns with, below the calls around it; c is what an interrupt stacks.
Spaced(cs, rs, c) ==
  \A i \in 1 .. Len(cs) : cs[i].stack_on_entry + Bytes(c, rs[i].by) <= Found(cs, i)

Shape(c) ==
  /\ P!IInv
  /\ returns \in Seq(Return) /\ Len(returns) = Len(calls) /\ Len(calls) <= MaxCalls
  /\ sp <= Top
  /\ Spaced(calls, returns, c)
  /\ iflag \in BOOLEAN

\* The three things an instruction does to the calls: none, one more, and one less.
Stays == sp' \in P!SP /\ sp' <= Top /\ UNCHANGED <<calls, returns, call_level, rtis>>

Enters(n, by) ==
  /\ n <= sp /\ sp' = sp - n
  /\ Len(calls) < MaxCalls
  /\ \E a \in Addr : calls' = Append(calls, [entry_point |-> a, stack_on_entry |-> sp - n])
  /\ \E r \in Return : r.by = by /\ returns' = Append(returns, r)

Leaves(n, by) ==
  /\ calls # <<>> /\ returns[Len(returns)].by = by
  /\ sp = Top /\ sp' = sp + n
  /\ calls' = WithoutLast(calls) /\ returns' = WithoutLast(returns)

\* instr_exec, as the commands see it; "counted" when an RTI counts as a return.
Instruction(c, counted, reported) ==
  /\ \/ ~reported /\ Stays
     \/ /\ ~reported /\ Enters(2, "rts")
        /\ call_level' = (call_level + 1) % (UIntMax + 1) /\ UNCHANGED rtis
     \/ Enters(c, "rti") /\ UNCHANGED <<call_level, rtis>>
     \/ /\ ~reported /\ Leaves(2, "rts")
        /\ call_level' = P!Decremented(call_level) /\ UNCHANGED rtis
     \/ /\ ~reported /\ Leaves(c, "rti") /\ rtis' = rtis + 1 /\ rtis < MaxRtis
        /\ call_level' = IF counted THEN P!Decremented(call_level) ELSE call_level
  /\ P!IInv' /\ iflag' \in BOOLEAN /\ UNCHANGED resets

LEMMA ShapeTyped ==
  ASSUME NEW c \in Nat \ {0}, Shape(c)
  PROVE  /\ sp \in Nat /\ sp < SPSize /\ SPSize \in Nat /\ call_level \in 0 .. UIntMax
         /\ calls \in Seq(P!Frame) /\ P!Ordered(calls) /\ Len(calls) \in Nat
         /\ returns \in Seq(Return) /\ Len(returns) = Len(calls)
         /\ \A i \in 1 .. Len(calls) :
              /\ calls[i] \in P!Frame /\ returns[i] \in Return
              /\ calls[i].stack_on_entry \in Nat /\ calls[i].stack_on_entry < SPSize
              /\ calls[i].stack_on_entry >= sp
              /\ Bytes(c, returns[i].by) \in Nat \ {0}
         /\ Top \in Nat /\ sp <= Top /\ Top < SPSize
         /\ \A i \in 1 .. Len(calls) : Top <= calls[i].stack_on_entry
<1>1. /\ sp \in Nat /\ sp < SPSize /\ SPSize \in Nat /\ call_level \in 0 .. UIntMax
      /\ calls \in Seq(P!Frame) /\ P!Ordered(calls)
      /\ \A i \in 1 .. Len(calls) : calls[i].stack_on_entry >= sp
  BY StackAssumption DEF Shape, P!IInv, P!Agree, P!Stack, P!SP, P!UInt
<1>2. Len(calls) \in Nat /\ \A i \in 1 .. Len(calls) : calls[i] \in P!Frame
  BY <1>1
<1>3. \A i \in 1 .. Len(calls) :
        calls[i].stack_on_entry \in Nat /\ calls[i].stack_on_entry < SPSize
  BY <1>2, StackAssumption DEF P!Frame, P!SP
<1>4. returns \in Seq(Return) /\ Len(returns) = Len(calls) /\ sp <= Top
  BY DEF Shape
<1>5. \A i \in 1 .. Len(calls) : returns[i] \in Return /\ Bytes(c, returns[i].by) \in Nat \ {0}
  BY <1>4 DEF Bytes
<1>6. Top \in Nat /\ Top < SPSize /\ \A i \in 1 .. Len(calls) : Top <= calls[i].stack_on_entry
  <2>1. CASE calls = <<>>
    BY <1>1, <2>1 DEF Top
  <2>2. CASE calls # <<>>
    <3>1. Len(calls) \in 1 .. Len(calls) /\ Top = calls[Len(calls)].stack_on_entry
      BY <1>1, <2>2 DEF Top
    <3>2. \A i \in 1 .. Len(calls) : i <= Len(calls)
      BY <1>2
    <3> QED BY <1>1, <1>3, <3>1, <3>2 DEF P!Ordered
  <2> QED BY <2>1, <2>2
<1> QED BY <1>1, <1>2, <1>3, <1>4, <1>5, <1>6

\* The call in progress is cut off by the return from it, and no other.
LEMMA ReturnCuts ==
  ASSUME NEW c \in Nat \ {0}, Shape(c), calls # <<>>, sp = Top
  PROVE  /\ sp + Bytes(c, ReturnsBy) < SPSize
         /\ P!Outlive(calls, sp + Bytes(c, ReturnsBy)) = WithoutLast(calls)
         /\ sp + Bytes(c, ReturnsBy) <= Found(calls, Len(calls))
<1> DEFINE n == Len(calls)
           v == sp + Bytes(c, ReturnsBy)
<1>1. /\ n \in Nat \ {0} /\ n \in 1 .. n /\ ReturnsBy = returns[n].by
      /\ sp = calls[n].stack_on_entry
  BY ShapeTyped DEF ReturnsBy, Top
<1>2. v \in Nat /\ v > sp /\ v <= Found(calls, n)
  <2>1. Bytes(c, ReturnsBy) \in Nat \ {0} /\ sp \in Nat
    BY <1>1, ShapeTyped
  <2>2. calls[n].stack_on_entry + Bytes(c, returns[n].by) <= Found(calls, n)
    BY <1>1 DEF Shape, Spaced
  <2> HIDE DEF n
  <2> QED BY <1>1, <2>1, <2>2
<1> HIDE DEF v
<1>3. Found(calls, n) \in Nat /\ Found(calls, n) < SPSize
  <2>1. CASE n = 1
    BY <2>1, ShapeTyped DEF Found
  <2>2. CASE n # 1
    <3>1. n - 1 \in 1 .. n
      <4> HIDE DEF n
      <4> QED BY <1>1, <2>2
    <3> QED BY <2>2, <3>1, ShapeTyped DEF Found
  <2> QED BY <2>1, <2>2
<1>4. PICK k \in 0 .. n : P!Survive(calls, v, k) /\ P!Outlive(calls, v) = SubSeq(calls, 1, k)
  BY <1>2, ShapeTyped, P!OutliveCuts, StackAssumption
<1>5. k = n - 1
  <2>1. \A i \in 1 .. n : i <= k <=> calls[i].stack_on_entry >= v
    BY <1>4 DEF P!Survive
  <2>2. ~(n <= k)
    BY <1>1, <1>2, <2>1, ShapeTyped
  <2>3. n > 1 => n - 1 <= k
    <3> SUFFICES ASSUME n > 1 PROVE n - 1 <= k
      OBVIOUS
    <3>1. n - 1 \in 1 .. n /\ Found(calls, n) = calls[n - 1].stack_on_entry
      BY <1>1 DEF Found
    <3>2. calls[n - 1].stack_on_entry >= v
      BY <1>2, <3>1
    <3> QED BY <2>1, <3>1, <3>2
  <2> QED BY <1>1, <1>4, <2>2, <2>3
<1> QED BY <1>2, <1>3, <1>4, <1>5, ShapeTyped DEF WithoutLast, v

\* Loading the stack pointer below the call in progress cuts no call off, and a reset all of them.
LEMMA MoveCuts ==
  ASSUME NEW c \in Nat \ {0}, Shape(c), NEW v \in Nat
  PROVE  /\ v <= Top => P!Outlive(calls, v) = calls
         /\ v >= SPSize - 1 => P!Outlive(calls, v) = <<>>
         /\ sp = SPSize - 1 => calls = <<>>
<1>1. ASSUME v <= Top PROVE P!Outlive(calls, v) = calls
  <2>1. \A i \in 1 .. Len(calls) : calls[i].stack_on_entry >= v
    BY <1>1, ShapeTyped
  <2> QED BY <2>1, ShapeTyped, P!OutliveAll, StackAssumption
<1>2. calls # <<>> => 1 \in 1 .. Len(calls) /\ calls[1].stack_on_entry < SPSize - 1
  <2> SUFFICES ASSUME calls # <<>>
               PROVE  1 \in 1 .. Len(calls) /\ calls[1].stack_on_entry < SPSize - 1
    OBVIOUS
  <2>1. 1 \in 1 .. Len(calls)
    BY ShapeTyped
  <2>2. calls[1].stack_on_entry + Bytes(c, returns[1].by) <= SPSize - 1
    BY <2>1 DEF Shape, Spaced, Found
  <2> QED BY <2>1, <2>2, ShapeTyped
<1>3. \A i \in 1 .. Len(calls) : calls[i].stack_on_entry < SPSize - 1
  <2> SUFFICES ASSUME NEW i \in 1 .. Len(calls) PROVE calls[i].stack_on_entry < SPSize - 1
    OBVIOUS
  <2>1. 1 <= i /\ 1 \in 1 .. Len(calls) /\ calls # <<>>
    BY ShapeTyped
  <2>2. calls[1].stack_on_entry >= calls[i].stack_on_entry
    BY <2>1, ShapeTyped DEF P!Ordered
  <2> QED BY <1>2, <2>1, <2>2, ShapeTyped
<1>4. ASSUME v >= SPSize - 1 PROVE P!Outlive(calls, v) = <<>>
  <2>1. PICK k \in 0 .. Len(calls) :
          P!Survive(calls, v, k) /\ P!Outlive(calls, v) = SubSeq(calls, 1, k)
    BY ShapeTyped, P!OutliveCuts, StackAssumption
  <2>2. k = 0
    <3> SUFFICES ASSUME k # 0 PROVE FALSE
      OBVIOUS
    <3>1. 1 \in 1 .. Len(calls) /\ 1 <= k
      BY <2>1, ShapeTyped
    <3>2. calls[1].stack_on_entry >= v
      BY <2>1, <3>1 DEF P!Survive
    <3> QED BY <1>3, <1>4, <3>1, <3>2, ShapeTyped
  <2> QED BY <2>1, <2>2, SubSeqEmpty
<1>5. ASSUME sp = SPSize - 1, calls # <<>> PROVE FALSE
  BY <1>2, <1>5, ShapeTyped
<1> QED BY <1>1, <1>4, <1>5

LEMMA ContextTyped == P!ContextBytes \in Nat \ {0} /\ P6811!ContextBytes \in Nat \ {0}
BY StackAssumption DEF P!ContextBytes, P6811!ContextBytes

LEMMA SameIInv == P6811!IInv <=> P!IInv
<1>1. /\ P6811!Frame = P!Frame /\ P6811!Stack = P!Stack /\ P6811!SP = P!SP /\ P6811!UInt = P!UInt
      /\ \A m, n : P6811!Least(m, n) = P!Least(m, n)
      /\ \A fs : P6811!Ordered(fs) <=> P!Ordered(fs)
  BY Zenon DEF P6811!Frame, P!Frame, P6811!Stack, P!Stack, P6811!SP, P!SP, P6811!UInt, P!UInt,
     P6811!Least, P!Least, P6811!Ordered, P!Ordered
<1>2. \A s, cs : P6811!Agree(s, cs) <=> P!Agree(s, cs)
  BY <1>1, Zenon DEF P6811!Agree, P!Agree
<1> QED BY <1>1, <1>2, Zenon DEF P6811!IInv, P!IInv

-----------------------------------------------------------------------------
(* What instr_exec does.                                                   *)

\* What the five actions of the program do to the stack, on the CPU the constants describe.
LEMMA InstructionOf ==
  ASSUME Shape(P!ContextBytes), NEW reported \in BOOLEAN, instr_exec(reported)
  PROVE  Instruction(P!ContextBytes, Family = "6800", reported) /\ (reported => ReportsInterrupts)
<1> DEFINE c == P!ContextBytes
<1>0. c \in Nat \ {0}
  BY ContextTyped
<1> HIDE DEF c
<1>T. Shape(c) /\ P!IInv
  BY DEF Shape, c
<1>1. CASE ~reported /\ move_stack
  <2>1. PICK v \in P!SP : v <= Top /\ P!SetSP(v)
    BY <1>1, SameSteps DEF move_stack, Stk!SP, P!SP
  <2>2. sp' = v /\ calls' = IF v > sp THEN P!Outlive(calls, v) ELSE calls
    BY <1>T, <2>1, P!Loading, StackAssumption
  <2>3. calls' = calls
    BY <1>0, <1>T, <2>1, <2>2, MoveCuts, StackAssumption DEF P!SP
  <2>4. P!IInv'
    <3>1. v \in P!UInt
      BY <2>1, StackAssumption DEF P!SP, P!UInt
    <3>2. P!Next
      BY <2>1, <3>1 DEF P!Next
    <3> QED BY <1>T, <3>2, P!NextIInv, StackAssumption
  <2>5. Stays /\ iflag' = iflag /\ resets' = resets
    BY <1>1, <2>1, <2>2, <2>3 DEF Stays, move_stack, P!SetSP, Top
  <2> QED BY <1>1, <1>T, <2>4, <2>5 DEF Instruction, Shape, c
<1>2. CASE ~reported /\ other_instr
  <2>1. P!IInv'
    BY <1>2, <1>T, P!NextIInv, StackAssumption DEF other_instr, stack_vars, P!vars
  <2>2. Stays /\ iflag' \in BOOLEAN /\ resets' = resets
    BY <1>0, <1>2, <1>T DEF Stays, other_instr, stack_vars, Top, Shape, P!IInv, P!Agree, P!Stack
  <2> QED BY <1>2, <2>1, <2>2 DEF Instruction, c
<1>3. CASE ~reported /\ call
  <2>1. PICK a \in Addr : P!jsr_addr(a)
    BY <1>3, SameSteps DEF call
  <2>2. /\ 2 <= sp /\ sp' = sp - 2 /\ Len(calls) < MaxCalls
        /\ calls' = Append(calls, [entry_point |-> a, stack_on_entry |-> sp - 2])
        /\ call_level' = (call_level + 1) % (UIntMax + 1)
    BY <1>0, <1>3, <1>T, <2>1, P!Entering, ShapeTyped, StackAssumption DEF call, P!jsr_addr
  <2>3. Enters(2, "rts")
    <3>1. [by |-> "rts", iflag |-> FALSE] \in Return
      BY DEF Return
    <3> QED BY <1>3, <2>2, <3>1 DEF Enters, call
  <2>4. P!IInv'
    BY <1>T, <2>1, P!NextIInv, StackAssumption DEF P!Next
  <2> QED BY <1>3, <1>T, <2>2, <2>3, <2>4 DEF Instruction, call, Shape, c
<1>4. CASE (reported => ReportsInterrupts) /\ interrupt
  <2>1. PICK a \in Addr : P!int_addr(a)
    BY <1>4, SameSteps DEF interrupt
  <2>2. c <= sp
    BY <1>4, SameFunctions DEF interrupt, c
  <2>3. /\ sp' = sp - c /\ Len(calls) < MaxCalls
        /\ calls' = Append(calls, [entry_point |-> a, stack_on_entry |-> sp - c])
        /\ call_level' = call_level
    BY <1>T, <2>1, <2>2, P!Entering, StackAssumption DEF P!int_addr, c
  <2>4. Enters(c, "rti")
    <3>1. [by |-> "rti", iflag |-> iflag] \in Return
      BY <1>T DEF Return, Shape
    <3> QED BY <1>4, <2>2, <2>3, <3>1 DEF Enters, interrupt
  <2>5. P!IInv'
    BY <1>T, <2>1, P!NextIInv, StackAssumption DEF P!Next
  <2> QED BY <1>4, <2>3, <2>4, <2>5 DEF Instruction, interrupt, c
<1>5. CASE ~reported /\ return_rts
  <2>1. P!rts_inh /\ ReturnsBy = "rts" /\ sp = Top /\ calls # <<>>
    BY <1>0, <1>5, <1>T, SameSteps, ShapeTyped DEF return_rts, ReturnsBy
  <2>2. sp + 2 < SPSize /\ P!Outlive(calls, sp + 2) = WithoutLast(calls)
    BY <1>0, <1>T, <2>1, ReturnCuts DEF Bytes
  <2>3. sp' = sp + 2 /\ calls' = WithoutLast(calls)
    BY <1>T, <2>1, <2>2, P!Leaving, StackAssumption
  <2>4. P!IInv'
    BY <1>T, <2>1, P!NextIInv, StackAssumption DEF P!Next
  <2>5. Leaves(2, "rts")
    BY <1>0, <1>5, <1>T, <2>1, <2>3, ShapeTyped DEF Leaves, return_rts, ReturnsBy
  <2> QED BY <1>5, <1>T, <2>1, <2>4, <2>5 DEF Instruction, return_rts, P!rts_inh, Shape, c
<1>6. CASE ~reported /\ return_rti
  <2>1. P!rti /\ ReturnsBy = "rti" /\ sp = Top /\ calls # <<>>
    BY <1>0, <1>6, <1>T, SameSteps, ShapeTyped DEF return_rti, ReturnsBy
  <2>2. sp + c < SPSize /\ P!Outlive(calls, sp + c) = WithoutLast(calls)
    BY <1>0, <1>T, <2>1, ReturnCuts DEF Bytes
  <2>3. sp' = sp + c /\ calls' = WithoutLast(calls)
    BY <1>T, <2>1, <2>2, P!Leaving, StackAssumption DEF c
  <2>4. P!IInv'
    BY <1>T, <2>1, P!NextIInv, StackAssumption DEF P!Next
  <2>5. Leaves(c, "rti")
    BY <1>0, <1>6, <1>T, <2>1, <2>3, ShapeTyped DEF Leaves, return_rti, ReturnsBy
  <2>6. iflag' \in BOOLEAN
    <3>1. returns[Len(returns)] \in Return
      BY <1>0, <1>T, <2>1, ShapeTyped
    <3> QED BY <1>6, <3>1 DEF return_rti, Return
  <2> QED BY <1>6, <2>1, <2>4, <2>5, <2>6 DEF Instruction, return_rti, P!rti, c
<1> QED BY <1>1, <1>2, <1>3, <1>4, <1>5, <1>6, ReportsAssumption, Zenon DEF instr_exec

\* The state of the program means the same to both CPUs.
LEMMA SameState ==
  /\ P6811!SP = P!SP /\ P6811!UInt = P!UInt /\ P6811!Frame = P!Frame
  /\ (P6811!IInv <=> P!IInv) /\ (P6811!IInv' <=> P!IInv')
  /\ \A n : P6811!Decremented(n) = P!Decremented(n)
  /\ \A cs, v : P6811!Outlive(cs, v) = P!Outlive(cs, v)
  /\ Cpu6811!Top = Top /\ Cpu6811!Return = Return /\ Cpu6811!ReturnsBy = ReturnsBy
  /\ \A s : Cpu6811!WithoutLast(s) = WithoutLast(s)
<1>1. /\ P6811!SP = P!SP /\ P6811!UInt = P!UInt /\ P6811!Frame = P!Frame
      /\ \A n : P6811!Decremented(n) = P!Decremented(n)
      /\ \A cs, v : P6811!Outlive(cs, v) = P!Outlive(cs, v)
      /\ Cpu6811!Return = Return /\ Cpu6811!ReturnsBy = ReturnsBy /\ Cpu6811!Top = Top
      /\ \A s : Cpu6811!WithoutLast(s) = WithoutLast(s)
  BY Zenon DEF P6811!SP, P!SP, P6811!UInt, P!UInt, P6811!Frame, P!Frame, P6811!Decremented,
     P!Decremented, P6811!Outlive, P!Outlive, Cpu6811!Return, Return, Cpu6811!ReturnsBy, ReturnsBy,
     Cpu6811!Top, Top, Cpu6811!WithoutLast, WithoutLast
<1>2. (P6811!IInv <=> P!IInv) /\ (P6811!IInv' <=> P!IInv')
  BY SameIInv, PTL
<1> QED BY <1>1, <1>2, Zenon

\* The same on the 6811, which reports no interrupts and does not count an RTI.
LEMMA InstructionOf6811 ==
  ASSUME Shape(P6811!ContextBytes), NEW reported \in BOOLEAN, Cpu6811!instr_exec(reported)
  PROVE  Instruction(P6811!ContextBytes, FALSE, reported) /\ ~reported
<1> DEFINE c == P6811!ContextBytes
<1>0. c \in Nat \ {0}
  BY ContextTyped
<1> HIDE DEF c
<1>T. Shape(c) /\ P6811!IInv
  BY SameState DEF Shape, c
<1>1. CASE ~reported /\ Cpu6811!move_stack
  <2>1. PICK v \in P6811!SP : v <= Top /\ P6811!SetSP(v)
    BY SameState, <1>1, Same6811Steps DEF Cpu6811!move_stack, Cpu6811!Stk!SP, P6811!SP
  <2>2. sp' = v /\ calls' = IF v > sp THEN P6811!Outlive(calls, v) ELSE calls
    BY SameState, <1>T, <2>1, P6811!Loading, StackAssumption
  <2>3. calls' = calls
    BY SameState, <1>0, <1>T, <2>1, <2>2, MoveCuts, StackAssumption DEF P6811!SP
  <2>4. P6811!IInv'
    <3>1. v \in P6811!UInt
      BY SameState, <2>1, StackAssumption DEF P6811!SP, P6811!UInt
    <3>2. P6811!Next
      BY SameState, <2>1, <3>1 DEF P6811!Next
    <3> QED BY SameState, <1>T, <3>2, P6811!NextIInv, StackAssumption
  <2>5. Stays /\ iflag' = iflag /\ resets' = resets
    BY SameState, <1>1, <2>1, <2>2, <2>3 DEF Stays, Cpu6811!move_stack, P6811!SetSP, Top
  <2> QED BY SameState, <1>1, <1>T, <2>4, <2>5 DEF Instruction, Shape, c
<1>2. CASE ~reported /\ Cpu6811!other_instr
  <2>1. P6811!IInv'
    BY SameState, <1>2, <1>T, P6811!NextIInv, StackAssumption DEF Cpu6811!other_instr, Cpu6811!stack_vars, P6811!vars
  <2>2. Stays /\ iflag' \in BOOLEAN /\ resets' = resets
    BY SameState, <1>0, <1>2, <1>T DEF Stays, Cpu6811!other_instr, Cpu6811!stack_vars, Top, Shape, P6811!IInv, P6811!Agree, P6811!Stack
  <2> QED BY SameState, <1>2, <2>1, <2>2 DEF Instruction, c
<1>3. CASE ~reported /\ Cpu6811!call
  <2>1. PICK a \in Addr : P6811!jsr_addr(a)
    BY SameState, <1>3, Same6811Steps DEF Cpu6811!call
  <2>2. /\ 2 <= sp /\ sp' = sp - 2 /\ Len(calls) < MaxCalls
        /\ calls' = Append(calls, [entry_point |-> a, stack_on_entry |-> sp - 2])
        /\ call_level' = (call_level + 1) % (UIntMax + 1)
    BY SameState, <1>0, <1>3, <1>T, <2>1, P6811!Entering, ShapeTyped, StackAssumption DEF Cpu6811!call, P6811!jsr_addr
  <2>3. Enters(2, "rts")
    <3>1. [by |-> "rts", iflag |-> FALSE] \in Return
      BY DEF Return
    <3> QED BY SameState, <1>3, <2>2, <3>1 DEF Enters, Cpu6811!call
  <2>4. P6811!IInv'
    BY SameState, <1>T, <2>1, P6811!NextIInv, StackAssumption DEF P6811!Next
  <2> QED BY SameState, <1>3, <1>T, <2>2, <2>3, <2>4 DEF Instruction, Cpu6811!call, Shape, c
<1>4. CASE ~reported /\ Cpu6811!interrupt
  <2>1. PICK a \in Addr : P6811!int_addr(a)
    BY SameState, <1>4, Same6811Steps DEF Cpu6811!interrupt
  <2>2. c <= sp
    BY SameState, <1>4, Same6811Functions DEF Cpu6811!interrupt, c
  <2>3. /\ sp' = sp - c /\ Len(calls) < MaxCalls
        /\ calls' = Append(calls, [entry_point |-> a, stack_on_entry |-> sp - c])
        /\ call_level' = call_level
    BY SameState, <1>T, <2>1, <2>2, P6811!Entering, StackAssumption DEF P6811!int_addr, c
  <2>4. Enters(c, "rti")
    <3>1. [by |-> "rti", iflag |-> iflag] \in Return
      BY SameState, <1>T DEF Return, Shape
    <3> QED BY SameState, <1>4, <2>2, <2>3, <3>1 DEF Enters, Cpu6811!interrupt
  <2>5. P6811!IInv'
    BY SameState, <1>T, <2>1, P6811!NextIInv, StackAssumption DEF P6811!Next
  <2> QED BY SameState, <1>4, <2>3, <2>4, <2>5 DEF Instruction, Cpu6811!interrupt, c
<1>5. CASE ~reported /\ Cpu6811!return_rts
  <2>1. P6811!rts_inh /\ ReturnsBy = "rts" /\ sp = Top /\ calls # <<>>
    BY SameState, <1>0, <1>5, <1>T, Same6811Steps, ShapeTyped DEF Cpu6811!return_rts, ReturnsBy
  <2>2. sp + 2 < SPSize /\ P6811!Outlive(calls, sp + 2) = WithoutLast(calls)
    BY SameState, <1>0, <1>T, <2>1, ReturnCuts DEF Bytes
  <2>3. sp' = sp + 2 /\ calls' = WithoutLast(calls)
    BY SameState, <1>T, <2>1, <2>2, P6811!Leaving, StackAssumption
  <2>4. P6811!IInv'
    BY SameState, <1>T, <2>1, P6811!NextIInv, StackAssumption DEF P6811!Next
  <2>5. Leaves(2, "rts")
    BY SameState, <1>0, <1>5, <1>T, <2>1, <2>3, ShapeTyped DEF Leaves, Cpu6811!return_rts, ReturnsBy
  <2> QED BY SameState, <1>5, <1>T, <2>1, <2>4, <2>5 DEF Instruction, Cpu6811!return_rts, P6811!rts_inh, Shape, c
<1>6. CASE ~reported /\ Cpu6811!return_rti
  <2>1. P6811!rti /\ ReturnsBy = "rti" /\ sp = Top /\ calls # <<>>
    BY SameState, <1>0, <1>6, <1>T, Same6811Steps, ShapeTyped DEF Cpu6811!return_rti, ReturnsBy
  <2>2. sp + c < SPSize /\ P6811!Outlive(calls, sp + c) = WithoutLast(calls)
    BY SameState, <1>0, <1>T, <2>1, ReturnCuts DEF Bytes
  <2>3. sp' = sp + c /\ calls' = WithoutLast(calls)
    BY SameState, <1>T, <2>1, <2>2, P6811!Leaving, StackAssumption DEF c
  <2>4. P6811!IInv'
    BY SameState, <1>T, <2>1, P6811!NextIInv, StackAssumption DEF P6811!Next
  <2>5. Leaves(c, "rti")
    BY SameState, <1>0, <1>6, <1>T, <2>1, <2>3, ShapeTyped DEF Leaves, Cpu6811!return_rti, ReturnsBy
  <2>6. iflag' \in BOOLEAN
    <3>1. returns[Len(returns)] \in Return
      BY SameState, <1>0, <1>T, <2>1, ShapeTyped
    <3> QED BY SameState, <1>6, <3>1 DEF Cpu6811!return_rti, Return
  <2> QED BY SameState, <1>6, <2>1, <2>4, <2>5, <2>6 DEF Instruction, Cpu6811!return_rti, P6811!rti, c
<1> QED BY SameState, <1>1, <1>2, <1>3, <1>4, <1>5, <1>6, ReportsAssumption, Zenon DEF Cpu6811!instr_exec

-----------------------------------------------------------------------------
(* The commands.                                                           *)

\* How many of the first k routines return with RTS: what call_level counts.
RtsAt(rs, k) == {i \in 1 .. k : rs[i].by = "rts"}
Rts(rs, k) == Cardinality(RtsAt(rs, k))
Active == Rts(returns, Len(returns))

\* Once an RTI has counted as a return, call_level is out of step with the calls.
OutOfStep(counted) == counted /\ rtis # 0

\* call_level is the routines that return with RTS, and those that resets cut off.
LevelOK(counted) ==
  \/ OutOfStep(counted)
  \/ Active <= call_level /\ call_level <= Active + resets * MaxCalls

\* "s": the routine it was typed in is still running, and what was called since was called
\* with the stack below ret_sp.
OverOK ==
  command = "s" =>
    /\ home <= Len(calls) /\ sp <= ret_sp
    /\ home > 0 => ret_sp <= calls[home].stack_on_entry
    /\ Len(calls) > home => calls[home + 1].stack_on_entry < ret_sp

\* "e": call_level has moved by what the calls since it started have.
OutOK(counted) ==
  command = "e" /\ typed_in = "rts" =>
    \/ OutOfStep(counted)
    \/ /\ 0 < home /\ home <= Len(calls) /\ returns[home].by = "rts"
       /\ call_level - Active = cl - Rts(returns, home)

CommandTyped ==
  /\ command \in {"idle", "s", "e"} /\ ret_sp \in P!SP /\ cl \in P!UInt
  /\ usr_int \in BOOLEAN
  /\ home \in 0 .. MaxCalls /\ typed_in \in {"main", "rts", "rti"}
  /\ rtis \in 0 .. MaxRtis /\ resets \in 0 .. MaxResets

CommandInv(counted) == CommandTyped /\ LevelOK(counted) /\ OverOK /\ OutOK(counted)

LEMMA RtsCounts ==
  ASSUME NEW rs, NEW k \in Nat
  PROVE  /\ Rts(rs, k) \in Nat /\ Rts(rs, k) <= k
         /\ Rts(rs, k + 1) = Rts(rs, k) + IF rs[k + 1].by = "rts" THEN 1 ELSE 0
         /\ \A m \in Nat : k <= m => Rts(rs, k) <= Rts(rs, m)
         /\ \A qs : (\A i \in 1 .. k : qs[i].by = rs[i].by) => Rts(qs, k) = Rts(rs, k)
<1>1. \A m \in Nat : IsFiniteSet(RtsAt(rs, m)) /\ Rts(rs, m) \in Nat /\ Rts(rs, m) <= m
  <2> SUFFICES ASSUME NEW m \in Nat
               PROVE  IsFiniteSet(RtsAt(rs, m)) /\ Rts(rs, m) \in Nat /\ Rts(rs, m) <= m
    OBVIOUS
  <2>1. RtsAt(rs, m) \subseteq 1 .. m
    BY DEF RtsAt
  <2>2. IsFiniteSet(1 .. m) /\ Cardinality(1 .. m) = m
    BY FS_Interval, SMT
  <2> QED BY <2>1, <2>2, FS_Subset, FS_CardinalityType DEF Rts
<1>2. Rts(rs, k + 1) = Rts(rs, k) + IF rs[k + 1].by = "rts" THEN 1 ELSE 0
  <2>1. CASE rs[k + 1].by = "rts"
    <3>1. RtsAt(rs, k + 1) = RtsAt(rs, k) \cup {k + 1} /\ k + 1 \notin RtsAt(rs, k)
      BY <2>1 DEF RtsAt
    <3> QED BY <1>1, <2>1, <3>1, FS_AddElement DEF Rts
  <2>2. CASE rs[k + 1].by # "rts"
    <3>1. RtsAt(rs, k + 1) = RtsAt(rs, k)
      BY <2>2 DEF RtsAt
    <3> QED BY <1>1, <2>2, <3>1 DEF Rts
  <2> QED BY <2>1, <2>2
<1>3. \A m \in Nat : k <= m => Rts(rs, k) <= Rts(rs, m)
  <2> SUFFICES ASSUME NEW m \in Nat, k <= m PROVE Rts(rs, k) <= Rts(rs, m)
    OBVIOUS
  <2>1. RtsAt(rs, k) \subseteq RtsAt(rs, m)
    BY DEF RtsAt
  <2> QED BY <1>1, <2>1, FS_Subset DEF Rts
<1>4. \A qs : (\A i \in 1 .. k : qs[i].by = rs[i].by) => RtsAt(qs, k) = RtsAt(rs, k)
  BY DEF RtsAt
<1> QED BY <1>1, <1>2, <1>3, <1>4 DEF Rts

\* What a call or an interrupt leaves of the program's shape.
LEMMA EnteredShape ==
  ASSUME NEW c \in Nat \ {0}, Shape(c), NEW by \in {"rts", "rti"},
         Enters(Bytes(c, by), by), P!IInv', iflag' \in BOOLEAN
  PROVE  /\ Shape(c)'
         /\ Len(calls') = Len(calls) + 1 /\ Len(returns') = Len(returns) + 1
         /\ \A i \in 1 .. Len(calls) : calls'[i] = calls[i] /\ returns'[i] = returns[i]
         /\ returns'[Len(returns) + 1].by = by
         /\ calls'[Len(calls) + 1].stack_on_entry = sp' /\ sp' < sp /\ Top' = sp'
<1> DEFINE n == Len(calls)
<1>0. Bytes(c, by) \in Nat \ {0}
  BY DEF Bytes
<1> DEFINE b == Bytes(c, by)
<1> HIDE DEF b
<1>1. PICK a \in Addr, r \in Return :
        /\ calls' = Append(calls, [entry_point |-> a, stack_on_entry |-> sp - b])
        /\ returns' = Append(returns, r) /\ r.by = by
  BY DEF Enters, b
<1>2. b <= sp /\ sp' = sp - b /\ n < MaxCalls /\ b \in Nat \ {0}
  BY <1>0 DEF Enters, b
<1> DEFINE f == [entry_point |-> a, stack_on_entry |-> sp - b]
<1>3. f \in P!Frame /\ f.stack_on_entry = sp - b
  <2>1. sp - b \in P!SP
    BY <1>2, ShapeTyped DEF P!SP
  <2> QED BY <2>1 DEF P!Frame
<1> HIDE DEF f
<1>4. /\ Len(calls') = n + 1 /\ calls'[n + 1] = f
      /\ \A i \in 1 .. n : calls'[i] = calls[i]
  BY <1>1, <1>3, ShapeTyped, AppendProperties DEF f
<1>5. /\ returns' \in Seq(Return) /\ Len(returns') = n + 1 /\ returns'[n + 1] = r
      /\ \A i \in 1 .. n : returns'[i] = returns[i]
  BY <1>1, ShapeTyped, AppendProperties
<1>6. n \in Nat
  BY ShapeTyped
<1>T. n = Len(calls)
  OBVIOUS
<1> HIDE DEF n
<1>7. Top' = sp' /\ sp' < sp
  BY <1>2, <1>3, <1>4, <1>6, ShapeTyped DEF Top
<1>8. Found(calls, n + 1) = Top
  BY <1>6, <1>T, ShapeTyped DEF Found, Top
<1>9. Spaced(calls', returns', c)
  <2> SUFFICES ASSUME NEW i \in 1 .. n + 1
               PROVE  calls'[i].stack_on_entry + Bytes(c, returns'[i].by) <= Found(calls', i)
    BY <1>4 DEF Spaced
  <2>1. Found(calls', i) = Found(calls, i)
    BY <1>4, <1>6 DEF Found
  <2>2. CASE i = n + 1
    <3>1. sp <= Top
      BY DEF Shape
    <3> QED BY <1>1, <1>2, <1>3, <1>4, <1>5, <1>8, <2>1, <2>2, <3>1, ShapeTyped DEF b
  <2>3. CASE i \in 1 .. n
    BY <1>4, <1>5, <1>T, <2>1, <2>3 DEF Shape, Spaced
  <2> QED BY <1>6, <2>2, <2>3
<1>10. sp' <= Top'
  BY <1>2, <1>7, ShapeTyped
<1>11. Len(calls') <= MaxCalls
  BY <1>2, <1>4, <1>6, StackAssumption
<1>12. Shape(c)'
  BY <1>4, <1>5, <1>9, <1>10, <1>11 DEF Shape
<1> QED BY <1>1, <1>2, <1>3, <1>4, <1>5, <1>7, <1>12, <1>T, ShapeTyped

\* And what a return leaves of it.
LEMMA LeftShape ==
  ASSUME NEW c \in Nat \ {0}, Shape(c), NEW by \in {"rts", "rti"},
         Leaves(Bytes(c, by), by), P!IInv', iflag' \in BOOLEAN
  PROVE  /\ Shape(c)'
         /\ Len(calls) \in Nat \ {0}
         /\ Len(calls') = Len(calls) - 1 /\ Len(returns') = Len(returns) - 1
         /\ \A i \in 1 .. Len(calls) - 1 : calls'[i] = calls[i] /\ returns'[i] = returns[i]
         /\ returns[Len(returns)].by = by
         /\ sp = calls[Len(calls)].stack_on_entry /\ sp < sp'
<1> DEFINE n == Len(calls)
           b == Bytes(c, by)
<1>1. /\ calls # <<>> /\ sp = Top /\ sp' = sp + b
      /\ calls' = WithoutLast(calls) /\ returns' = WithoutLast(returns)
      /\ returns[n].by = by /\ ReturnsBy = by
  BY ShapeTyped DEF Leaves, ReturnsBy
<1>2. /\ n \in Nat \ {0} /\ sp = calls[n].stack_on_entry /\ b \in Nat \ {0} /\ sp < sp'
      /\ b = Bytes(c, ReturnsBy)
  BY <1>1, ShapeTyped DEF Top, Bytes
<1> HIDE DEF b
<1>3. sp' <= Found(calls, n)
  BY <1>1, <1>2, ReturnCuts
<1>4. /\ Len(calls') = n - 1 /\ returns' \in Seq(Return) /\ Len(returns') = n - 1
      /\ \A i \in 1 .. n - 1 : calls'[i] = calls[i] /\ returns'[i] = returns[i]
  <2>1. n - 1 \in 0 .. n /\ n = Len(calls) /\ n = Len(returns) /\ n \in Nat
    BY <1>2, ShapeTyped
  <2>2. calls' = SubSeq(calls, 1, n - 1) /\ returns' = SubSeq(returns, 1, n - 1)
    BY <1>1, <2>1 DEF WithoutLast
  <2>3. calls \in Seq(P!Frame) /\ returns \in Seq(Return)
    BY ShapeTyped
  <2> HIDE DEF n
  <2> QED BY <2>1, <2>2, <2>3, SubSeqProperties
<1>T. n = Len(calls)
  OBVIOUS
<1> HIDE DEF n
<1>5. Top' = Found(calls, n)
  <2>1. calls' = <<>> <=> n = 1
    BY <1>2, <1>4
  <2> QED BY <1>2, <1>4, <2>1 DEF Top, Found
<1>6. Spaced(calls', returns', c)
  <2> SUFFICES ASSUME NEW i \in 1 .. n - 1
               PROVE  calls'[i].stack_on_entry + Bytes(c, returns'[i].by) <= Found(calls', i)
    BY <1>4 DEF Spaced
  <2>1. Found(calls', i) = Found(calls, i) /\ i \in 1 .. n
    BY <1>2, <1>4 DEF Found
  <2> QED BY <1>4, <1>T, <2>1 DEF Shape, Spaced
<1>7. Len(calls') <= MaxCalls /\ sp' <= Top'
  BY <1>2, <1>3, <1>4, <1>5, <1>T, StackAssumption DEF Shape
<1>8. Shape(c)'
  BY <1>4, <1>6, <1>7 DEF Shape
<1> QED BY <1>1, <1>2, <1>4, <1>8, <1>T, ShapeTyped

\* Every instruction keeps the program's shape.
LEMMA ShapeKept ==
  ASSUME NEW c \in Nat \ {0}, Shape(c), NEW counted \in BOOLEAN, NEW reported \in BOOLEAN,
         Instruction(c, counted, reported)
  PROVE  Shape(c)'
<1>0. P!IInv' /\ iflag' \in BOOLEAN /\ Bytes(c, "rts") = 2 /\ Bytes(c, "rti") = c
  BY DEF Instruction, Bytes
<1>1. CASE Stays
  BY <1>0, <1>1 DEF Shape, Stays, Top, Spaced, Found
<1>2. CASE \/ Enters(2, "rts") \/ Enters(c, "rti")
  BY <1>0, <1>2, EnteredShape
<1>3. CASE \/ Leaves(2, "rts") \/ Leaves(c, "rti")
  BY <1>0, <1>3, LeftShape
<1> QED BY <1>1, <1>2, <1>3 DEF Instruction

-----------------------------------------------------------------------------
(* What a command sees of an instruction.                                  *)

\* call_level, with the calls that resets cut off, does not wrap.
LEMMA ResetsFit ==
  ASSUME resets \in 0 .. MaxResets
  PROVE  /\ resets * MaxCalls \in Nat /\ MaxCalls \in Nat /\ UIntMax \in Nat /\ resets \in Nat
         /\ resets * MaxCalls + MaxCalls <= UIntMax
         /\ (resets + 1) * MaxCalls = resets * MaxCalls + MaxCalls
<1>1. resets \in Nat /\ MaxCalls \in Nat /\ MaxResets \in Nat /\ UIntMax \in Nat /\ resets <= MaxResets
  BY StackAssumption, MaxAssumption
<1>2. \A a, b, m \in Nat :
        a <= b => a * m \in Nat /\ a * m <= b * m /\ (a + 1) * m = a * m + m
              /\ (b + 1) * m = b * m + m
  OBVIOUS
<1>3. /\ resets * MaxCalls \in Nat /\ MaxResets * MaxCalls \in Nat
      /\ resets * MaxCalls <= MaxResets * MaxCalls
      /\ (resets + 1) * MaxCalls = resets * MaxCalls + MaxCalls
      /\ (MaxResets + 1) * MaxCalls = MaxResets * MaxCalls + MaxCalls
  BY <1>1, <1>2
<1> QED BY <1>1, <1>3, LevelAssumption

\* Until an RTI counts as a return, call_level moves with the calls.
LEMMA LevelMoves ==
  ASSUME NEW c \in Nat \ {0}, Shape(c), CommandTyped, NEW counted \in BOOLEAN, LevelOK(counted),
         NEW reported \in BOOLEAN, Instruction(c, counted, reported)
  PROVE  /\ LevelOK(counted)' /\ rtis' \in 0 .. MaxRtis
         /\ ~OutOfStep(counted)' => ~OutOfStep(counted) /\ call_level' - Active' = call_level - Active
<1> DEFINE n == Len(calls)
<1>1. /\ n \in Nat /\ n = Len(returns) /\ call_level \in 0 .. UIntMax /\ UIntMax \in Nat
      /\ Active \in Nat /\ Active <= n
  BY RtsCounts, ShapeTyped, StackAssumption DEF Active
<1>2. resets \in 0 .. MaxResets /\ resets' = resets /\ rtis \in 0 .. MaxRtis /\ MaxRtis \in Nat
  BY MaxAssumption DEF CommandTyped, Instruction
<1> DEFINE p == resets * MaxCalls
<1>R. p \in Nat /\ MaxCalls \in Nat /\ p + MaxCalls <= UIntMax
  BY <1>2, ResetsFit
<1>L. LevelOK(counted)' <=> OutOfStep(counted)' \/ (Active' <= call_level' /\ call_level' <= Active' + p)
  BY <1>2 DEF LevelOK
<1>3. ASSUME ~OutOfStep(counted) PROVE Active <= call_level /\ call_level <= Active + p
  BY <1>3 DEF LevelOK
<1> HIDE DEF p
<1>4. CASE Stays
  <2>1. rtis' = rtis /\ call_level' = call_level /\ Active' = Active
    BY <1>4 DEF Stays, Active
  <2>T. OutOfStep(counted)' <=> OutOfStep(counted)
    BY <2>1 DEF OutOfStep
  <2> QED BY <1>1, <1>2, <2>1 DEF LevelOK, OutOfStep, Active
<1>5. CASE /\ Enters(2, "rts") /\ rtis' = rtis
           /\ call_level' = (call_level + 1) % (UIntMax + 1)
  <2>1. /\ Len(returns') = n + 1 /\ returns'[n + 1].by = "rts"
        /\ \A i \in 1 .. n : returns'[i] = returns[i]
    BY <1>1, <1>5, EnteredShape DEF Bytes, Instruction
  <2>2. n < MaxCalls
    BY <1>5 DEF Enters
  <2>T. OutOfStep(counted)' <=> OutOfStep(counted)
    BY <1>5 DEF OutOfStep
  <2> HIDE DEF n
  <2>3. Active' = Active + 1
    <3>1. Rts(returns', n) = Rts(returns, n) /\ Rts(returns', n + 1) = Rts(returns', n) + 1
      BY <1>1, <2>1, RtsCounts
    <3> QED BY <1>1, <2>1, <3>1 DEF Active
  <2>4. ASSUME ~OutOfStep(counted) PROVE call_level' = call_level + 1
    <3>1. call_level + 1 \in 0 .. UIntMax
      BY <1>1, <1>2, <1>3, <2>2, <2>4, <1>R
    <3>2. \A q, x \in Nat : x <= q => x % (q + 1) = x
      OBVIOUS
    <3> QED BY <1>1, <1>5, <3>1, <3>2
  <2>5. CASE OutOfStep(counted)
    BY <1>2, <1>5, <1>L, <2>5, <2>T
  <2>6. CASE ~OutOfStep(counted)
    <3>1. Active <= call_level /\ call_level <= Active + p
      BY <1>3, <2>6
    <3>2. call_level' = call_level + 1
      BY <2>4, <2>6
    <3>3. call_level' - Active' = call_level - Active /\ Active' <= call_level' /\ call_level' <= Active' + p
      BY <1>1, <1>R, <2>3, <3>1, <3>2
    <3> QED BY <1>2, <1>5, <1>L, <2>6, <2>T, <3>3
  <2> QED BY <2>5, <2>6
<1>6. CASE Enters(c, "rti") /\ UNCHANGED <<call_level, rtis>>
  <2>1. /\ Len(returns') = n + 1 /\ returns'[n + 1].by = "rti"
        /\ \A i \in 1 .. n : returns'[i] = returns[i]
    BY <1>1, <1>6, EnteredShape DEF Bytes, Instruction
  <2>T. OutOfStep(counted)' <=> OutOfStep(counted)
    BY <1>6 DEF OutOfStep
  <2> HIDE DEF n
  <2>2. Active' = Active
    <3>1. /\ Rts(returns', n) = Rts(returns, n) /\ Rts(returns, n) \in Nat
          /\ Rts(returns', n + 1) = Rts(returns', n) + IF returns'[n + 1].by = "rts" THEN 1 ELSE 0
      <4>1. \A i \in 1 .. n : returns'[i].by = returns[i].by
        BY <2>1
      <4> QED BY <1>1, <4>1, RtsCounts
    <3> QED BY <1>1, <2>1, <3>1 DEF Active
  <2> QED BY <1>1, <1>2, <1>3, <1>6, <2>2, <2>T, <1>R, <1>L
<1>7. ASSUME NEW by \in {"rts", "rti"}, Leaves(Bytes(c, by), by)
      PROVE  /\ Active' = Active - (IF by = "rts" THEN 1 ELSE 0)
             /\ Active - (IF by = "rts" THEN 1 ELSE 0) \in Nat
  <2>1. /\ Len(returns') = n - 1 /\ n \in Nat \ {0} /\ returns[n].by = by
        /\ \A i \in 1 .. n - 1 : returns'[i] = returns[i]
    BY <1>1, <1>7, LeftShape DEF Instruction
  <2> HIDE DEF n
  <2>2. n - 1 \in Nat /\ (n - 1) + 1 = n
    BY <2>1
  <2>3. /\ Rts(returns', n - 1) = Rts(returns, n - 1) /\ Rts(returns', n - 1) \in Nat
        /\ Rts(returns, n) = Rts(returns, n - 1) + (IF by = "rts" THEN 1 ELSE 0)
    BY <2>1, <2>2, RtsCounts
  <2> QED BY <1>1, <2>1, <2>3 DEF Active
<1>8. CASE Leaves(2, "rts") /\ rtis' = rtis /\ call_level' = P!Decremented(call_level)
  <2>1. Active' = Active - 1 /\ Active - 1 \in Nat
    BY <1>7, <1>8 DEF Bytes
  <2>2. ~OutOfStep(counted) => call_level' = call_level - 1
    <3> SUFFICES ASSUME ~OutOfStep(counted) PROVE call_level' = call_level - 1
      OBVIOUS
    <3>1. Active <= call_level
      BY <1>3
    <3>2. call_level # 0 /\ call_level \in Nat
      BY <1>1, <2>1, <3>1
    <3> QED BY <1>8, <3>2 DEF P!Decremented
  <2>T. OutOfStep(counted)' <=> OutOfStep(counted)
    BY <1>8 DEF OutOfStep
  <2>5. CASE OutOfStep(counted)
    BY <1>2, <1>8, <1>L, <2>5, <2>T
  <2>6. CASE ~OutOfStep(counted)
    <3>1. Active <= call_level /\ call_level <= Active + p
      BY <1>3, <2>6
    <3>2. call_level' = call_level - 1
      BY <2>2, <2>6
    <3>3. call_level' - Active' = call_level - Active /\ Active' <= call_level' /\ call_level' <= Active' + p
      BY <1>1, <1>R, <2>1, <3>1, <3>2
    <3> QED BY <1>2, <1>8, <1>L, <2>6, <2>T, <3>3
  <2> QED BY <2>5, <2>6
<1>9. CASE /\ Leaves(c, "rti") /\ rtis' = rtis + 1 /\ rtis < MaxRtis
           /\ call_level' = IF counted THEN P!Decremented(call_level) ELSE call_level
  <2>1. Active' = Active
    BY <1>1, <1>7, <1>9 DEF Bytes
  <2>2. rtis' \in 0 .. MaxRtis /\ (OutOfStep(counted)' <=> counted)
    BY <1>2, <1>9 DEF OutOfStep
  <2> QED BY <1>1, <1>2, <1>3, <1>9, <2>1, <2>2, <1>R, <1>L DEF OutOfStep
<1> QED BY <1>4, <1>5, <1>6, <1>8, <1>9 DEF Instruction

\* "s": the stack pointer decides whether a routine called since is running.
LEMMA OverDecides ==
  ASSUME NEW c \in Nat \ {0}, Shape(c), CommandTyped, OverOK, command = "s",
         NEW counted \in BOOLEAN, NEW reported \in BOOLEAN, Instruction(c, counted, reported)
  PROVE  /\ sp' < ret_sp =>
              /\ home <= Len(calls') /\ sp' <= ret_sp
              /\ home > 0 => ret_sp <= calls'[home].stack_on_entry
         /\ Len(calls') > home => calls'[home + 1].stack_on_entry < ret_sp
         /\ sp' >= ret_sp => Len(calls') <= home
<1> DEFINE n == Len(calls)
<1>1. /\ n \in Nat /\ home \in Nat /\ ret_sp \in Nat /\ sp \in Nat /\ sp' \in Nat
      /\ Len(calls') \in Nat
      /\ \A i \in 1 .. Len(calls') : calls'[i].stack_on_entry >= sp'
      /\ \A i \in 1 .. Len(calls') : calls'[i].stack_on_entry \in Nat
  <2>1. /\ sp' \in P!SP /\ calls' \in Seq(P!Frame)
        /\ \A i \in 1 .. Len(calls') : calls'[i].stack_on_entry >= sp'
    BY DEF Instruction, P!IInv, P!Agree, P!Stack
  <2>2. \A i \in 1 .. Len(calls') : calls'[i] \in P!Frame
    BY <2>1
  <2>3. \A i \in 1 .. Len(calls') : calls'[i].stack_on_entry \in Nat
    BY <2>2, StackAssumption DEF P!Frame, P!SP
  <2> QED BY <2>1, <2>3, ShapeTyped, StackAssumption DEF CommandTyped, P!SP
<1>2. /\ home <= n /\ sp <= ret_sp
      /\ home > 0 => ret_sp <= calls[home].stack_on_entry
      /\ n > home => calls[home + 1].stack_on_entry < ret_sp
  BY DEF OverOK
<1>3. CASE calls' = calls
  <2>1. n > home => home + 1 \in 1 .. n
    BY <1>1
  <2> HIDE DEF n
  <2>2. n > home => calls[home + 1].stack_on_entry >= sp' /\ calls[home + 1].stack_on_entry \in Nat
    BY <1>1, <1>3, <2>1 DEF n
  <2>3. Len(calls') = n
    BY <1>3 DEF n
  <2> QED BY <1>1, <1>2, <1>3, <2>2, <2>3
<1>4. CASE Enters(2, "rts") \/ Enters(c, "rti")
  <2>1. /\ Len(calls') = n + 1 /\ sp' < sp /\ calls'[n + 1].stack_on_entry = sp'
        /\ \A i \in 1 .. n : calls'[i] = calls[i]
    BY <1>4, EnteredShape DEF Bytes, Instruction
  <2>2. sp' < ret_sp
    BY <1>1, <1>2, <2>1
  <2> HIDE DEF n
  <2>3. CASE home = n
    BY <1>1, <1>2, <2>1, <2>2, <2>3
  <2>4. CASE home < n
    <3>1. home + 1 \in 1 .. n /\ (home > 0 => home \in 1 .. n)
      BY <1>1, <2>4
    <3> QED BY <1>1, <1>2, <2>1, <2>2, <2>4, <3>1
  <2> QED BY <1>1, <1>2, <2>3, <2>4
<1>5. CASE Leaves(2, "rts") \/ Leaves(c, "rti")
  <2>1. /\ n \in Nat \ {0} /\ Len(calls') = n - 1 /\ sp = calls[n].stack_on_entry /\ sp < sp'
        /\ \A i \in 1 .. n - 1 : calls'[i] = calls[i]
    BY <1>5, LeftShape DEF Bytes, Instruction
  <2> HIDE DEF n
  <2>2. CASE home = n
    BY <1>1, <1>2, <2>1, <2>2
  <2>3. CASE home < n
    <3>1. /\ home + 1 < n => home + 1 \in 1 .. n - 1
          /\ home > 0 => home \in 1 .. n - 1
      BY <1>1, <2>1, <2>3
    <3>2. Len(calls') > home => home + 1 < n /\ home + 1 \in 1 .. Len(calls')
      BY <1>1, <2>1, <2>3
    <3> QED BY <1>1, <1>2, <2>1, <2>3, <3>1, <3>2
  <2> QED BY <1>1, <1>2, <2>2, <2>3
<1> QED BY <1>3, <1>4, <1>5 DEF Instruction, Stays

\* "e": call_level decides whether the routine it was typed in is running.
LEMMA OutDecides ==
  ASSUME NEW c \in Nat \ {0}, Shape(c), CommandTyped, NEW counted \in BOOLEAN,
         LevelOK(counted), OutOK(counted), command = "e", typed_in = "rts",
         NEW reported \in BOOLEAN, Instruction(c, counted, reported), ~OutOfStep(counted)'
  PROVE  /\ call_level' >= cl <=> Len(calls') >= home
         /\ 0 < home
         /\ call_level' >= cl => /\ home <= Len(calls') /\ returns'[home].by = "rts"
                                 /\ call_level' - Active' = cl - Rts(returns', home)
<1> DEFINE n == Len(calls)
           m == Len(calls')
<1>1. /\ ~OutOfStep(counted) /\ call_level' - Active' = call_level - Active
      /\ call_level \in Nat /\ call_level' \in Nat /\ cl \in Nat
  BY LevelMoves, ShapeTyped, StackAssumption DEF CommandTyped, Instruction, P!IInv, P!UInt
<1>2. /\ 0 < home /\ home <= n /\ returns[home].by = "rts"
      /\ call_level - Active = cl - Rts(returns, home)
  BY <1>1 DEF OutOK
<1>3. n \in Nat /\ home \in Nat /\ n = Len(returns) /\ home \in 1 .. n
  BY <1>2, ShapeTyped DEF CommandTyped
<1>4. /\ m \in Nat /\ m = Len(returns') /\ m >= home - 1
      /\ \A i \in 1 .. m : i <= n => returns'[i] = returns[i]
  <2>1. CASE Stays
    BY <1>3, <2>1 DEF Stays
  <2>2. CASE Enters(2, "rts") \/ Enters(c, "rti")
    <3>1. /\ m = n + 1 /\ Len(returns') = n + 1
          /\ \A i \in 1 .. n : returns'[i] = returns[i]
      BY <1>3, <2>2, EnteredShape DEF Bytes, Instruction
    <3> HIDE DEF n, m
    <3> QED BY <1>3, <3>1
  <2>3. CASE Leaves(2, "rts") \/ Leaves(c, "rti")
    <3>1. /\ n \in Nat \ {0} /\ m = n - 1 /\ Len(returns') = n - 1
          /\ \A i \in 1 .. n - 1 : returns'[i] = returns[i]
      BY <1>3, <2>3, LeftShape DEF Bytes, Instruction
    <3> HIDE DEF n, m
    <3> QED BY <1>3, <3>1
  <2> QED BY <2>1, <2>2, <2>3 DEF Instruction
<1>M. m = Len(calls')
  OBVIOUS
<1> HIDE DEF n, m
<1>5. Active' = Rts(returns', m) /\ Active' \in Nat /\ Active \in Nat /\ Active = Rts(returns, n)
  BY <1>3, <1>4, RtsCounts DEF Active
<1>6. Rts(returns, home) \in Nat
  BY <1>3, RtsCounts
<1>7. CASE m >= home
  <2>1. \A i \in 1 .. home : returns'[i] = returns[i] /\ returns'[i].by = returns[i].by
    BY <1>3, <1>4, <1>7
  <2>2. Rts(returns', home) = Rts(returns, home)
    BY <1>3, <2>1, RtsCounts
  <2>3. Rts(returns', home) <= Rts(returns', m)
    BY <1>3, <1>4, <1>7, RtsCounts
  <2>4. call_level' - Active' = cl - Rts(returns', home)
    BY <1>1, <1>2, <2>2
  <2>5. call_level' >= cl
    BY <1>1, <1>5, <1>6, <2>2, <2>3, <2>4
  <2> QED BY <1>2, <1>3, <1>7, <1>M, <2>1, <2>4, <2>5
<1>8. CASE ~(m >= home)
  <2>1. m = home - 1 /\ m \in Nat /\ m + 1 = home
    BY <1>3, <1>4, <1>8
  <2>2. \A i \in 1 .. m : returns'[i].by = returns[i].by
    BY <1>3, <1>4, <2>1
  <2>3. Rts(returns', m) = Rts(returns, m) /\ Rts(returns, m) \in Nat
    BY <2>1, <2>2, RtsCounts
  <2>4. Rts(returns, home) = Rts(returns, m) + 1
    BY <1>2, <2>1, RtsCounts
  <2>5. ~(call_level' >= cl)
    BY <1>1, <1>2, <1>5, <2>3, <2>4
  <2> QED BY <1>2, <1>8, <1>M, <2>5
<1> QED BY <1>7, <1>8

-----------------------------------------------------------------------------
(* The commands keep the invariant, and stop where they should.            *)

\* What a loop does after the instruction.
Turned(reported) ==
  IF \/ command = "s" /\ step_over_goes_on(reported)
     \/ command = "e" /\ step_out_goes_on(reported)
  THEN UNCHANGED <<command_vars, usr_int>>
  ELSE /\ command' = "idle" /\ ret_sp' = 0 /\ cl' = 0
       /\ home' = 0 /\ typed_in' = "main" /\ usr_int' = FALSE

Reset ==
  /\ command = "idle" /\ resets < MaxResets /\ resets' = resets + 1
  /\ sp' = SPSize - 1 /\ calls' = <<>> /\ returns' = <<>>
  /\ P!IInv' /\ iflag' \in BOOLEAN
  /\ UNCHANGED <<call_level, command_vars, usr_int, rtis>>

\* StepOverStopsAction and StepOutStopsAction, for any CPU.
OverStops(reports) ==
  command = "s" /\ ~usr_int /\ ~(reports /\ InterruptEntered) =>
    /\ command' = "idle" => Len(calls') <= home
    /\ command' = "s" => Len(calls') >= home

OutStops(counted) ==
  command = "e" /\ typed_in = "rts" /\ (counted => rtis' = 0) =>
    (command' = "idle" <=> usr_int \/ Len(calls') < home)

LEMMA ShapeUnchanged ==
  ASSUME NEW c \in Nat \ {0}, Shape(c), UNCHANGED program_vars
  PROVE  Shape(c)' /\ Active' = Active
BY DEF Shape, program_vars, stack_vars, P!IInv, P!Agree, P!Stack, Top, Spaced, Found, Active

LEMMA TurnKeeps ==
  ASSUME NEW c \in Nat \ {0}, Shape(c), NEW counted \in BOOLEAN, CommandInv(counted),
         command # "idle", NEW reported \in BOOLEAN, NEW reports \in BOOLEAN, reported => reports,
         Instruction(c, counted, reported), Turned(reported)
  PROVE  Shape(c)' /\ CommandInv(counted)' /\ OverStops(reports) /\ OutStops(counted)
<1> USE DEF CommandInv
<1>1. Shape(c)' /\ LevelOK(counted)' /\ rtis' \in 0 .. MaxRtis
      /\ resets' = resets /\ CommandTyped
  BY ShapeKept, LevelMoves DEF Instruction
<1>2. /\ sp' \in Nat /\ ret_sp \in Nat /\ Len(calls') \in Nat /\ home \in Nat
      /\ call_level' \in Nat /\ cl \in Nat
  <2>1. sp' \in P!SP /\ calls' \in Seq(P!Frame) /\ call_level' \in P!UInt
    BY DEF Instruction, P!IInv, P!Agree, P!Stack
  <2> QED BY <1>1, <2>1, StackAssumption DEF CommandTyped, P!SP, P!UInt
<1>3. reported => InterruptEntered
  <2> SUFFICES ASSUME reported PROVE InterruptEntered
    OBVIOUS
  <2>1. Enters(c, "rti")
    BY DEF Instruction
  <2>2. /\ Len(calls') = Len(calls) + 1 /\ Len(returns') = Len(returns) + 1
        /\ returns'[Len(returns) + 1].by = "rti"
    BY <2>1, EnteredShape DEF Bytes, Instruction
  <2> QED BY <2>2, ShapeTyped DEF InterruptEntered
<1>4. CASE command = "s" /\ step_over_goes_on(reported)
  <2>1. sp' < ret_sp /\ UNCHANGED <<command_vars, usr_int>>
    BY <1>4 DEF step_over_goes_on, Turned
  <2>2. /\ home <= Len(calls') /\ sp' <= ret_sp
        /\ home > 0 => ret_sp <= calls'[home].stack_on_entry
        /\ Len(calls') > home => calls'[home + 1].stack_on_entry < ret_sp
    BY <1>1, <1>4, <2>1, OverDecides
  <2>3. OverOK'
    BY <2>1, <2>2 DEF OverOK, command_vars
  <2>4. CommandTyped' /\ OutOK(counted)'
    BY <1>1, <1>4, <2>1 DEF CommandTyped, OutOK, command_vars
  <2>5. OverStops(reports) /\ OutStops(counted)
    BY <1>2, <1>4, <2>1, <2>2 DEF OverStops, OutStops, command_vars
  <2> QED BY <1>1, <2>3, <2>4, <2>5
<1>5. CASE command = "e" /\ step_out_goes_on(reported)
  <2>1. call_level' >= cl /\ ~usr_int /\ UNCHANGED <<command_vars, usr_int>>
    BY <1>5 DEF step_out_goes_on, Turned
  <2>2. ASSUME typed_in = "rts", ~OutOfStep(counted)'
        PROVE  /\ Len(calls') >= home
               /\ 0 < home /\ home <= Len(calls') /\ returns'[home].by = "rts"
               /\ call_level' - Active' = cl - Rts(returns', home)
    BY <1>1, <1>5, <2>1, <2>2, OutDecides
  <2>3. OutOK(counted)'
    BY <2>1, <2>2 DEF OutOK, command_vars
  <2>4. CommandTyped' /\ OverOK'
    BY <1>1, <1>5, <2>1 DEF CommandTyped, OverOK, command_vars
  <2>5. OverStops(reports)
    BY <1>5 DEF OverStops
  <2>6. OutStops(counted)
    <3> SUFFICES ASSUME typed_in = "rts", counted => rtis' = 0
                 PROVE  command' = "idle" <=> usr_int \/ Len(calls') < home
      BY DEF OutStops
    <3>1. Len(calls') >= home
      BY <2>2 DEF OutOfStep
    <3> QED BY <1>2, <1>5, <2>1, <3>1 DEF command_vars
  <2> QED BY <1>1, <2>3, <2>4, <2>5, <2>6
<1>6. CASE ~(\/ command = "s" /\ step_over_goes_on(reported)
             \/ command = "e" /\ step_out_goes_on(reported))
  <2>1. /\ command' = "idle" /\ ret_sp' = 0 /\ cl' = 0
        /\ home' = 0 /\ typed_in' = "main" /\ usr_int' = FALSE
    BY <1>6 DEF Turned
  <2>2. CommandTyped' /\ OverOK' /\ OutOK(counted)'
    <3>1. 0 \in P!SP /\ 0 \in P!UInt /\ 0 \in 0 .. MaxCalls
      BY StackAssumption DEF P!SP, P!UInt
    <3>2. CommandTyped'
      BY <1>1, <2>1, <3>1 DEF CommandTyped, P!SP, P!UInt
    <3> QED BY <2>1, <3>2 DEF OverOK, OutOK
  <2>3. OverStops(reports)
    <3> SUFFICES ASSUME command = "s", ~usr_int, ~(reports /\ InterruptEntered)
                 PROVE  Len(calls') <= home
      BY <2>1 DEF OverStops
    <3>1. ~reported
      BY <1>3
    <3>2. sp' >= ret_sp
      BY <1>2, <1>6, <3>1 DEF step_over_goes_on
    <3> QED BY <1>1, <3>2, OverDecides
  <2>4. OutStops(counted)
    <3> SUFFICES ASSUME command = "e", typed_in = "rts", counted => rtis' = 0, ~usr_int
                 PROVE  Len(calls') < home
      BY <2>1 DEF OutStops
    <3>1. ~(call_level' >= cl)
      BY <1>6 DEF step_out_goes_on
    <3>2. call_level' >= cl <=> Len(calls') >= home
      BY <1>1, OutDecides DEF OutOfStep
    <3> QED BY <1>2, <3>1, <3>2
  <2> QED BY <1>1, <2>2, <2>3, <2>4
<1> QED BY <1>4, <1>5, <1>6

LEMMA GoKeeps ==
  ASSUME NEW c \in Nat \ {0}, Shape(c), NEW counted \in BOOLEAN, CommandInv(counted),
         command = "idle", NEW reported \in BOOLEAN, Instruction(c, counted, reported),
         usr_int' \in {usr_int, FALSE}, UNCHANGED command_vars
  PROVE  Shape(c)' /\ CommandInv(counted)'
<1>1. Shape(c)' /\ LevelOK(counted)' /\ rtis' \in 0 .. MaxRtis /\ resets' = resets
  BY ShapeKept, LevelMoves DEF Instruction, CommandInv
<1> QED BY <1>1 DEF CommandInv, CommandTyped, OverOK, OutOK, command_vars

LEMMA ResetKeeps ==
  ASSUME NEW c \in Nat \ {0}, Shape(c), NEW counted \in BOOLEAN, CommandInv(counted), Reset
  PROVE  Shape(c)' /\ CommandInv(counted)'
<1>1. Shape(c)'
  BY StackAssumption DEF Reset, Shape, Top, Spaced
<1>2. /\ resets \in 0 .. MaxResets /\ resets' = resets + 1 /\ resets' \in 0 .. MaxResets
      /\ call_level' = call_level /\ rtis' = rtis
  BY MaxAssumption DEF Reset, CommandInv, CommandTyped
<1>3. Active' = 0
  <2>1. Active' = Rts(<<>>, 0)
    BY DEF Reset, Active
  <2> QED BY <2>1, RtsCounts
<1>4. LevelOK(counted)'
  <2> SUFFICES ASSUME ~OutOfStep(counted)'
               PROVE  Active' <= call_level' /\ call_level' <= Active' + resets' * MaxCalls
    BY DEF LevelOK
  <2> DEFINE p == resets * MaxCalls
  <2>1. p \in Nat /\ MaxCalls \in Nat /\ resets' * MaxCalls = p + MaxCalls
    BY <1>2, ResetsFit
  <2>2. Active <= call_level /\ call_level <= Active + p
    BY <1>2 DEF LevelOK, OutOfStep, CommandInv
  <2>3. Active \in Nat /\ Active <= MaxCalls /\ call_level \in Nat
    <3>1. Len(returns) \in Nat /\ Len(returns) <= MaxCalls /\ call_level \in 0 .. UIntMax
      BY ShapeTyped DEF Shape
    <3>2. Active \in Nat /\ Active <= Len(returns)
      BY <3>1, RtsCounts DEF Active
    <3> QED BY <3>1, <3>2, StackAssumption
  <2> HIDE DEF p
  <2> QED BY <1>2, <1>3, <2>1, <2>2, <2>3
<1>5. CommandTyped' /\ OverOK' /\ OutOK(counted)'
  BY <1>2 DEF Reset, CommandInv, CommandTyped, OverOK, OutOK, command_vars
<1> QED BY <1>1, <1>4, <1>5 DEF CommandInv

\* Commands are typed, and Ctrl-C.
LEMMA TypedKeeps ==
  ASSUME NEW c \in Nat \ {0}, Shape(c), NEW counted \in BOOLEAN, CommandInv(counted),
         step_over \/ step_out \/ sig_int_handler \/ UNCHANGED vars
  PROVE  /\ Shape(c)' /\ CommandInv(counted)'
         /\ \A reports \in BOOLEAN : UNCHANGED vars \/ (OverStops(reports) /\ OutStops(counted))
<1> USE DEF CommandInv
<1>1. UNCHANGED program_vars
  BY DEF step_over, step_out, sig_int_handler, vars
<1>2. Shape(c)' /\ Active' = Active
  BY <1>1, ShapeUnchanged
<1>3. /\ call_level' = call_level /\ rtis' = rtis /\ resets' = resets /\ sp' = sp
      /\ calls' = calls /\ returns' = returns
  BY <1>1 DEF program_vars, stack_vars
<1>4. LevelOK(counted)'
  BY <1>2, <1>3 DEF LevelOK, OutOfStep
<1>5. Len(calls) \in 0 .. MaxCalls /\ ReturnsBy \in {"main", "rts", "rti"}
  <2>1. /\ Len(calls) \in Nat /\ Len(calls) <= MaxCalls /\ Len(returns) = Len(calls)
        /\ returns \in Seq(Return)
    BY ShapeTyped DEF Shape
  <2>2. returns # <<>> => returns[Len(returns)] \in Return
    BY <2>1
  <2>3. \A r \in Return : r.by \in {"main", "rts", "rti"}
    BY DEF Return
  <2>4. ReturnsBy \in {"main", "rts", "rti"}
    BY <2>2, <2>3 DEF ReturnsBy
  <2> QED BY <2>1, <2>4, StackAssumption
<1>6. CASE step_over
  <2>1. /\ command = "idle" /\ command' = "s" /\ ret_sp' = sp /\ home' = Len(calls)
        /\ typed_in' = ReturnsBy /\ cl' = cl /\ usr_int' = usr_int
    BY <1>6 DEF step_over
  <2>2. CommandTyped'
    BY <1>3, <1>5, <2>1 DEF CommandTyped, Shape, P!IInv, P!Agree, P!Stack
  <2>3. OverOK'
    <3>1. home' > 0 => home' \in 1 .. Len(calls)
      BY <1>5, <2>1
    <3> QED BY <1>3, <1>5, <2>1, <3>1, ShapeTyped DEF OverOK
  <2> QED BY <1>2, <1>4, <2>1, <2>2, <2>3 DEF OutOK, OverStops, OutStops
<1>7. CASE step_out
  <2>1. /\ command = "idle" /\ command' = "e" /\ cl' = call_level /\ home' = Len(calls)
        /\ typed_in' = ReturnsBy /\ ret_sp' = ret_sp /\ usr_int' = usr_int
    BY <1>7 DEF step_out
  <2>2. CommandTyped'
    BY <1>3, <1>5, <2>1 DEF CommandTyped, Shape, P!IInv
  <2>3. OutOK(counted)'
    <3> SUFFICES ASSUME ReturnsBy = "rts"
                 PROVE  /\ 0 < home' /\ home' <= Len(calls') /\ returns'[home'].by = "rts"
                        /\ call_level' - Active' = cl' - Rts(returns', home')
      BY <2>1 DEF OutOK
    <3>1. Len(returns) = Len(calls) /\ returns # <<>> /\ returns[Len(returns)].by = "rts"
      BY ShapeTyped DEF ReturnsBy
    <3>2. 0 < Len(returns)
      BY <3>1, ShapeTyped
    <3> QED BY <1>2, <1>3, <1>5, <2>1, <3>1, <3>2 DEF Active
  <2> QED BY <1>2, <1>4, <2>1, <2>2, <2>3 DEF OverOK, OverStops, OutStops
<1>8. CASE sig_int_handler
  <2>1. UNCHANGED command_vars /\ usr_int' = TRUE
    BY <1>8 DEF sig_int_handler
  <2>2. CommandTyped' /\ OverOK' /\ OutOK(counted)'
    BY <1>2, <1>3, <2>1 DEF CommandTyped, OverOK, OutOK, OutOfStep, command_vars
  <2>3. ASSUME NEW reports \in BOOLEAN, ~UNCHANGED vars
        PROVE  OverStops(reports) /\ OutStops(counted)
    <3>1. usr_int = FALSE
      BY <1>1, <2>1, <2>3 DEF vars, CommandTyped
    <3>2. OverStops(reports)
      BY <1>3, <1>5, <2>1 DEF OverStops, OverOK, CommandTyped, command_vars
    <3>3. OutStops(counted)
      BY <1>3, <1>5, <2>1, <3>1 DEF OutStops, OutOK, OutOfStep, CommandTyped, command_vars
    <3> QED BY <3>2, <3>3
  <2> QED BY <1>2, <1>4, <2>2, <2>3
<1>9. CASE UNCHANGED vars
  <2>1. UNCHANGED command_vars /\ usr_int' = usr_int
    BY <1>9 DEF vars
  <2>2. CommandTyped' /\ OverOK' /\ OutOK(counted)'
    BY <1>2, <1>3, <2>1 DEF CommandTyped, OverOK, OutOK, OutOfStep, command_vars
  <2> QED BY <1>2, <1>4, <1>9, <2>2
<1> QED BY <1>6, <1>7, <1>8, <1>9

-----------------------------------------------------------------------------
(* The two CPUs.                                                           *)

Kept(c, counted) == Shape(c) /\ CommandInv(counted)

LEMMA ResetOf ==
  ASSUME NEW c \in Nat \ {0}, Shape(c)
  PROVE  /\ reset => Reset
         /\ Cpu6811!reset => Reset
<1>1. SPSize - 1 \in P!SP /\ SPSize - 1 \in P!UInt /\ SPSize - 1 \in Nat
  BY StackAssumption DEF P!SP, P!UInt
<1>2. ASSUME P!SetSP(SPSize - 1) PROVE sp' = SPSize - 1 /\ calls' = <<>> /\ P!IInv'
                                       /\ call_level' = call_level
  <2>1. /\ sp' = SPSize - 1
        /\ calls' = IF SPSize - 1 > sp THEN P!Outlive(calls, SPSize - 1) ELSE calls
    BY <1>1, <1>2, P!Loading, StackAssumption DEF Shape
  <2>2. calls' = <<>>
    <3>1. sp \in Nat /\ sp < SPSize /\ SPSize \in Nat
      BY ShapeTyped
    <3>2. SPSize - 1 > sp \/ sp = SPSize - 1
      BY <3>1
    <3> QED BY <1>1, <2>1, <3>2, MoveCuts
  <2>3. P!IInv'
    <3>1. P!Next
      BY <1>1, <1>2 DEF P!Next
    <3> QED BY <3>1, P!NextIInv, StackAssumption DEF Shape
  <2> QED BY <1>2, <2>1, <2>2, <2>3 DEF P!SetSP
<1>3. P6811!SetSP(SPSize - 1) <=> P!SetSP(SPSize - 1)
  BY Zenon DEF P6811!SetSP, P!SetSP, P6811!SetStack, P!SetStack, P6811!reg_setsp, P!reg_setsp,
     P6811!PopAbove, P!PopAbove, P6811!Stack, P!Stack, P6811!AfterMove, P!AfterMove,
     P6811!Outlive, P!Outlive
<1>4. (iflag \/ Family # "6805") \in BOOLEAN /\ (iflag \/ "6811" # "6805") \in BOOLEAN
  OBVIOUS
<1>5. reset => Reset
  BY <1>2, <1>4, SameSteps, Zenon DEF reset, Reset
<1>6. Cpu6811!reset => Reset
  BY <1>2, <1>3, <1>4, Same6811Steps, Zenon DEF Cpu6811!reset, Reset, Cpu6811!command_vars, command_vars
<1> QED BY <1>5, <1>6

\* A step of the 6303, or whatever CPU the constants describe.
LEMMA NextKeeps ==
  ASSUME Kept(P!ContextBytes, Family = "6800"), Next
  PROVE  /\ Kept(P!ContextBytes, Family = "6800")'
         /\ UNCHANGED vars \/ (OverStops(ReportsInterrupts) /\ OutStops(Family = "6800"))
<1> DEFINE c == P!ContextBytes
           counted == Family = "6800"
<1>1. c \in Nat \ {0} /\ counted \in BOOLEAN /\ ReportsInterrupts \in BOOLEAN
  BY ContextTyped, ReportsAssumption
<1>2. Shape(c) /\ CommandInv(counted)
  BY DEF Kept
<1>3. \A reported \in BOOLEAN : instr_exec(reported) =>
        Instruction(c, counted, reported) /\ (reported => ReportsInterrupts)
  BY <1>2, InstructionOf
<1> HIDE DEF c, counted
<1>4. CASE turn
  <2>1. PICK reported \in BOOLEAN : instr_exec(reported) /\ Turned(reported)
    BY <1>4, Zenon DEF turn, Turned
  <2>2. command # "idle"
    BY <1>4 DEF turn
  <2> QED BY <1>1, <1>2, <1>3, <2>1, <2>2, TurnKeeps DEF Kept, c, counted
<1>5. CASE go_or_trace
  <2>1. PICK reported \in BOOLEAN : instr_exec(reported)
    BY <1>5 DEF go_or_trace
  <2>2. command = "idle" /\ usr_int' \in {usr_int, FALSE} /\ UNCHANGED command_vars
    BY <1>5 DEF go_or_trace
  <2>3. Kept(c, counted)'
    BY <1>1, <1>2, <1>3, <2>1, <2>2, GoKeeps DEF Kept
  <2> QED BY <2>2, <2>3 DEF OverStops, OutStops, c, counted
<1>6. CASE reset
  <2>1. Reset
    BY <1>1, <1>2, <1>6, ResetOf
  <2>2. Kept(c, counted)'
    BY <1>1, <1>2, <2>1, ResetKeeps DEF Kept
  <2> QED BY <2>1, <2>2 DEF OverStops, OutStops, Reset, c, counted
<1>7. CASE step_over \/ step_out \/ sig_int_handler
  BY <1>1, <1>2, <1>7, TypedKeeps DEF Kept, c, counted
<1> QED BY <1>4, <1>5, <1>6, <1>7 DEF Next

\* The commands do not depend on the CPU.
LEMMA SameCommands ==
  /\ Cpu6811!step_over <=> step_over
  /\ Cpu6811!step_out <=> step_out
  /\ Cpu6811!sig_int_handler <=> sig_int_handler
  /\ Cpu6811!turn <=>
       command # "idle" /\ \E reported \in BOOLEAN : Cpu6811!instr_exec(reported) /\ Turned(reported)
  /\ Cpu6811!vars = vars
<1>1. /\ Cpu6811!stack_vars = stack_vars /\ Cpu6811!program_vars = program_vars
      /\ Cpu6811!command_vars = command_vars /\ Cpu6811!vars = vars
      /\ Cpu6811!ReturnsBy = ReturnsBy
      /\ (Cpu6811!program_vars)' = program_vars' /\ (Cpu6811!command_vars)' = command_vars'
  BY Zenon DEF Cpu6811!stack_vars, stack_vars, Cpu6811!program_vars, program_vars,
     Cpu6811!command_vars, command_vars, Cpu6811!vars, vars, Cpu6811!ReturnsBy, ReturnsBy
<1>2. \A reported : /\ Cpu6811!step_over_goes_on(reported) <=> step_over_goes_on(reported)
                    /\ Cpu6811!step_out_goes_on(reported) <=> step_out_goes_on(reported)
  BY Zenon DEF Cpu6811!step_over_goes_on, step_over_goes_on, Cpu6811!step_out_goes_on, step_out_goes_on
<1>3. Cpu6811!turn <=>
       command # "idle" /\ \E reported \in BOOLEAN : Cpu6811!instr_exec(reported) /\ Turned(reported)
  BY <1>1, <1>2, Zenon DEF Cpu6811!turn, Turned, Cpu6811!command_vars, command_vars
<1>4. /\ Cpu6811!step_over <=> step_over
      /\ Cpu6811!step_out <=> step_out
      /\ Cpu6811!sig_int_handler <=> sig_int_handler
  BY <1>1, Zenon DEF Cpu6811!step_over, step_over, Cpu6811!step_out, step_out,
     Cpu6811!sig_int_handler, sig_int_handler
<1> QED BY <1>1, <1>3, <1>4, Zenon

\* A step of the 6811.
LEMMA NextKeeps6811 ==
  ASSUME Kept(P6811!ContextBytes, FALSE), Cpu6811!Next
  PROVE  /\ Kept(P6811!ContextBytes, FALSE)'
         /\ UNCHANGED vars \/ (OverStops(FALSE) /\ OutStops(FALSE))
<1> DEFINE c == P6811!ContextBytes
<1>1. c \in Nat \ {0} /\ FALSE \in BOOLEAN
  BY ContextTyped
<1>2. Shape(c) /\ CommandInv(FALSE)
  BY DEF Kept
<1>3. \A reported \in BOOLEAN : Cpu6811!instr_exec(reported) =>
        Instruction(c, FALSE, reported) /\ ~reported
  BY <1>2, InstructionOf6811
<1> HIDE DEF c
<1>4. CASE Cpu6811!turn
  <2>1. PICK reported \in BOOLEAN : Cpu6811!instr_exec(reported) /\ Turned(reported)
    BY <1>4, SameCommands, Zenon
  <2>2. command # "idle"
    BY <1>4 DEF Cpu6811!turn
  <2> QED BY <1>1, <1>2, <1>3, <2>1, <2>2, TurnKeeps DEF Kept, c
<1>5. CASE Cpu6811!go_or_trace
  <2>1. PICK reported \in BOOLEAN : Cpu6811!instr_exec(reported)
    BY <1>5 DEF Cpu6811!go_or_trace
  <2>2. command = "idle" /\ usr_int' \in {usr_int, FALSE} /\ UNCHANGED command_vars
    BY <1>5 DEF Cpu6811!go_or_trace, Cpu6811!command_vars, command_vars
  <2>3. Kept(c, FALSE)'
    BY <1>1, <1>2, <1>3, <2>1, <2>2, GoKeeps DEF Kept
  <2> QED BY <2>2, <2>3 DEF OverStops, OutStops, c
<1>6. CASE Cpu6811!reset
  <2>1. Reset
    BY <1>1, <1>2, <1>6, ResetOf
  <2>2. Kept(c, FALSE)'
    BY <1>1, <1>2, <2>1, ResetKeeps DEF Kept
  <2> QED BY <2>1, <2>2 DEF OverStops, OutStops, Reset, c
<1>7. CASE step_over \/ step_out \/ sig_int_handler
  BY <1>1, <1>2, <1>7, TypedKeeps DEF Kept, c
<1> QED BY <1>4, <1>5, <1>6, <1>7, SameCommands, Zenon DEF Cpu6811!Next

-----------------------------------------------------------------------------
(* The theorems.                                                           *)

BothInv ==
  /\ build \in {"6303", "6811"}
  /\ Is6303 => Kept(P!ContextBytes, Family = "6800")
  /\ Is6811 => Kept(P6811!ContextBytes, FALSE)

LEMMA InitKept ==
  ASSUME NEW c \in Nat \ {0}, NEW counted \in BOOLEAN, Init \/ Cpu6811!Init
  PROVE  Kept(c, counted)
<1>1. /\ sp = SPSize - 1 /\ elements = <<>> /\ call_level = 0 /\ calls = <<>> /\ returns = <<>>
      /\ command = "idle" /\ ret_sp = 0 /\ cl = 0 /\ home = 0 /\ typed_in = "main"
      /\ usr_int = FALSE /\ rtis = 0 /\ resets = 0 /\ iflag \in BOOLEAN
  BY DEF Init, Cpu6811!Init
<1>2. SPSize - 1 \in P!SP /\ 0 \in P!SP /\ 0 \in P!UInt
  BY StackAssumption DEF P!SP, P!UInt
<1>3. P!IInv
  <2>1. <<>> \in Seq(P!Frame) /\ P!Ordered(<<>>) /\ Len(<<>>) = 0
    BY P!EmptyCalls, StackAssumption
  <2>2. SubSeq(<<>>, 1, P!Least(0, MaxCallStack)) = <<>>
    <3>1. P!Least(0, MaxCallStack) = 0
      BY StackAssumption DEF P!Least
    <3> QED BY <3>1, SubSeqEmpty
  <2>3. P!Stack.sp = SPSize - 1 /\ P!Stack.elements = <<>>
        /\ P!Stack = [sp |-> P!Stack.sp, elements |-> P!Stack.elements]
    BY <1>1 DEF P!Stack
  <2>4. \A i \in 1 .. Len(<<>>) : <<>>[i].stack_on_entry >= P!Stack.sp
    BY <2>1
  <2>5. P!Agree(P!Stack, <<>>)
    BY <1>2, <2>1, <2>2, <2>3, <2>4, Zenon DEF P!Agree
  <2> QED BY <1>1, <1>2, <2>5 DEF P!IInv
<1>4. Shape(c)
  BY <1>1, <1>3, StackAssumption DEF Shape, Top, Spaced
<1>5. LevelOK(counted)
  <2>1. Active = Rts(<<>>, 0)
    BY <1>1 DEF Active
  <2>2. Active = 0
    BY <2>1, RtsCounts
  <2>3. resets * MaxCalls = 0
    BY <1>1, StackAssumption
  <2> QED BY <1>1, <2>2, <2>3 DEF LevelOK
<1>6. CommandTyped /\ OverOK /\ OutOK(counted)
  <2>1. 0 \in 0 .. MaxCalls /\ 0 \in 0 .. MaxRtis /\ 0 \in 0 .. MaxResets
    BY StackAssumption, MaxAssumption
  <2>2. CommandTyped
    BY <1>1, <1>2, <2>1, Zenon DEF CommandTyped
  <2> QED BY <1>1, <2>2 DEF OverOK, OutOK
<1> QED BY <1>4, <1>5, <1>6 DEF Kept, CommandInv

LEMMA BothInitInv == BothInit => BothInv
BY InitKept, ContextTyped DEF BothInit, BothInv, Is6303, Is6811

\* A step keeps the invariant, and the promises of the two commands.
LEMMA BothNextInv ==
  ASSUME BothInv, [BothNext]_<<build, vars>>
  PROVE  /\ BothInv'
         /\ Is6303 => UNCHANGED vars \/ (OverStops(ReportsInterrupts) /\ OutStops(Family = "6800"))
         /\ ~Is6303 => UNCHANGED vars \/ (OverStops(FALSE) /\ OutStops(FALSE))
<1>1. CASE Is6303 /\ Next /\ UNCHANGED build
  BY <1>1, NextKeeps DEF BothInv, Is6303, Is6811
<1>2. CASE Is6811 /\ Cpu6811!Next /\ UNCHANGED build
  BY <1>2, NextKeeps6811 DEF BothInv, Is6303, Is6811
<1>3. CASE UNCHANGED <<build, vars>>
  <2>1. \A c \in Nat \ {0}, counted \in BOOLEAN : Kept(c, counted) => Kept(c, counted)'
    BY <1>3, TypedKeeps DEF Kept
  <2> QED BY <1>3, <2>1, ContextTyped DEF BothInv, Is6303, Is6811
<1> QED BY <1>1, <1>2, <1>3 DEF BothNext

LEMMA KeptTyped ==
  ASSUME NEW c \in Nat \ {0}, NEW counted \in BOOLEAN, Kept(c, counted)
  PROVE  TypeOK /\ Cpu6811!TypeOK
<1>1. P!TypeOK
  BY P!IInvImplies, StackAssumption DEF Kept, Shape
<1>2. /\ (P!TypeOK <=> Stk!TypeOK) /\ (P!TypeOK <=> Cpu6811!Stk!TypeOK)
      /\ Stk!SP = P!SP /\ Stk!UInt = P!UInt
      /\ Cpu6811!Stk!SP = P!SP /\ Cpu6811!Stk!UInt = P!UInt
  BY Zenon DEF P!TypeOK, Stk!TypeOK, Cpu6811!Stk!TypeOK, P!SP, Stk!SP, Cpu6811!Stk!SP, P!UInt, Stk!UInt,
     Cpu6811!Stk!UInt, P!Frame, Stk!Frame, Cpu6811!Stk!Frame
<1>3. CommandTyped /\ Shape(c)
  BY DEF Kept, CommandInv
<1>4. TypeOK
  BY <1>1, <1>2, <1>3 DEF TypeOK, CommandTyped, Shape
<1>5. Cpu6811!TypeOK
  BY <1>1, <1>2, <1>3, SameState DEF Cpu6811!TypeOK, CommandTyped, Shape
<1> QED BY <1>4, <1>5

LEMMA SpecInv == BothSpec => []BothInv
<1>1. BothInv /\ [BothNext]_<<build, vars>> => BothInv'
  BY BothNextInv
<1> QED BY <1>1, BothInitInv, PTL DEF BothSpec

\* The stack, the history of the calls on it, and the variables of the commands agree, on both
\* CPUs: every call has its way to return, and the routine in progress has not unstacked its own
\* return address, however calls, interrupts, returns and resets follow each other.
THEOREM SpecBothTypeOK == BothSpec => []BothTypeOK
<1>1. BothInv => BothTypeOK
  BY KeptTyped, ContextTyped DEF BothInv, BothTypeOK, Is6303, Is6811
<1> QED BY <1>1, SpecInv, PTL

\* "s" never stops inside a routine called since it was typed, and never goes on once the routine
\* it was typed in has returned, unless the user or a reported interrupt stops it: to compare
\* stack pointers is enough, for every stack size and every nesting of calls and interrupts.
THEOREM SpecStepOverStopsOutside == BothSpec => BothStepOverStopsOutside
<1>1. BothInv /\ [BothNext]_<<build, vars>> =>
        [IF Is6303 THEN StepOverStopsAction ELSE Cpu6811!StepOverStopsAction]_vars
  <2>1. StepOverStopsAction <=> OverStops(ReportsInterrupts)
    BY Zenon DEF StepOverStopsAction, OverStops
  <2>2. Cpu6811!StepOverStopsAction <=> OverStops(FALSE)
    BY Zenon DEF Cpu6811!StepOverStopsAction, OverStops, Cpu6811!InterruptEntered, InterruptEntered
  <2> QED BY <2>1, <2>2, BothNextInv
<1> QED BY <1>1, SpecInv, PTL DEF BothSpec, BothStepOverStopsOutside

\* "e" typed in a subroutine stops when that subroutine has returned, and not before, unless the
\* user stops it; on the 6303 and its like until the first RTI, on the others always.
THEOREM SpecStepOutStopsAtReturn == BothSpec => BothStepOutStopsAtReturn
<1>1. BothInv /\ [BothNext]_<<build, vars>> =>
        [IF Is6303 THEN StepOutStopsAction ELSE Cpu6811!StepOutStopsAction]_vars
  <2>1. StepOutStopsAction <=> OutStops(Family = "6800")
    BY Zenon DEF StepOutStopsAction, OutStops
  <2>2. Cpu6811!StepOutStopsAction <=> OutStops(FALSE)
    BY Zenon DEF Cpu6811!StepOutStopsAction, OutStops
  <2> QED BY <2>1, <2>2, BothNextInv
<1> QED BY <1>1, SpecInv, PTL DEF BothSpec, BothStepOutStopsAtReturn

\* A Ctrl-C ends the command that runs, whatever the program does and whether the command has
\* other reasons to go on: it is remembered until the loop looks at it, once the turn it came
\* in, or the next, is over.  The theorem supposes that turns come again and again while a
\* command runs, which is what the fairness of the specification gives.
THEOREM SpecCtrlCStops ==
  BothSpec /\ [](command # "idle" => <><<turn_of_6303 \/ turn_of_6811>>_<<build, vars>>)
    => CtrlCStops
<1> DEFINE Stopping == command # "idle" /\ usr_int
           Idle == command = "idle"
<1>1. Stopping /\ <<turn_of_6303 \/ turn_of_6811>>_<<build, vars>> => Idle'
  <2>1. usr_int /\ turn => command' = "idle"
    BY DEF turn, step_over_goes_on, step_out_goes_on
  <2>2. usr_int /\ Cpu6811!turn => command' = "idle"
    BY DEF Cpu6811!turn, Cpu6811!step_over_goes_on, Cpu6811!step_out_goes_on
  <2> QED BY <2>1, <2>2 DEF turn_of_6303, turn_of_6811
<1>2. Stopping /\ [BothNext]_<<build, vars>> => Stopping' \/ Idle'
  <2>1. Stopping /\ Next => Stopping' \/ Idle'
    BY DEF Next, sig_int_handler, reset, step_over, step_out, turn, go_or_trace, command_vars,
           step_over_goes_on, step_out_goes_on
  <2>2. Stopping /\ Cpu6811!Next => Stopping' \/ Idle'
    BY DEF Cpu6811!Next, Cpu6811!sig_int_handler, Cpu6811!reset, Cpu6811!step_over,
           Cpu6811!step_out, Cpu6811!turn, Cpu6811!go_or_trace, Cpu6811!command_vars,
           Cpu6811!step_over_goes_on, Cpu6811!step_out_goes_on
  <2>3. Stopping /\ UNCHANGED <<build, vars>> => Stopping'
    BY DEF vars, command_vars
  <2> QED BY <2>1, <2>2, <2>3 DEF BothNext
<1>3. Stopping => command # "idle"
  OBVIOUS
<1> HIDE DEF Stopping
<1>4. BothSpec /\ [](command # "idle" => <><<turn_of_6303 \/ turn_of_6811>>_<<build, vars>>)
        => (Stopping ~> Idle)
  BY <1>1, <1>2, <1>3, PTL DEF BothSpec
<1> QED BY <1>4 DEF CtrlCStops, Stopping
=============================================================================
