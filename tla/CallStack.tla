------------------------------ MODULE CallStack ------------------------------
(***************************************************************************)
(* The CPU stack pointer (reg.c) and the simulator's call stack            *)
(* (callstac.c), driven by the instructions of opfunc.c that move the      *)
(* stack pointer, by the interrupts and by the monitor's "r s <value>".    *)
(*                                                                         *)
(* The simulator keeps a list of the routines being executed, for the      *)
(* monitor's "B" command and the "Subroutine:" line of a breakpoint.  It   *)
(* does not watch RTS or RTI: it drops a routine when the stack pointer    *)
(* rises above the value it had when the routine was entered.  What is at  *)
(* stake is whether that guess, made on a list of at most MAXCALLSTACK     *)
(* routines and a stack pointer that wraps, is exact.                      *)
(***************************************************************************)
EXTENDS Integers, Sequences

CONSTANTS
  Family,       \* "6800" (with 6801/6301/6303), "6811" or "6805"
  Addr,         \* entry points of routines and interrupt handlers
  SPSize,       \* number of values of regs.sp: 2^16, 2^8 on the 6805
  UIntMax,      \* the largest u_int: the parameter of reg_setsp is one
  MaxCallStack, \* MAXCALLSTACK of callstac.c
  MaxCalls      \* bound of the model: nested calls a program makes

ASSUME FamilyAssumption == Family \in {"6800", "6811", "6805"}
ASSUME SizeAssumption ==
  /\ SPSize \in Nat \ {0}
  /\ UIntMax \in Nat /\ UIntMax >= SPSize
  /\ UIntMax % SPSize = SPSize - 1   \* both are powers of 2, less 1 for UIntMax
ASSUME CallStackAssumption == MaxCallStack \in Nat \ {0} /\ MaxCalls \in Nat

VARIABLES
  sp,         \* regs.sp
  elements,   \* callstack.elements[0 .. callstack.sp - 1]
  call_level, \* opfunc.c: calls less returns, a u_int
  calls       \* history: every call whose return address is still stacked

vars == <<sp, elements, call_level, calls>>

SP == 0 .. SPSize - 1
UInt == 0 .. UIntMax
Frame == [entry_point : Addr, stack_on_entry : SP]

-----------------------------------------------------------------------------
(* reg.c and callstac.c, as functions of a record s = [sp, elements].      *)

\* For the mutants of the pop loop below: one pop only.
PopOne(fs, value) ==
  IF fs # <<>> /\ fs[Len(fs)].stack_on_entry < value
  THEN SubSeq(fs, 1, Len(fs) - 1) ELSE fs

\* What is left of frames fs once "while (value > peek_stack && nelem > 0) pop"
\* has run: it stops at the topmost frame entered with the stack at value or above.
PopAbove(fs, value) ==
  SubSeq(fs, 1, CHOOSE n \in 0 .. Len(fs) :
                  /\ n = 0 \/ fs[n].stack_on_entry >= value
                  /\ \A i \in n + 1 .. Len(fs) : fs[i].stack_on_entry < value)

\* For the mutants: the loop is bounded by the new, truncated, stack pointer.
PopTruncated(s, value) ==
  [sp |-> value % SPSize,
   elements |-> IF value > s.sp THEN PopAbove(s.elements, value % SPSize) ELSE s.elements]

reg_setsp(s, value) ==
  [sp |-> value % SPSize,
   elements |-> IF value > s.sp THEN PopAbove(s.elements, value) ELSE s.elements]

\* regs.sp - 1 and regs.sp + 1 are computed in u_int: 0 - 1 is UIntMax, SPSize - 1 + 1 is SPSize.
pushbyte(s) == reg_setsp(s, IF s.sp = 0 THEN UIntMax ELSE s.sp - 1)
popbyte(s)  == reg_setsp(s, s.sp + 1)
pushword(s) == pushbyte(pushbyte(s))
popword(s)  == popbyte(popbyte(s))

\* For the mutants: the limit is not looked at.
callstack_push_unbounded(s, a) ==
  [s EXCEPT !.elements = Append(@, [entry_point |-> a, stack_on_entry |-> s.sp])]

\* A full call stack refuses the frame (and error() is called).
callstack_push(s, a) ==
  IF Len(s.elements) < MaxCallStack
  THEN [s EXCEPT !.elements = Append(@, [entry_point |-> a, stack_on_entry |-> s.sp])]
  ELSE s

\* For the mutants: ACCB is not stacked.
push_context_short(s) ==
  LET c4 == pushbyte(pushbyte(pushword(s)))
  IN  CASE Family = "6805" -> c4
        [] Family = "6800" -> pushword(c4)
        [] Family = "6811" -> pushword(pushword(c4))

\* The registers stacked by int_addr, int_6811 and int_6805, in bytes: PC (2) then
\* X A B CCR (5), Y X A B CCR (7), X A CCR (3).
push_context(s) ==
  LET pc == pushword(s)
      c3 == pushbyte(pushbyte(pushbyte(pc)))
  IN  CASE Family = "6805" -> c3
        [] Family = "6800" -> pushword(c3)
        [] Family = "6811" -> pushword(pushword(c3))

pop_context(s) ==
  LET c3 == popbyte(popbyte(popbyte(s)))
      x  == CASE Family = "6805" -> c3
              [] Family = "6800" -> popword(c3)
              [] Family = "6811" -> popword(popword(c3))
  IN  popword(x)

ContextBytes == CASE Family = "6805" -> 5 [] Family = "6800" -> 7 [] Family = "6811" -> 9

-----------------------------------------------------------------------------
(* The history: what the call stack is meant to record.                    *)

\* The calls that outlive a move of the stack pointer to "top": those entered with the
\* stack at or above it.  The others have returned.
Outlive(cs, top) ==
  SubSeq(cs, 1, CHOOSE k \in 0 .. Len(cs) :
                  \A i \in 1 .. Len(cs) : i <= k <=> cs[i].stack_on_entry >= top)

\* The calls left by an instruction that stacks, or unstacks, n bytes.  A stack pointer that
\* wraps leaves no call on the stack.
AfterPush(n) == IF n <= sp THEN calls ELSE <<>>
AfterPull(n) == IF sp + n < SPSize THEN Outlive(calls, sp + n) ELSE <<>>
AfterMove(value) == IF value > sp THEN Outlive(calls, value) ELSE calls

-----------------------------------------------------------------------------
(* The instructions.                                                       *)

Stack == [sp |-> sp, elements |-> elements]
SetStack(s) == sp' = s.sp /\ elements' = s.elements

Init ==
  /\ sp = 0
  /\ elements = <<>>
  /\ call_level = 0
  /\ calls = <<>>

\* PSHA, PSHB, DES; PSHX, PSHY
Push1 == SetStack(pushbyte(Stack)) /\ calls' = AfterPush(1) /\ UNCHANGED call_level
Push2 == SetStack(pushword(Stack)) /\ calls' = AfterPush(2) /\ UNCHANGED call_level

\* PULA, PULB, INS; PULX, PULY
Pull1 == SetStack(popbyte(Stack)) /\ calls' = AfterPull(1) /\ UNCHANGED call_level
Pull2 == SetStack(popword(Stack)) /\ calls' = AfterPull(2) /\ UNCHANGED call_level

\* JSR, BSR
jsr_addr(a) ==
  LET s == pushword(Stack)
  IN  /\ Len(calls) < MaxCalls
      /\ SetStack(callstack_push(s, a))
      /\ call_level' = (call_level + 1) % (UIntMax + 1)
      /\ calls' = Append(AfterPush(2), [entry_point |-> a, stack_on_entry |-> s.sp])

\* An interrupt, SWI or a trap whose vector holds a.
int_addr(a) ==
  LET s == push_context(Stack)
  IN  /\ Len(calls) < MaxCalls
      /\ SetStack(callstack_push(s, a))
      /\ calls' = Append(AfterPush(ContextBytes), [entry_point |-> a, stack_on_entry |-> s.sp])
      /\ UNCHANGED call_level

Decremented(n) == IF n = 0 THEN UIntMax ELSE n - 1

rts_inh ==
  /\ SetStack(popword(Stack))
  /\ call_level' = Decremented(call_level)
  /\ calls' = AfterPull(2)

\* For the mutants: every RTI counts as a return.
rti_counted ==
  /\ SetStack(pop_context(Stack))
  /\ call_level' = Decremented(call_level)
  /\ calls' = AfterPull(ContextBytes)

\* rti_6811 and rti_6805 leave call_level alone.
rti ==
  /\ SetStack(pop_context(Stack))
  /\ call_level' = IF Family = "6800" THEN Decremented(call_level) ELSE call_level
  /\ calls' = AfterPull(ContextBytes)

\* LDS (v is a word), TXS and TYS (X - 1, in u_int), RSP, "r s <v>" and the reset of the 6805:
\* reg_setsp of any u_int.
SetSP(v) ==
  /\ SetStack(reg_setsp(Stack, v))
  /\ calls' = AfterMove(v)
  /\ UNCHANGED call_level

Next ==
  \/ Push1 \/ Push2 \/ Pull1 \/ Pull2
  \/ \E a \in Addr : jsr_addr(a)
  \/ \E a \in Addr : int_addr(a)
  \/ rts_inh
  \/ rti
  \/ \E v \in UInt : SetSP(v)

Spec == Init /\ [][Next]_vars

-----------------------------------------------------------------------------
(* Properties.                                                             *)

\* The stack pointer is one of its width, the call stack never holds more than MAXCALLSTACK
\* frames and call_level is a u_int.
TypeOK ==
  /\ sp \in SP
  /\ elements \in Seq(Frame) /\ Len(elements) <= MaxCallStack
  /\ call_level \in UInt
  /\ calls \in Seq(Frame)

Nested(fs) ==
  /\ \A i, j \in 1 .. Len(fs) : i <= j => fs[i].stack_on_entry >= fs[j].stack_on_entry
  /\ \A i \in 1 .. Len(fs) : fs[i].stack_on_entry >= sp

\* Outer routines were entered with a higher stack, and every recorded routine was entered at
\* or above the present stack pointer.  The pop loop of reg_setsp looks at the top frame only:
\* this is what makes a routine that returned impossible to hide under one that did not.
FramesNested == Nested(elements)

\* The call stack is exactly the oldest MAXCALLSTACK of the calls that have not returned: none
\* that returned stays on it, none that is running is missing while there is room, and after
\* an overflow the frames that were refused do not put the later ones out of step.
OldestCallsRecorded ==
  elements = SubSeq(calls, 1, IF Len(calls) < MaxCallStack THEN Len(calls) ELSE MaxCallStack)

=============================================================================
