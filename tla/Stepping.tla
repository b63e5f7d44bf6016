------------------------------- MODULE Stepping -------------------------------
(***************************************************************************)
(* The monitor's commands that run a program by the shape of its calls,    *)
(* "s" (step over subroutines) and "e" (execute until the routine          *)
(* returns) of command.c, over instr_exec and the stack of module          *)
(* CallStack, with interrupts that may come at any instruction and the     *)
(* user's Ctrl-C that may come at any moment.                              *)
(*                                                                         *)
(* The commands do not know the calls: "s" compares stack pointers and "e" *)
(* counts calls less returns in call_level.  The program here keeps to the *)
(* rules such commands rely on: it sets up its stack after a reset, leaves *)
(* a routine with the stack it entered it with, and returns with RTS from  *)
(* a call and RTI from an interrupt.                                       *)
(***************************************************************************)
EXTENDS Integers, Sequences

CONSTANTS
  Family, Addr, SPSize, UIntMax, MaxCallStack, MaxCalls,  \* as in CallStack
  ReportsInterrupts, \* instr_exec returns 1 for an interrupt or SWI: only the 6303's does
  MaxRtis, MaxResets, \* bounds of the model: RTIs executed and resets
  MaxLocal           \* bound of the model: bytes a routine keeps on the stack for itself

ASSUME ReportsAssumption == ReportsInterrupts \in BOOLEAN
ASSUME MaxAssumption == MaxRtis \in Nat /\ MaxResets \in Nat /\ MaxLocal \in Nat
ASSUME StackAssumption ==   \* as in CallStack
  /\ Family \in {"6800", "6811", "6805"}
  /\ SPSize \in Nat \ {0}
  /\ UIntMax \in Nat /\ UIntMax >= SPSize /\ UIntMax % SPSize = SPSize - 1
  /\ MaxCallStack \in Nat \ {0} /\ MaxCalls \in Nat

\* A reset leaves the calls it cuts off in call_level.  They are not so many that it wraps.
ASSUME LevelAssumption == (MaxResets + 1) * MaxCalls <= UIntMax

VARIABLES
  sp, elements, call_level, calls,  \* as in CallStack
  iflag,      \* the I bit of the condition codes
  returns,    \* history, per entry of calls: how it returns, and the I bit that restores
  command,    \* "s" or "e" while that command runs, else "idle"
  ret_sp,     \* "s": the stack pointer when it started
  cl,         \* "e": call_level when it started
  usr_int,    \* set by sig_int_handler
  home,       \* history: the number of calls active when the command started
  typed_in,   \* history: how the routine it was typed in returns, "rts" or "rti", or "main"
  rtis, resets \* history: RTIs executed and resets

stack_vars == <<sp, elements, call_level, calls>>
program_vars == <<stack_vars, iflag, returns, rtis, resets>>
command_vars == <<command, ret_sp, cl, home, typed_in>>
vars == <<program_vars, command_vars, usr_int>>

Stk == INSTANCE CallStack

Return == [by : {"rts"}, iflag : {FALSE}] \cup [by : {"rti"}, iflag : BOOLEAN]

\* The stack pointer the routine in progress was entered with.
Top == IF calls = <<>> THEN SPSize - 1 ELSE calls[Len(calls)].stack_on_entry

ReturnsBy == IF returns = <<>> THEN "main" ELSE returns[Len(returns)].by

WithoutLast(s) == SubSeq(s, 1, Len(s) - 1)

-----------------------------------------------------------------------------
(* instr_exec: one instruction, or the entry of an interrupt.              *)

\* PSH, PUL, DES, INS, TXS, TYS within the routine's own part of the stack.
move_stack ==
  /\ \E v \in Stk!SP : Top - MaxLocal <= v /\ v <= Top /\ Stk!SetSP(v)
  /\ UNCHANGED <<iflag, returns, rtis, resets>>

\* Any instruction that leaves the stack alone; CLI, SEI and TAP set the I bit.
other_instr ==
  /\ iflag' \in BOOLEAN
  /\ UNCHANGED <<stack_vars, returns, rtis, resets>>

call ==
  /\ sp >= 2
  /\ \E a \in Addr : Stk!jsr_addr(a)
  /\ returns' = Append(returns, [by |-> "rts", iflag |-> FALSE])
  /\ UNCHANGED <<iflag, rtis, resets>>

\* int_addr, int_6811 or int_6805.
interrupt ==
  /\ sp >= Stk!ContextBytes
  /\ \E a \in Addr : Stk!int_addr(a)
  /\ returns' = Append(returns, [by |-> "rti", iflag |-> iflag])
  /\ iflag' = TRUE
  /\ UNCHANGED <<rtis, resets>>

return_rts ==
  /\ ReturnsBy = "rts" /\ sp = Top
  /\ Stk!rts_inh
  /\ returns' = WithoutLast(returns)
  /\ UNCHANGED <<iflag, rtis, resets>>

return_rti ==
  /\ ReturnsBy = "rti" /\ sp = Top /\ rtis < MaxRtis
  /\ Stk!rti
  /\ iflag' = returns[Len(returns)].iflag
  /\ returns' = WithoutLast(returns)
  /\ rtis' = rtis + 1
  /\ UNCHANGED resets

\* "reported" is what instr_exec returns.  A device's interrupt waits for the I bit to be
\* clear; SWI, and the trap of an unknown opcode, do not.
instr_exec(reported) ==
  \/ ~reported /\ (move_stack \/ other_instr \/ call \/ return_rts \/ return_rti)
  \/ reported = ReportsInterrupts /\ ~iflag /\ interrupt
  \/ reported \in {ReportsInterrupts, FALSE} /\ interrupt

-----------------------------------------------------------------------------
(* The commands.                                                           *)

\* After a reset, and the LDS the program starts with.
Init ==
  /\ sp = SPSize - 1 /\ elements = <<>> /\ call_level = 0 /\ calls = <<>>
  /\ iflag = (Family # "6805") /\ returns = <<>>
  /\ command = "idle" /\ ret_sp = 0 /\ cl = 0
  /\ home = 0 /\ typed_in = "main"
  /\ usr_int = FALSE /\ rtis = 0 /\ resets = 0

sig_int_handler == usr_int' = TRUE /\ UNCHANGED <<program_vars, command_vars>>

\* "R": cpu_reset leaves call_level alone; the stack is set up by the program, or by the
\* 6805's own reset.
reset ==
  /\ command = "idle" /\ resets < MaxResets
  /\ Stk!SetSP(SPSize - 1)
  /\ returns' = <<>>
  /\ iflag' = (iflag \/ Family # "6805")
  /\ resets' = resets + 1
  /\ UNCHANGED <<command_vars, usr_int, rtis>>

step_over ==
  /\ command = "idle" /\ command' = "s"
  /\ ret_sp' = sp /\ home' = Len(calls) /\ typed_in' = ReturnsBy
  /\ UNCHANGED <<program_vars, cl, usr_int>>

step_out ==
  /\ command = "idle" /\ command' = "e"
  /\ cl' = call_level /\ home' = Len(calls) /\ typed_in' = ReturnsBy
  /\ UNCHANGED <<program_vars, ret_sp, usr_int>>

\* For the mutants: "s" waits for the very stack pointer it started with; "e" stops one call too
\* late; "e" does not look at usr_int.
step_over_until_equal(reported) == sp' # ret_sp /\ ~usr_int /\ ~reported
step_out_one_late(reported) == call_level' + 1 >= cl /\ ~usr_int
step_out_deaf(reported) == call_level' >= cl

\* The conditions of the two do ... while loops, after an instruction.
step_over_goes_on(reported) == sp' < ret_sp /\ ~usr_int /\ ~reported
step_out_goes_on(reported) == call_level' >= cl /\ ~usr_int

\* One turn of a loop: an instruction, then the loop's condition, and usr_int = 0 when it ends.
turn ==
  /\ command # "idle"
  /\ \E reported \in BOOLEAN :
       /\ instr_exec(reported)
       /\ IF \/ command = "s" /\ step_over_goes_on(reported)
             \/ command = "e" /\ step_out_goes_on(reported)
          THEN UNCHANGED <<command_vars, usr_int>>
          ELSE /\ command' = "idle" /\ ret_sp' = 0 /\ cl' = 0
               /\ home' = 0 /\ typed_in' = "main" /\ usr_int' = FALSE

\* An instruction of "t", which leaves usr_int alone, or of "g", which clears it when it ends.
go_or_trace ==
  /\ command = "idle"
  /\ \E reported \in BOOLEAN : instr_exec(reported)
  /\ usr_int' \in {usr_int, FALSE}
  /\ UNCHANGED command_vars

Next ==
  \/ sig_int_handler \/ reset \/ step_over \/ step_out
  \/ turn \/ go_or_trace

Spec == Init /\ [][Next]_vars

\* The loops run for as long as their conditions let them; nothing is promised of the user.
FairSpec == Spec /\ WF_vars(turn)

-----------------------------------------------------------------------------
(* Properties.                                                             *)

\* The history matches the stack: every call has its way to return, calls are entered ever
\* deeper, and the routine in progress has not unstacked its own return address.
TypeOK ==
  /\ Stk!TypeOK
  /\ iflag \in BOOLEAN
  /\ returns \in Seq(Return) /\ Len(returns) = Len(calls)
  /\ command \in {"idle", "s", "e"} /\ ret_sp \in Stk!SP /\ cl \in Stk!UInt
  /\ usr_int \in BOOLEAN
  /\ home \in 0 .. MaxCalls /\ typed_in \in {"main", "rts", "rti"}
  /\ rtis \in 0 .. MaxRtis /\ resets \in 0 .. MaxResets
  /\ sp <= Top

InterruptEntered == Len(calls') > Len(calls) /\ returns'[Len(returns')].by = "rti"

\* "s" steps over subroutines: unless the user stops it, or an interrupt does that instr_exec
\* reports, it never stops inside a routine called since, and it never goes on once the
\* routine it was typed in has returned.
StepOverStopsAction ==
  command = "s" /\ ~usr_int /\ ~(ReportsInterrupts /\ InterruptEntered) =>
    /\ command' = "idle" => Len(calls') <= home
    /\ command' = "s" => Len(calls') >= home

StepOverStopsOutside == [][StepOverStopsAction]_vars

\* "e" typed in a subroutine stops when, and only when, that subroutine has returned, or the
\* user stops it.  With the 6800's int_addr and rti_inh, which count an interrupt when it
\* returns and not when it comes, this is so until the first RTI.
StepOutStopsAction ==
  /\ command = "e" /\ typed_in = "rts"
  /\ Family = "6800" => rtis' = 0
  => (command' = "idle" <=> usr_int \/ Len(calls') < home)

StepOutStopsAtReturn == [][StepOutStopsAction]_vars

\* "return from subroutine - execute until next rti/rts": whatever routine it was typed in,
\* "e" does not go on after that routine has returned.
StepOutNeverPassesReturn ==
  command = "e" => Len(calls) >= home

\* A Ctrl-C ends the command that runs.
CtrlCStops == command # "idle" /\ usr_int ~> command = "idle"

=============================================================================
