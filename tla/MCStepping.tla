----------------------------- MODULE MCStepping -----------------------------
(* The commands on two of the CPUs, whichever is built in: the one the     *)
(* constants describe, the 6303, which counts an RTI as a return and whose *)
(* instr_exec reports interrupts; and the 6811, which does neither.  A     *)
(* stack with room for interrupts and calls three deep, two frames on the  *)
(* call stack, one RTI and one reset.                                      *)
EXTENDS Stepping

VARIABLE build  \* the CPU built into the simulator

Is6303 == build = "6303"
Is6811 == build = "6811"

Cpu6811 == INSTANCE Stepping WITH Family <- "6811", ReportsInterrupts <- FALSE

BothInit == (Is6303 /\ Init) \/ (Is6811 /\ Cpu6811!Init)

turn_of_6303 == Is6303 /\ turn
turn_of_6811 == Is6811 /\ Cpu6811!turn

BothNext ==
  \/ Is6303 /\ Next /\ UNCHANGED build
  \/ Is6811 /\ Cpu6811!Next /\ UNCHANGED build

BothSpec ==
  BothInit /\ [][BothNext]_<<build, vars>> /\ WF_vars(turn_of_6303 \/ turn_of_6811)

\* The 6811 alone.
Init6811 == Is6811 /\ Cpu6811!Init
Next6811 == Is6811 /\ Cpu6811!Next /\ UNCHANGED build

-----------------------------------------------------------------------------
(* The properties of Stepping, for either CPU; CtrlCStops and              *)
(* StepOutNeverPassesReturn do not depend on it.                           *)

BothTypeOK == IF Is6303 THEN TypeOK ELSE Cpu6811!TypeOK

\* "s" steps over subroutines.
BothStepOverStopsOutside ==
  [][IF Is6303 THEN StepOverStopsAction ELSE Cpu6811!StepOverStopsAction]_vars

\* "e" typed in a subroutine stops when, and only when, that subroutine has returned.
BothStepOutStopsAtReturn ==
  [][IF Is6303 THEN StepOutStopsAction ELSE Cpu6811!StepOutStopsAction]_vars
=============================================================================
