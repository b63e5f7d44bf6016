----------------------------- MODULE MCChip6303 -----------------------------
(* Two instances side by side, over the same variables.                    *)
(*                                                                         *)
(* "chip": the whole chip, with compare registers that the program moves   *)
(* away from 0, byte by byte, and the compare interrupt enabled and        *)
(* disabled through either status register; one byte waits, one handler is *)
(* active.  Timer 2, which interrupts nobody, stays off.                   *)
(*                                                                         *)
(* "timer": the timers alone, with bytes of two values, so that the counter *)
(* wraps at every fourth cycle and each compare value is met.  The program *)
(* writes the enable bit, the bit that is TOF or OCF2, and OCF1; TCONR at 1 *)
(* enables timer 2, on a clock divided by two, and is passed.              *)
EXTENDS Chip6303

VARIABLE build  \* which of the two

TimerAlone == INSTANCE Timer6303 WITH
  WrittenBits <- {EOCI1, OCF2, OCF1}, WrittenBytes <- {0, 1}, WrittenT2 <- {0, 1},
  T2Counting <- {1}, Prescaler <- [b \in Byte |-> IF b = 0 THEN 1 ELSE 2]

MCWrittenBits == {3}  \* EOCI1
MCPrescaler == [b \in 0 .. 1 |-> 1]

BothInit == build \in {"timer", "chip"} /\ Init

step_of_chip == build = "chip" /\ Next /\ UNCHANGED build
step_of_timer ==
  /\ build = "timer" /\ TimerAlone!Next
  /\ UNCHANGED <<build, trcsr, rxinterrupts, txinterrupts, iflag, handlers>>

BothNext == step_of_chip \/ step_of_timer

BothSpec ==
  BothInit /\ [][BothNext]_<<build, vars>> /\ WF_vars(build = "chip" /\ instr_exec)

-----------------------------------------------------------------------------
\* What a comment of timer.c says of OCF1, wherever the counter stands.
MatchSetsOcf1 == T!MatchSetsOcf1
=============================================================================
