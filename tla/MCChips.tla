------------------------------- MODULE MCChips -------------------------------
(***************************************************************************)
(* The chips with timers, side by side over the variables of all.          *)
(*                                                                         *)
(* "6811": the whole 6811.  The compare registers keep what a reset        *)
(* leaves, the program enables the interrupts of TOC1 and of the input     *)
(* captures, and the bytes that arrive for the SPI are not told from its   *)
(* own.                                                                    *)
(*                                                                         *)
(* "int" and "long": its timer alone, with every byte written to TOC1 and  *)
(* TOC2, on a machine where long is as wide as u_int and on one where it   *)
(* is wider; bytes have two values and u_int has 8, so that the counter    *)
(* wraps at every fourth cycle and a count of the size of u_int stands     *)
(* out.                                                                    *)
(*                                                                         *)
(* "6301", "6800" with its ACIA, and the 6805 twice: "timer05" is its      *)
(* timer alone, with instructions of several lengths and any value of OCR; *)
(* "6805" is the chip with instructions that all take as long.             *)
(***************************************************************************)
EXTENDS Chip6811

CONSTANTS
  MaxCycles6301, WrittenBytes6301,   \* MaxCycles and WrittenBytes of the 6301
  IntSize6805,                       \* IntSize of the 6805
  TimerCycles, ChipCycles,           \* Cycles of its timer alone, and of the chip
  WrittenBytes6805, MaxOcr           \* WrittenBytes of its timer alone, and MaxOcr

ASSUME Assumption6301 ==
  MaxCycles6301 \in 1 .. MaxWord /\ WrittenBytes6301 \subseteq Byte

\* When the count of cycles wraps, the ticks that come out are more than a round of the counter.
ASSUME PrescalerAssumption ==
  /\ IntSize6805 \in Nat \ {0} /\ IntSize6805 % 4 = 0
  /\ \A n \in TimerCycles \cup ChipCycles :
       n \in Nat \ {0} /\ IntSize6805 \div 4 - 1 - (n - 1) \div 4 >= ByteSize * ByteSize

ASSUME Assumption6805 ==
  MaxOcr \in Nat /\ MaxOcr >= MaxWord /\ WrittenBytes6805 \subseteq Byte

VARIABLES build, timer01, timer05, pc, sr

MCMasks == {1, IC}

TimerInt == INSTANCE Timer6811 WITH
  LongExceedsInt <- FALSE, MaxCycles <- 2, WrittenCompare <- {1, 2},
  WrittenBytes <- {0, 1}, WrittenFlags <- {1, 2}, WrittenMasks <- {}
TimerLong == INSTANCE Timer6811 WITH
  LongExceedsInt <- TRUE, MaxCycles <- 2, WrittenCompare <- {1, 2},
  WrittenBytes <- {0, 1}, WrittenFlags <- {1, 2}, WrittenMasks <- {}

H6301 == INSTANCE Chip6301 WITH
  timer <- timer01, MaxCycles <- MaxCycles6301, WrittenBytes <- WrittenBytes6301

Timer05 == INSTANCE Chip6805 WITH
  timer <- timer05, IntSize <- IntSize6805, Cycles <- TimerCycles,
  WrittenBytes <- WrittenBytes6805
M6805 == INSTANCE Chip6805 WITH
  timer <- timer05, IntSize <- IntSize6805, Cycles <- ChipCycles, WrittenBytes <- {}

Acia == INSTANCE Acia6800

AllInit ==
  /\ build \in {"6811", "int", "long", "6301", "timer05", "6805", "6800"}
  /\ IF build \in {"int", "long"} THEN TimerInt!Init ELSE T!Init
  /\ timer01 = [frc |-> 0, ocr |-> [hi |-> 0, lo |-> 0], ocf |-> FALSE, eoci |-> FALSE,
                tcsr_is_read |-> FALSE, ran |-> FALSE, dumped |-> FALSE]
  /\ M6805!TimerInit /\ spi = P!SpiReset /\ Acia!Init
  /\ iflag = (build \in {"6811", "int", "long", "6301"}) /\ pc = "memory" /\ entered = "none"

step_of_6811 == build = "6811" /\ Next /\ UNCHANGED <<build, timer01, timer05, pc, sr>>
step_of_timer11 ==
  /\ \/ build = "int" /\ TimerInt!Next
     \/ build = "long" /\ TimerLong!Next
  /\ UNCHANGED <<build, timer01, timer05, spi, sci, iflag, pc, entered, sr>>
step_of_6301 ==
  build = "6301" /\ H6301!Next /\ UNCHANGED <<build, timer, timer05, spi, pc, sr>>
step_of_timer05 ==
  /\ build = "timer05" /\ Timer05!TimerNext
  /\ UNCHANGED <<build, timer, timer01, spi, sci, iflag, pc, entered, sr>>
step_of_6805 == build = "6805" /\ M6805!Next /\ UNCHANGED <<build, timer, timer01, sr>>
step_of_6800 ==
  /\ build = "6800" /\ Acia!Next
  /\ UNCHANGED <<build, timer, timer01, timer05, spi, iflag, pc, entered>>

AllNext ==
  \/ step_of_6811 \/ step_of_timer11 \/ step_of_6301
  \/ step_of_timer05 \/ step_of_6805 \/ step_of_6800

all_vars == <<build, timer, timer01, timer05, spi, sci, iflag, pc, entered, sr>>

\* No fairness: that the CPU runs on is the premise of LowestServed.
AllSpec == AllInit /\ [][AllNext]_all_vars

-----------------------------------------------------------------------------
(* Properties.                                                             *)

\* The registers of each chip hold what they are for.
AllTypeOK ==
  /\ build = "6811" => TypeOK
  /\ build = "6301" => H6301!TypeOK
  /\ build = "timer05" => Timer05!TypeOK
  /\ build = "6805" => M6805!TypeOK
  /\ build = "6800" => Acia!TypeOK

\* Properties of Chip6301 and Chip6805.
OcfWhilePast == build = "6301" => H6301!OcfWhilePast
AckNeedsCounterBehind ==
  [][build = "6301" => H6301!AckNeedsCounterBehindAction]_timer01
MatchWhenDue == [][Timer05!MatchWhenDueAction]_timer05

\* The source of the lowest priority: the SPI of the 6811 and the 6805, the serial interface of
\* the 6301.
LowestRequested ==
  \/ build = "6811" /\ spi_int
  \/ build = "6301" /\ H6301!SciRequested
  \/ build = "6805" /\ spi.spi_interrupt
lowest_entered ==
  <<build, entered>> \in {<<"6811", "SPIVECTOR">>, <<"6301", "SCIVECTOR">>, <<"6805", "SPIVEC">>}

\* An instruction, or a step into a handler, with interrupts let in and nothing requested by the
\* sources before it that the code serves.
runs_for_lowest ==
  \/ build = "6811" /\ runs_for_spi
  \/ build = "6301" /\ H6301!runs_for_sci
  \/ build = "6805" /\ M6805!runs_for_spi

\* Input captures that are enabled and have no handler hold off nobody: the source of the lowest
\* priority is served, or acknowledged, if again and again the CPU runs on with interrupts let
\* in and nothing requested before it.
LowestServed ==
  []<><<runs_for_lowest>>_all_vars => (LowestRequested ~> ~LowestRequested \/ lowest_entered)
=============================================================================
