------------------------------ MODULE Chip6811 ------------------------------
(***************************************************************************)
(* The MC68HC11: the interrupt part of instr_exec (instr.c) over the timer *)
(* of Timer6811, the SPI of Spi6811 and the control side of the serial     *)
(* interface (sci.c).                                                      *)
(*                                                                         *)
(* Interrupts come between any two instructions that leave the I bit       *)
(* clear.  Bytes come in for the SCI and the SPI between any two, and the  *)
(* monitor reads and writes the SPI's registers or resets the chip.        *)
(***************************************************************************)
EXTENDS Timer6811Registers, Sequences

CONSTANTS
  SpiByte, SpiSize,  \* as in Spi6811
  MaxRx              \* bound of the model: bytes waiting in the SCI's receive buffer

ASSUME ChipAssumption == SpiSize \in Nat /\ MaxRx \in Nat

VARIABLES
  timer,        \* as in Timer6811
  spi,          \* as in Spi6811
  sci,          \* as in SciRequests
  iflag,        \* the I bit of the condition codes
  entered       \* history: the vector the last step took, or "none"

vars == <<timer, spi, sci, iflag, entered>>

T == INSTANCE Timer6811
P == INSTANCE Spi6811
C == INSTANCE SciRequests

TOCVECTOR == <<"TOC1VECTOR", "TOC2VECTOR", "TOC3VECTOR", "TOC4VECTOR", "TOC5VECTOR">>
Vector == {TOCVECTOR[i] : i \in 1 .. 5} \cup {"SCIVECTOR", "SPIVECTOR"}

-----------------------------------------------------------------------------
(* The interrupts.                                                         *)

sci_int == C!sci_int(sci)

\* The SPI's enable bit was looked at when the transfer ended.
spi_int == spi.spi_interrupt

\* The interrupt that instr_exec takes when the I bit is clear, by priority: a timer flag that
\* is enabled keeps the SCI and the SPI out.
vector ==
  LET tflags == timer.tflg1 \cap timer.tmsk1
      matched == {i \in Compare : i \in tflags}
  IN  IF tflags # {}
      THEN (IF matched = {} THEN "none"
            ELSE TOCVECTOR[CHOOSE i \in matched : \A j \in matched : i <= j])
      ELSE IF sci_int THEN "SCIVECTOR"
      ELSE IF spi_int THEN "SPIVECTOR"
      ELSE "none"

Interrupted == ~iflag /\ vector # "none"

\* int_6811, and the cycles of a SWI.
interrupt ==
  /\ Interrupted
  /\ entered' = vector
  /\ iflag' = TRUE
  /\ T!tick
  /\ UNCHANGED <<spi, sci>>

-----------------------------------------------------------------------------
(* The instructions, when no interrupt comes first.                        *)

instruction == ~Interrupted /\ entered' = "none"

timer_access ==
  instruction /\ T!access /\ UNCHANGED <<spi, sci, iflag>>

spi_access ==
  /\ instruction /\ T!tick
  /\ spi' \in P!accesses(spi) \cup P!modifies(spi) \cup P!accesses_words(spi)
  /\ UNCHANGED <<sci, iflag>>

sci_access ==
  /\ instruction /\ T!tick
  /\ \/ \E v \in SUBSET C!SciBit : sci' = C!sccr2_putb(sci, v)
     \/ sci' = C!scdr_putb(sci)
     \/ sci' = C!scdr_getb(sci)
  /\ UNCHANGED <<spi, iflag>>

\* CLI, SEI, TAP; RTI, which clears the I bit again; and every instruction that concerns
\* nothing here.
set_iflag(b) ==
  /\ instruction /\ T!tick /\ iflag' = b
  /\ UNCHANGED <<spi, sci>>

instr_exec ==
  \/ interrupt
  \/ timer_access \/ spi_access \/ sci_access
  \/ \E b \in BOOLEAN : set_iflag(b)

-----------------------------------------------------------------------------
(* Outside the CPU.                                                        *)

\* "md" reads the SPI's registers and "mm" and "mf" write them, one byte a step, as the program
\* does but without its cycles; "md" takes nothing from the SCI.
memory_cmd ==
  /\ spi' \in P!accesses(spi)
  /\ entered' = "none"
  /\ UNCHANGED <<timer, sci, iflag>>

\* "R": the timer and the I bit; nothing of the SCI or of the SPI.
reset ==
  /\ T!reset /\ iflag' = TRUE /\ entered' = "none"
  /\ UNCHANGED <<spi, sci>>

sci_in ==
  /\ sci' = C!sci_in(sci) /\ entered' = "none"
  /\ UNCHANGED <<timer, spi, iflag>>

spi_in ==
  /\ \E byte \in SpiByte : spi' = P!spi_in(spi, byte)
  /\ entered' = "none"
  /\ UNCHANGED <<timer, sci, iflag>>

Init ==
  /\ T!Init /\ spi = P!SpiReset /\ sci = C!SciReset
  /\ iflag = TRUE /\ entered = "none"

Next == instr_exec \/ memory_cmd \/ reset \/ sci_in \/ spi_in

Spec == Init /\ [][Next]_vars

-----------------------------------------------------------------------------
(* Properties.                                                             *)

\* The registers hold what they are for; the SPI's buffer is not overrun, and the SCI's
\* transmitter requests an interrupt exactly while one is enabled.
TypeOK ==
  /\ T!TypeOK /\ P!SpiOK(spi) /\ C!SciOK(sci)
  /\ iflag \in BOOLEAN /\ entered \in Vector \cup {"none"}

\* The SPI's request for a transfer is withdrawn only after the program, or the monitor, has read
\* that transfer's status; a SPIF that falls before was written, which changes nothing else.
SpiAcknowledgedAfterStatus == [][P!SpiAcknowledged(spi, spi')]_vars

\* Properties of Timer6811, in the chip too: OC1F follows TOC1, and TOC2 to TOC5 match together,
\* whatever interrupts the program and whenever the monitor resets the chip.
Oc1MatchesToc1 == [][T!Oc1MatchesToc1Action]_timer
UnlatchedTogether == [][T!UnlatchedTogetherAction]_timer

\* An instruction, or a step into a handler, with nothing of higher priority than the SPI that
\* the code serves: an input capture that is enabled is not among it.
runs_for_spi ==
  ~iflag /\ timer.tflg1 \cap timer.tmsk1 \cap Compare = {} /\ ~sci_int /\ instr_exec

=============================================================================
