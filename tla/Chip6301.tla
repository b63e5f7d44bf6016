------------------------------ MODULE Chip6301 ------------------------------
(***************************************************************************)
(* The HD6301: its timer (timer.c), the interrupt part of instr_exec       *)
(* (instr.c) and the requests of its serial interface (sci.c), with the    *)
(* dispatch of register accesses (ireg.c).  The parallel ports are left    *)
(* out.                                                                    *)
(***************************************************************************)
EXTENDS Integers

CONSTANTS
  ByteSize,      \* number of values of a byte of FRC and OCR
  MaxCycles,     \* the most cycles an instruction takes
  WrittenBytes,  \* bound of the model: the bytes a program writes to OCR
  MaxRx          \* as in SciRequests

VARIABLES
  timer,    \* the timer's registers, a Timer
  sci,      \* as in SciRequests
  iflag,    \* the I bit of the condition codes
  entered   \* history: the vector the last step took, or "none"

vars == <<timer, sci, iflag, entered>>

C == INSTANCE SciRequests

Byte == 0 .. ByteSize - 1
MaxWord == ByteSize * ByteSize - 1
Word(w) == w.hi * ByteSize + w.lo

\* ocf, eoci: the bits of TCSR.  ran: history, an instruction has been executed.
\* dumped: history, the monitor has read TCSR since the last instruction.
Timer ==
  [frc : 0 .. MaxWord, ocr : [hi : Byte, lo : Byte], ocf : BOOLEAN, eoci : BOOLEAN,
   tcsr_is_read : BOOLEAN, ran : BOOLEAN, dumped : BOOLEAN]

-----------------------------------------------------------------------------
(* timer.c, as functions of the timer's record t.                          *)

tcsr_getb(t) == [t EXCEPT !.tcsr_is_read = @ \/ t.ocf]

\* ICF, OCF and TOF are read only.
tcsr_putb(t, eoci) == [t EXCEPT !.eoci = eoci]

ocr_putb(t, half, b) ==
  [t EXCEPT !.ocr[half] = b, !.ocf = @ /\ ~t.tcsr_is_read, !.tcsr_is_read = FALSE]

\* For the mutants: a match only where the counter comes to OCR.
timer_inc_crossing(t, n) ==
  LET hit == t.frc < Word(t.ocr) /\ t.frc + n >= Word(t.ocr)
  IN  [t EXCEPT !.frc = (t.frc + n) % (MaxWord + 1), !.ocf = @ \/ hit,
                !.tcsr_is_read = @ /\ ~hit, !.ran = TRUE, !.dumped = FALSE]

\* For the mutants: setting the flag again does not undo the reading of the status.
timer_inc_keeps_read(t, n) ==
  LET past == t.frc + n >= Word(t.ocr)
  IN  [t EXCEPT !.frc = (t.frc + n) % (MaxWord + 1), !.ocf = @ \/ past,
                !.tcsr_is_read = @ /\ (t.ocf \/ ~past), !.ran = TRUE, !.dumped = FALSE]

\* The n cycles of an instruction: OCF is set by each that ends with the counter, not yet cut
\* to 16 bits, at or past OCR.
timer_inc(t, n) ==
  LET past == t.frc + n >= Word(t.ocr)
  IN  [t EXCEPT !.frc = (t.frc + n) % (MaxWord + 1), !.ocf = @ \/ past,
                !.tcsr_is_read = @ /\ ~past, !.ran = TRUE, !.dumped = FALSE]

-----------------------------------------------------------------------------
(* instr_exec.                                                             *)

compare == timer.ocf /\ timer.eoci

\* The interrupt that is taken when the I bit is clear.
vector ==
  IF compare THEN "OCFVECTOR" ELSE IF C!sci_int(sci) THEN "SCIVECTOR" ELSE "none"

Interrupted == ~iflag /\ vector # "none"

ends_with(t) == \E n \in 1 .. MaxCycles : timer' = timer_inc(t, n)

\* int_addr, and the cycles of a SWI.
interrupt ==
  /\ Interrupted
  /\ entered' = vector /\ iflag' = TRUE /\ ends_with(timer)
  /\ UNCHANGED sci

instruction == ~Interrupted /\ entered' = "none"

\* A read of TCSR, a write, AIM and the like, which read and write, and a write of OCR by one
\* byte or by two, the high one first.
timer_access ==
  /\ instruction
  /\ \/ ends_with(tcsr_getb(timer))
     \/ \E eoci \in BOOLEAN :
          ends_with(tcsr_putb(timer, eoci)) \/ ends_with(tcsr_putb(tcsr_getb(timer), eoci))
     \/ \E half \in {"hi", "lo"}, b \in WrittenBytes : ends_with(ocr_putb(timer, half, b))
     \/ \E hi, lo \in WrittenBytes :
          ends_with(ocr_putb(ocr_putb(timer, "hi", hi), "lo", lo))
  /\ UNCHANGED <<sci, iflag>>

\* TRCSR, TDR and RDR.
trcsr_putb(v) == sci' = C!sccr2_putb(sci, v)
tdr_putb == sci' = C!scdr_putb(sci)
rdr_getb == sci' = C!scdr_getb(sci)
sci_access ==
  /\ instruction /\ ends_with(timer)
  /\ (\E v \in SUBSET C!SciBit : trcsr_putb(v)) \/ tdr_putb \/ rdr_getb
  /\ UNCHANGED iflag

\* CLI, SEI, RTI, and every instruction that concerns nothing here.
set_iflag(b) == instruction /\ ends_with(timer) /\ iflag' = b /\ UNCHANGED sci

instr_exec ==
  interrupt \/ timer_access \/ sci_access \/ \E b \in BOOLEAN : set_iflag(b)

-----------------------------------------------------------------------------
(* Outside the CPU.                                                        *)

\* "md" reads TCSR.
dump ==
  /\ timer' = [tcsr_getb(timer) EXCEPT !.dumped = TRUE]
  /\ entered' = "none" /\ UNCHANGED <<sci, iflag>>

sci_in == sci' = C!sci_in(sci) /\ entered' = "none" /\ UNCHANGED <<timer, iflag>>

\* "R": the I bit; nothing of the timer or of the serial interface.
reset == iflag' = TRUE /\ entered' = "none" /\ UNCHANGED <<timer, sci>>

Init ==
  /\ timer = [frc |-> 0, ocr |-> [hi |-> 0, lo |-> 0], ocf |-> FALSE, eoci |-> FALSE,
              tcsr_is_read |-> FALSE, ran |-> FALSE, dumped |-> FALSE]
  /\ sci = C!SciReset
  /\ iflag = TRUE /\ entered = "none"

Next == instr_exec \/ dump \/ sci_in \/ reset

Spec == Init /\ [][Next]_vars

-----------------------------------------------------------------------------
(* Properties.                                                             *)

TypeOK ==
  /\ timer \in Timer /\ C!SciOK(sci)
  /\ iflag \in BOOLEAN /\ entered \in {"none", "OCFVECTOR", "SCIVECTOR"}

\* OCF is set as long as the counter stands at or past OCR, whatever the program does: no
\* acknowledgement outlasts the instruction, and no match is missed, wrap or no wrap.
OcfWhilePast == timer.ran /\ timer.frc >= Word(timer.ocr) => timer.ocf

\* The program clears OCF only when the counter already stands before OCR: reading TCSR and then
\* moving OCR ahead leaves the flag set, unless the monitor has dumped TCSR right before.
AckNeedsCounterBehindAction ==
  timer.ocf /\ ~timer'.ocf => timer.frc < Word(timer.ocr) \/ timer.dumped

\* An instruction, or a step into a handler, with nothing of higher priority than the serial
\* interface.
runs_for_sci == ~iflag /\ ~compare /\ instr_exec
SciRequested == C!sci_int(sci)

=============================================================================
