------------------------------ MODULE Chip6805 ------------------------------
(***************************************************************************)
(* The MC6805: its timer with the prescaler (timer.c) and instr_exec with  *)
(* its check of the program counter (instr.c), over the SPI and the serial *)
(* interface it shares with the 6811, with the dispatch of register        *)
(* accesses (ireg.c).  The parallel ports are left out.                    *)
(***************************************************************************)
EXTENDS Integers

CONSTANTS
  ByteSize,      \* number of values of a byte of OCR
  IntSize,       \* number of values of u_int, in which cycles are counted
  Cycles,        \* bound of the model: the cycles of an instruction
  WrittenBytes,  \* bound of the model: the bytes a program writes to OCR
  MaxOcr,        \* bound of the model: the highest count a program sets the match to
  MaxRx,         \* as in SciRequests
  SpiByte, SpiSize   \* as in Spi6811

VARIABLES
  timer,    \* the timer's registers, a Timer
  spi,      \* as in Spi6811
  sci,      \* as in SciRequests
  iflag,    \* the I bit of the condition codes
  pc,       \* "memory": the program counter points into RAM or ROM; or "outside"
  entered   \* history: the vector the last step took, or "none"

vars == <<timer, spi, sci, iflag, pc, entered>>

C == INSTANCE SciRequests
P == INSTANCE Spi6811

Byte == 0 .. ByteSize - 1
MaxWord == ByteSize * ByteSize - 1
Word(w) == w.hi * ByteSize + w.lo
Place == {"memory", "outside"}

\* frc, ocr: timer.c's counts, which OCR and the counter's register only show in part.
\* due: history, the ticks from now to the next match as far as cycles tell.
\* matched: history, a match came in the last instruction.
Timer ==
  [OCR : [hi : Byte, lo : Byte], ocf : BOOLEAN, ocie : BOOLEAN, tsr_is_read : BOOLEAN,
   frc : 0 .. MaxOcr + MaxWord, ocr : 0 .. MaxOcr + MaxWord + 1, presc_in : 0 .. IntSize - 1,
   due : 0 .. MaxWord + 1, matched : BOOLEAN]

-----------------------------------------------------------------------------
(* timer.c, as functions of the timer's record t.                          *)

tsr_getb(t) == [t EXCEPT !.tsr_is_read = @ \/ t.ocf]

acknowledged(t) == [t EXCEPT !.ocf = @ /\ ~t.tsr_is_read, !.tsr_is_read = FALSE]

\* The low byte of OCR; its high byte is plain memory.
ocr_getb(t) == acknowledged(t)

put_high(t, b) == [t EXCEPT !.OCR.hi = b]

\* The match is set relative to the counter.
ocr_putb(t, b) ==
  LET value == Word([t.OCR EXCEPT !.lo = b])
  IN  [acknowledged(t) EXCEPT !.OCR.lo = b, !.ocr = value + t.frc, !.due = value]

\* The ticks of n cycles: the prescaler's count before is taken from the one after, and the other
\* way round when u_int has wrapped.
ticks(t, n) ==
  LET last == t.presc_in \div 4
      out == ((t.presc_in + n) % IntSize) \div 4
  IN  IF out >= last THEN out - last ELSE last - out

\* A step of the timer to frc, whose next match is at ocr.
advanced(t, n, matched, frc, ocr, read) ==
  [t EXCEPT !.presc_in = (@ + n) % IntSize, !.frc = frc, !.ocr = ocr,
            !.ocf = @ \/ matched, !.tsr_is_read = read,
            !.due = IF matched THEN MaxWord + 1 ELSE @ - ((t.presc_in % 4) + n) \div 4,
            !.matched = matched]

\* For the mutants: the next match is set without the counter.
timer_inc_from_zero(t, n) ==
  LET frc == t.frc + ticks(t, n)
  IN  IF frc >= t.ocr
      THEN advanced(t, n, TRUE, frc % (MaxWord + 1), MaxWord + 1, t.tsr_is_read /\ t.ocf)
      ELSE advanced(t, n, FALSE, frc, t.ocr, t.tsr_is_read)

\* A match brings the counter back to 16 bits and sets the next one a whole round away.
timer_inc(t, n) ==
  LET frc == t.frc + ticks(t, n)
      cut == frc % (MaxWord + 1)
  IN  IF frc >= t.ocr
      THEN advanced(t, n, TRUE, cut, cut + MaxWord + 1, t.tsr_is_read /\ t.ocf)
      ELSE advanced(t, n, FALSE, frc, t.ocr, t.tsr_is_read)

-----------------------------------------------------------------------------
(* instr_exec.                                                             *)

timer_int == timer.ocf /\ timer.ocie

\* For the mutants: no branch for the SPI.
vector_no_spi ==
  IF timer_int THEN "TIOVEC" ELSE IF C!sci_int(sci) THEN "SCIVEC" ELSE "none"

\* The interrupt that is taken when the I bit is clear.
vector ==
  IF timer_int THEN "TIOVEC"
  ELSE IF C!sci_int(sci) THEN "SCIVEC"
  ELSE IF spi.spi_interrupt THEN "SPIVEC"
  ELSE "none"

Interrupted == ~iflag /\ vector # "none"

Ticked == {timer_inc(timer, n) : n \in Cycles}

\* int_6805, then the check of the program counter: outside of memory the step fails, without
\* the cycles.
interrupt ==
  /\ Interrupted
  /\ entered' = vector /\ iflag' = TRUE
  /\ pc' \in Place
  /\ IF pc' = "memory" THEN timer' \in Ticked ELSE UNCHANGED timer
  /\ UNCHANGED <<spi, sci>>

\* The error ends the command; the next finds the same.
invalid_pc ==
  ~Interrupted /\ pc = "outside" /\ entered' = "none" /\ UNCHANGED <<timer, spi, sci, iflag, pc>>

\* An instruction accesses the registers after its cycles have been counted.
instruction ==
  ~Interrupted /\ pc = "memory" /\ entered' = "none" /\ pc' \in Place

\* What an instruction makes of the timer.  TCR is plain memory; STX and the like write one byte.
accesses(t) ==
  {t, tsr_getb(t), ocr_getb(t)}
  \cup {[t EXCEPT !.ocie = b] : b \in BOOLEAN}
  \cup {put_high(t, b) : b \in WrittenBytes}
  \cup {ocr_putb(t, b) :
          b \in {w \in WrittenBytes : Word([t.OCR EXCEPT !.lo = w]) + t.frc <= MaxOcr}}

timer_access ==
  /\ instruction
  /\ \E t \in Ticked : timer' \in accesses(t)
  /\ UNCHANGED <<spi, sci, iflag>>

spi_access ==
  /\ instruction /\ timer' \in Ticked
  /\ spi' \in P!accesses(spi) \cup P!modifies(spi)
  /\ UNCHANGED <<sci, iflag>>

sci_access ==
  /\ instruction /\ timer' \in Ticked
  /\ \/ \E v \in SUBSET C!SciBit : sci' = C!sccr2_putb(sci, v)
     \/ sci' \in {C!scdr_putb(sci), C!scdr_getb(sci)}
  /\ UNCHANGED <<spi, iflag>>

set_iflag(b) == instruction /\ timer' \in Ticked /\ iflag' = b /\ UNCHANGED <<spi, sci>>

instr_exec ==
  \/ interrupt \/ invalid_pc
  \/ timer_access \/ spi_access \/ sci_access
  \/ \E b \in BOOLEAN : set_iflag(b)

-----------------------------------------------------------------------------
(* Outside the CPU.                                                        *)

\* "md" reads TSR, OCR and the SPI's registers; "mm" and "mf" write the latter.
dump_timer == timer' \in {tsr_getb(timer), ocr_getb(timer)}
memory_cmd ==
  /\ \/ dump_timer /\ UNCHANGED spi
     \/ spi' \in P!accesses(spi) /\ UNCHANGED timer
  /\ entered' = "none" /\ UNCHANGED <<sci, iflag, pc>>

input ==
  /\ \/ sci' = C!sci_in(sci) /\ UNCHANGED spi
     \/ (\E byte \in SpiByte : spi' = P!spi_in(spi, byte)) /\ UNCHANGED sci
  /\ entered' = "none" /\ UNCHANGED <<timer, iflag, pc>>

\* "R": the stack pointer and the program counter, not the I bit.
reset == pc' = "memory" /\ entered' = "none" /\ UNCHANGED <<timer, spi, sci, iflag>>

TimerInit ==
  timer = [OCR |-> [hi |-> 0, lo |-> 0], ocf |-> FALSE, ocie |-> FALSE, tsr_is_read |-> TRUE,
           frc |-> 0, ocr |-> MaxWord + 1, presc_in |-> 0,
           due |-> MaxWord + 1, matched |-> FALSE]

Init ==
  /\ TimerInit
  /\ spi = P!SpiReset /\ sci = C!SciReset
  /\ iflag = FALSE /\ pc = "memory" /\ entered = "none"

Next == instr_exec \/ memory_cmd \/ input \/ reset

\* The timer by itself.
TimerNext == (\E t \in Ticked : timer' \in accesses(t)) \/ dump_timer

Spec == Init /\ [][Next]_vars

-----------------------------------------------------------------------------
(* Properties.                                                             *)

\* The next match is never behind the counter and never more than a round ahead.
TypeOK ==
  /\ timer \in Timer
  /\ timer.frc <= timer.ocr /\ timer.ocr <= timer.frc + MaxWord + 1
  /\ P!SpiOK(spi) /\ C!SciOK(sci)
  /\ iflag \in BOOLEAN /\ pc \in Place
  /\ entered \in {"none", "TIOVEC", "SCIVEC", "SPIVEC"}

\* A match comes in just the instruction in which the ticks since the low byte of OCR was
\* written reach its value, or those since the last match a whole round; but one in which the
\* count of cycles wraps brings a match at once.
MatchWhenDueAction ==
  timer'.presc_in # timer.presc_in =>
    LET n == (timer'.presc_in - timer.presc_in) % IntSize
        wrapped == timer'.presc_in < timer.presc_in
    IN  timer'.matched <=> wrapped \/ timer.due <= ((timer.presc_in % 4) + n) \div 4

\* An instruction, or a step into a handler, with nothing of higher priority than the SPI.
runs_for_spi == ~iflag /\ ~timer_int /\ ~C!sci_int(sci) /\ instr_exec

=============================================================================
