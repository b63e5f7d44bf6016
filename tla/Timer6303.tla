------------------------------ MODULE Timer6303 ------------------------------
(***************************************************************************)
(* The timers of the HD6303: the free running counter, the two compare     *)
(* registers and the status registers TCSR1 and TCSR2, and timer 2, which  *)
(* counts with it (timer.c), with the dispatch of register accesses        *)
(* (ireg.c).                                                               *)
(*                                                                         *)
(* The program is any program that does not write the counter FRC itself:  *)
(* an instruction may access any other register, one byte or two, and the  *)
(* timers advance at its end.  The monitor may dump the registers between  *)
(* any two instructions.                                                   *)
(***************************************************************************)
EXTENDS Timer6303Registers

VARIABLE timer   \* the timer's registers and flags, a Timer

\* match1, match2: history of each compare register, "none" when no match is outstanding,
\* "unread" from a match until the status register is read, then "read" until the compare
\* register is written.
Match == {"none", "unread", "read"}

Timer ==
  [tcsr1 : SUBSET TcsrBit, tcsr2 : SUBSET TcsrBit,
   tcsr_is_read : BOOLEAN, tcsr2_is_read : BOOLEAN,
   frc : 0 .. MaxWord, ocr1 : [hi : Byte, lo : Byte], ocr2 : [hi : Byte, lo : Byte],
   match1 : Match, match2 : Match,
   t2cnt : Byte, tconr : Byte, cmf : BOOLEAN]   \* cmf: bit CMF of TCSR3

AfterRead(m) == IF m = "unread" THEN "read" ELSE m
AfterWrite(m) == IF m = "read" THEN "none" ELSE m

-----------------------------------------------------------------------------
(* timer.c, as functions of the timer's record t.                          *)

tcsr1_getb(t) ==
  [t EXCEPT !.tcsr_is_read = @ \/ OCF1 \in t.tcsr1, !.match1 = AfterRead(@)]

\* OCF1 is readable in TCSR2 too.
tcsr2_getb(t) ==
  [t EXCEPT !.tcsr_is_read = @ \/ OCF1 \in t.tcsr1, !.match1 = AfterRead(@),
            !.tcsr2_is_read = @ \/ OCF2 \in t.tcsr2, !.match2 = AfterRead(@)]

tcsr1_putb(t, v) ==
  LET read_only == {ICF, OCF1, TOF}
  IN  [t EXCEPT !.tcsr1 = (@ \cap read_only) \cup (v \ read_only)]

\* A write of TCSR2 goes to TCSR, which is TCSR1.
tcsr2_putb(t, v) ==
  LET read_only == {ICF, OCF2, OCF1}
  IN  [t EXCEPT !.tcsr1 = (@ \cap read_only) \cup (v \ read_only)]

\* OCF1 falls when the status was read before.
ocr1_putb(t, half, b) ==
  [t EXCEPT !.ocr1[half] = b,
            !.tcsr1 = IF t.tcsr_is_read THEN @ \ {OCF1} ELSE @,
            !.tcsr_is_read = FALSE,
            !.match1 = AfterWrite(@)]

\* For the mutants: ocr2_putb, which timer.c has and nothing installs.
ocr2_putb(t, half, b) ==
  [t EXCEPT !.ocr2[half] = b, !.match2 = AfterWrite(@),
            !.tcsr2 = IF t.tcsr2_is_read THEN @ \ {OCF2} ELSE @,
            !.tcsr2_is_read = FALSE]

\* No function is installed for OCR2: the byte is stored in iram.
iram_ocr2(t, half, b) ==
  [t EXCEPT !.ocr2[half] = b, !.match2 = AfterWrite(@)]

\* Timer 2 at the end of an instruction, when FRC has gone to frc_new: its count, and whether
\* it passed TCONR.  What enables it and selects its clock is read from TCONR, which follows
\* TCSR3.
t2_inc(t, frc_new) ==
  LET clock == Prescaler[t.tconr]
      count == t.t2cnt + (frc_new \div clock) - (t.frc \div clock)
      passed == t.tconr \in T2Counting /\ count >= t.tconr /\ t.t2cnt < t.tconr
  IN  [t2cnt |-> IF t.tconr \notin T2Counting THEN t.t2cnt
                 ELSE (IF passed THEN count - t.tconr ELSE count) % ByteSize,
       passed |-> passed]

\* For the mutants: a new match does not undo an earlier reading of the status.
timer_inc_keeps_read(t, n) ==
  LET hit == t.frc < Word(t.ocr1) /\ Word(t.ocr1) <= t.frc + n
  IN  [t EXCEPT !.frc = (t.frc + n) % (MaxWord + 1),
                !.tcsr1 = IF hit THEN @ \cup {OCF1} ELSE @,
                !.match1 = IF hit THEN "unread" ELSE @]

\* For the mutants: the match comes when the counter has gone past the compare value.
timer_inc_past(t, n) ==
  LET hit == t.frc < Word(t.ocr1) /\ Word(t.ocr1) < t.frc + n
  IN  [t EXCEPT !.frc = (t.frc + n) % (MaxWord + 1),
                !.tcsr1 = IF hit THEN @ \cup {OCF1} ELSE @,
                !.tcsr_is_read = @ /\ ~hit,
                !.match1 = IF hit THEN "unread" ELSE @]

\* The match of each compare register, and the count of timer 2, during an instruction of n
\* cycles: frc_new is not yet cut to 16 bits.
timer_inc(t, n) ==
  LET matches(ocr) == t.frc + n >= Word(ocr) /\ t.frc < Word(ocr)
      m1 == matches(t.ocr1)
      m2 == matches(t.ocr2)
      t2 == t2_inc(t, t.frc + n)
  IN  [t EXCEPT !.frc = (t.frc + n) % (MaxWord + 1),
                !.tcsr1 = IF m1 THEN @ \cup {OCF1} ELSE @,
                !.tcsr_is_read = @ /\ ~m1,
                !.match1 = IF m1 THEN "unread" ELSE @,
                !.tcsr2 = IF m2 THEN @ \cup {OCF2} ELSE @,
                !.tcsr2_is_read = @ /\ ~m2 /\ ~t2.passed,
                !.match2 = IF m2 THEN "unread" ELSE @,
                !.t2cnt = t2.t2cnt,
                !.cmf = @ \/ t2.passed]

-----------------------------------------------------------------------------
(* The instructions.                                                       *)

\* The end of instr_exec: the timer advances by the cycles of the instruction, which left its
\* registers as t.
ends_with(t) == \E n \in 1 .. MaxCycles : timer' = timer_inc(t, n)

read_tcsr1 == ends_with(tcsr1_getb(timer))
read_tcsr2 == ends_with(tcsr2_getb(timer))
write_tcsr1(v) == ends_with(tcsr1_putb(timer, v))
write_tcsr2(v) == ends_with(tcsr2_putb(timer, v))
\* AIM, OIM and EIM read the register and then write it.
modify_tcsr1(v) == ends_with(tcsr1_putb(tcsr1_getb(timer), v))
modify_tcsr2(v) == ends_with(tcsr2_putb(tcsr2_getb(timer), v))
write_ocr1(half, b) == ends_with(ocr1_putb(timer, half, b))
write_ocr2(half, b) == ends_with(iram_ocr2(timer, half, b))
\* STD, STX and STS write two registers, the high byte first.
write_ocr1_word(hi, lo) == ends_with(ocr1_putb(ocr1_putb(timer, "hi", hi), "lo", lo))
write_ocr2_word(hi, lo) == ends_with(iram_ocr2(iram_ocr2(timer, "hi", hi), "lo", lo))

\* Timer 2's registers are plain memory; CMF is the highest bit of TCSR3.
write_tconr(b) == ends_with([timer EXCEPT !.tconr = b])
write_t2cnt(b) == ends_with([timer EXCEPT !.t2cnt = b])
write_tcsr3(b) == ends_with([timer EXCEPT !.cmf = 2 * b >= ByteSize])
write_ocr2_tcsr3(lo, b) ==
  ends_with([iram_ocr2(timer, "lo", lo) EXCEPT !.cmf = 2 * b >= ByteSize])
write_tcsr3_tconr(b, c) == ends_with([timer EXCEPT !.cmf = 2 * b >= ByteSize, !.tconr = c])
write_tconr_t2cnt(b, c) == ends_with([timer EXCEPT !.tconr = b, !.t2cnt = c])

\* An instruction that accesses the timer.
access ==
  \/ read_tcsr1 \/ read_tcsr2
  \/ \E v \in SUBSET WrittenBits :
       write_tcsr1(v) \/ write_tcsr2(v) \/ modify_tcsr1(v) \/ modify_tcsr2(v)
  \/ \E half \in {"hi", "lo"}, b \in WrittenBytes : write_ocr1(half, b) \/ write_ocr2(half, b)
  \/ \E hi, lo \in WrittenBytes : write_ocr1_word(hi, lo) \/ write_ocr2_word(hi, lo)
  \/ \E b \in WrittenT2 : write_tconr(b) \/ write_t2cnt(b) \/ write_tcsr3(b)
  \/ \E lo \in WrittenBytes, b \in WrittenT2 : write_ocr2_tcsr3(lo, b)
  \/ \E b, c \in WrittenT2 : write_tcsr3_tconr(b, c) \/ write_tconr_t2cnt(b, c)

\* Any other instruction, and the entry of an interrupt.
tick == ends_with(timer)

\* "md" calls the registers' functions as the program does, whether the CPU runs or not.
dump == timer' \in {tcsr1_getb(timer), tcsr2_getb(timer), tcsr2_getb(tcsr1_getb(timer))}

Init ==
  timer = [tcsr1 |-> {}, tcsr2 |-> {}, tcsr_is_read |-> FALSE, tcsr2_is_read |-> FALSE,
           frc |-> 0, ocr1 |-> [hi |-> 0, lo |-> 0], ocr2 |-> [hi |-> 0, lo |-> 0],
           match1 |-> "none", match2 |-> "none",
           t2cnt |-> 0, tconr |-> 0, cmf |-> FALSE]

Next == access \/ tick \/ dump

Spec == Init /\ [][Next]_timer

-----------------------------------------------------------------------------
(* Properties.                                                             *)

\* The registers hold bits and bytes, and nothing but a match of OCR2 changes TCSR2.
TypeOK ==
  /\ timer \in Timer
  /\ {ICF, TOF} \cap timer.tcsr1 = {} /\ timer.tcsr2 \subseteq {OCF2}

\* OCF1 is set exactly from a match until the status, TCSR1 or TCSR2, has been read and then a
\* byte of OCR1 written: no match that nobody has read is lost, even one that comes between
\* the reading and the writing or at the end of the writing, and none is reported twice.
Ocf1Exact == OCF1 \in timer.tcsr1 <=> timer.match1 # "none"

\* An instruction in which the counter goes past the value of OCR1, or comes to it, without
\* wrapping leaves OCF1 set; no other instruction sets it.
MatchUnlessWrapAction ==
  LET matched == timer'.frc > timer.frc /\ Word(timer'.ocr1) \in timer.frc + 1 .. timer'.frc
  IN  /\ matched => OCF1 \in timer'.tcsr1
      /\ OCF1 \in timer'.tcsr1 \ timer.tcsr1 =>
           \/ matched
           \/ timer'.frc < timer.frc /\ Word(timer'.ocr1) > timer.frc

\* OCF2 cannot be acknowledged: once it is set it stays set, whatever the program reads and
\* writes.
Ocf2NeverFallsAction == OCF2 \in timer.tcsr2 => OCF2 \in timer'.tcsr2

\* "Output Compare Flag: FRC matched OCR": an instruction in which the counter passes the
\* value of OCR1 leaves OCF1 set, wherever the counter stands.
MatchSetsOcf1 ==
  [][LET size == MaxWord + 1
         passed == (timer'.frc - timer.frc + size) % size
     IN  (Word(timer'.ocr1) - timer.frc + size) % size \in 1 .. passed
           => OCF1 \in timer'.tcsr1]_timer

=============================================================================
