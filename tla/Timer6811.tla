------------------------------ MODULE Timer6811 ------------------------------
(***************************************************************************)
(* The output compares of the MC68HC11: the counter TCNT, the compare      *)
(* registers TOC1 to TOC5, the ticks the simulator counts down to each     *)
(* match, and the flags TFLG1 with their mask TMSK1 (timer.c), with the    *)
(* dispatch of register accesses (ireg.c).                                 *)
(*                                                                         *)
(* The program is any program that does not write TCNT itself.  The        *)
(* monitor may reset the chip between any two instructions.                *)
(***************************************************************************)
EXTENDS Timer6811Registers

VARIABLE timer   \* the timer's registers, a Timer

MaxTicks == IntSize + MaxWord + 1

\* settled: history of TOC1.  It holds the value the ticks were last counted from, and ticks
\* could hold the count.
Timer ==
  [tcnt : 0 .. MaxWord, toc : [Compare -> [hi : Byte, lo : Byte]],
   ticks : [Compare -> 0 .. MaxTicks], tflg1 : SUBSET Flag, tmsk1 : SUBSET Flag,
   settled : BOOLEAN]

-----------------------------------------------------------------------------
(* timer.c, as functions of the timer's record t.                          *)

\* For the mutants: the written flags are stored.
tflg_putb_stores(t, v) == [t EXCEPT !.tflg1 = v]

\* A flag is cleared by writing a one to it.
tflg_putb(t, v) == [t EXCEPT !.tflg1 = @ \ v]

\* The registers ireg.c installs toc_putb for; a write to another is kept in iram.  For the
\* mutants: two of them.
Latching_two == {1, 2}
Latching == {1}

\* The count to the match, from the register and the counter: a u_int difference in a long.
latched(toci, tcnt) ==
  IF LongExceedsInt THEN (toci - tcnt) % IntSize ELSE (toci - tcnt) % (MaxWord + 1)

\* Writing the low byte counts from the register as it is before that byte is stored.
toc_putb(t, i, half, b) ==
  LET latch == half = "lo" /\ i \in Latching
  IN  [t EXCEPT
         !.toc[i][half] = b,
         !.ticks[i] = IF latch THEN latched(Word(t.toc[i]), t.tcnt) ELSE @,
         !.settled =
            IF i # 1 THEN @
            ELSE IF latch THEN b = t.toc[1].lo /\ ~(LongExceedsInt /\ Word(t.toc[1]) < t.tcnt)
            ELSE @ /\ b = t.toc[1][half]]

\* TCNT returns to 0 and the compare registers to ffff; the ticks stay.
timer_reset(t) ==
  [t EXCEPT !.tcnt = 0, !.tmsk1 = {}, !.tflg1 = {}, !.settled = FALSE,
            !.toc = [i \in Compare |-> [hi |-> ByteSize - 1, lo |-> ByteSize - 1]]]

\* For the mutants: the match comes one tick after the counter's.
timer_inc_late(t, n) ==
  LET left == [i \in Compare |-> t.ticks[i] - n]
  IN  [t EXCEPT !.tcnt = (@ + n) % (MaxWord + 1),
                !.ticks = [i \in Compare |-> left[i] + IF left[i] < 0 THEN MaxWord + 1 ELSE 0],
                !.tflg1 = @ \cup {i \in Compare : left[i] < 0}]

\* The n cycles of an instruction.
timer_inc(t, n) ==
  LET left == [i \in Compare |-> t.ticks[i] - n]
      matching == {i \in Compare : left[i] <= 0}
  IN  [t EXCEPT !.tcnt = (@ + n) % (MaxWord + 1),
                !.ticks = [i \in Compare |-> left[i] + IF i \in matching THEN MaxWord + 1 ELSE 0],
                !.tflg1 = @ \cup matching]

-----------------------------------------------------------------------------
(* The instructions.                                                       *)

ends_with(t) == \E n \in 1 .. MaxCycles : timer' = timer_inc(t, n)

write_tmsk1(v) == ends_with([timer EXCEPT !.tmsk1 = v])
write_tflg1(v) == ends_with(tflg_putb(timer, v))
\* BSET and BCLR read the register, and write it with the bits of the mask set or cleared.
bset_tflg1(v) == ends_with(tflg_putb(timer, timer.tflg1 \cup v))
bclr_tflg1(v) == ends_with(tflg_putb(timer, timer.tflg1 \ v))
write_toc(i, half, b) == ends_with(toc_putb(timer, i, half, b))
\* STD and the like write the high byte and then the low byte.
write_toc_word(i, hi, lo) == ends_with(toc_putb(toc_putb(timer, i, "hi", hi), i, "lo", lo))

\* An instruction that writes a register of the timer.
access ==
  \/ \E v \in SUBSET WrittenMasks : write_tmsk1(v)
  \/ \E v \in SUBSET WrittenFlags :
       write_tflg1(v) \/ bset_tflg1(v) \/ bclr_tflg1(v)
  \/ \E i \in WrittenCompare :
       \/ \E half \in {"hi", "lo"}, b \in WrittenBytes : write_toc(i, half, b)
       \/ \E hi, lo \in WrittenBytes : write_toc_word(i, hi, lo)

\* Any other instruction, and the entry of an interrupt.
tick == ends_with(timer)

\* "R" between two instructions.
reset == timer' = timer_reset(timer)

\* The monitor resets the chip when it starts.
Init ==
  timer = timer_reset([tcnt |-> 0, toc |-> [i \in Compare |-> [hi |-> 0, lo |-> 0]],
                       ticks |-> [i \in Compare |-> 0], tflg1 |-> {}, tmsk1 |-> {},
                       settled |-> FALSE])

Next == access \/ tick \/ reset

Spec == Init /\ [][Next]_timer

-----------------------------------------------------------------------------
(* Properties.                                                             *)

\* The registers hold bytes and bits, the count of a match never runs below 0, and no input
\* capture flag is ever set.
TypeOK ==
  /\ timer \in Timer
  /\ IC \notin timer.tflg1

\* How far the counter stands before a value, and how far it moved, both round the wrap.
Ahead(value) == (value - timer.tcnt) % (MaxWord + 1)
Moved == (timer'.tcnt - timer.tcnt) % (MaxWord + 1)

\* OC1F is set in just the instructions in which TCNT comes to the value of TOC1 or passes it,
\* wrap or no wrap, as long as TOC1 is written so that its low byte stays what it was, once
\* its high byte is in place, and, where long is wider than u_int, ahead of TCNT.
Oc1MatchesToc1Action ==
  timer'.settled =>
    LET ahead == Ahead(Word(timer'.toc[1]))
    IN  /\ ahead \in 1 .. Moved => 1 \in timer'.tflg1
        /\ 1 \in timer'.tflg1 \ timer.tflg1 => ahead <= Moved

\* TOC2 to TOC5 match together, whatever values the program writes to them.
UnlatchedTogetherAction ==
  \A i, j \in Compare \ {1} : i \in timer'.tflg1 \ timer.tflg1 => j \in timer'.tflg1

=============================================================================
