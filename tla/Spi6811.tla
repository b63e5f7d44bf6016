------------------------------- MODULE Spi6811 -------------------------------
(***************************************************************************)
(* The SPI of the MC68HC11 (spi.c) as functions of its record: a transfer  *)
(* ends as soon as SPDR is written, and clocks in the oldest of the bytes  *)
(* the outside has queued.                                                 *)
(***************************************************************************)
EXTENDS Integers, Sequences

CONSTANTS
  SpiByte,   \* the bytes that are queued
  SpiSize    \* BUFSIZE

\* spdr: the queued byte SPDR holds, or "own" for the one the program wrote.
\* taken: spi_rx_index, the bytes of the buffer clocked in; the others wait.
\* seen: history, SPSR was read since the last transfer.
Spi ==
  [spsr_is_read : BOOLEAN, spif : BOOLEAN, spie : BOOLEAN, spi_interrupt : BOOLEAN,
   spdr : SpiByte \cup {"own"}, waiting : Seq(SpiByte), taken : 0 .. SpiSize, seen : BOOLEAN]

SpiReset ==
  [spsr_is_read |-> FALSE, spif |-> FALSE, spie |-> FALSE, spi_interrupt |-> FALSE,
   spdr |-> "own", waiting |-> <<>>, taken |-> 0, seen |-> FALSE]

spi_nbytes(s) == s.taken + Len(s.waiting)

\* A byte is refused when the buffer has been filled, whatever was taken from it since.
spi_in(s, byte) ==
  IF spi_nbytes(s) < SpiSize THEN [s EXCEPT !.waiting = Append(@, byte)] ELSE s

spsr_getb(s) == [s EXCEPT !.spsr_is_read = TRUE, !.seen = TRUE]

\* Neither register has a function for writes.  SPSR takes SPIF as it is written, and the
\* interrupt that was requested stays.
write_spcr(s, spie) == [s EXCEPT !.spie = spie]
write_spsr(s, spif) == [s EXCEPT !.spif = spif]

acknowledged(s) ==
  IF s.spsr_is_read THEN [s EXCEPT !.spif = FALSE, !.spi_interrupt = FALSE] ELSE s

spdr_getb(s) == acknowledged(s)

\* The end of a transfer; the buffer starts over when it is empty.
transfer(s) ==
  LET left == s.waiting # <<>>
      rest == IF left THEN Tail(s.waiting) ELSE <<>>
  IN  [s EXCEPT !.spif = TRUE, !.spi_interrupt = @ \/ s.spie,
                !.spdr = IF left THEN Head(s.waiting) ELSE "own",
                !.waiting = rest, !.seen = FALSE,
                !.taken = IF rest = <<>> THEN 0 ELSE @ + 1]

\* For the mutants: the reading of the status outlasts the transfer.
spdr_putb_keeps_read(s) ==
  LET a == acknowledged(s)
  IN  IF a.spif THEN a ELSE transfer(a)

\* The write is inhibited while SPIF is set.
spdr_putb(s) ==
  LET a == acknowledged(s)
  IN  [(IF a.spif THEN a ELSE transfer(a)) EXCEPT !.spsr_is_read = FALSE]

-----------------------------------------------------------------------------
(* The accesses of an instruction.                                         *)

\* One byte is read or written.
accesses(s) ==
  {spsr_getb(s), spdr_getb(s), spdr_putb(s)}
  \cup {write_spcr(s, b) : b \in BOOLEAN} \cup {write_spsr(s, b) : b \in BOOLEAN}

\* BSET, INC and the like read the byte and write it.
modifies(s) == {spdr_putb(spdr_getb(s))} \cup {write_spsr(spsr_getb(s), b) : b \in BOOLEAN}

\* LDD, STD and the like, of registers that follow each other: SPCR, SPSR and SPDR.
accesses_words(s) ==
  {spdr_getb(spsr_getb(s))}
  \cup {write_spsr(write_spcr(s, a), b) : a, b \in BOOLEAN}
  \cup {spdr_putb(write_spsr(s, b)) : b \in BOOLEAN}

-----------------------------------------------------------------------------
(* Properties, of a record s and a step from s to t.                       *)

\* The buffer of SpiSize bytes is not overrun, and gives its room back when the last byte is
\* taken.
SpiOK(s) ==
  /\ s \in Spi
  /\ s.waiting = <<>> => s.taken = 0
  /\ spi_nbytes(s) <= SpiSize

\* A request is withdrawn only after the program has read the status of the very transfer that
\* made it: not by clearing SPIE, and not by writing SPSR.  Where SPIF falls without that
\* reading, the program has written SPSR, and all but SPCR is as it was.
SpiAcknowledged(s, t) ==
  ~s.seen /\ ~t.seen =>
    /\ s.spi_interrupt => t.spi_interrupt
    /\ s.spif /\ ~t.spif => t = [s EXCEPT !.spif = FALSE, !.spie = t.spie]

=============================================================================
