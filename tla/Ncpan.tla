-------------------------------- MODULE Ncpan --------------------------------
(***************************************************************************)
(* The NCPAN board (ncpan.c): a matrix of 16 buttons on PORTA, 16 leds on  *)
(* PORTB and PORTC, and a dip switch that every write of SPDR clocks in.   *)
(***************************************************************************)
EXTENDS Integers, Sequences

CONSTANTS
  Button,    \* bound of the model: the buttons that are pushed, of 0 .. 15
  Dip,       \* bound of the model: what the dip switch is set to
  DipStart,  \* what it holds at the start
  SpiSize    \* as in Spi6811

VARIABLES
  spi,    \* as in Spi6811
  panel   \* what ncpan.c keeps, a Panel

vars == <<spi, panel>>

P == INSTANCE Spi6811 WITH SpiByte <- Dip

Column == 0 .. 3
Row == 0 .. 3

\* driven: the columns PORTA sets to 0.  on: the rows that PORTA's inputs read as pushed.
\* sampled: history, the dip switch at the last write of SPDR, "own" before the first.
\* skewed: history, a write of SPDR was inhibited, or "i spi" queued a byte of its own.
Panel ==
  [dipsw : Dip, buttons : SUBSET Button, driven : SUBSET Column, on : SUBSET Row,
   sampled : Dip \cup {"own"}, skewed : BOOLEAN]

\* ncpan_porta_putb: the rows read for the columns that are driven.  Columns 2 and 3 are looked
\* at only when all the other bits are 0, and then column 0 is driven too.
scanned(buttons, driven) ==
  IF 0 \in driven THEN {r \in Row : r \in buttons}
  ELSE IF 1 \in driven THEN {r \in Row : 4 + r \in buttons}
  ELSE {}

ncpan_porta_putb(driven) ==
  /\ panel' = [panel EXCEPT !.driven = driven, !.on = scanned(panel.buttons, driven)]
  /\ UNCHANGED spi

ncpan_spi_putb ==
  /\ spi' = P!spdr_putb(P!spi_in(spi, panel.dipsw))
  /\ panel' = [panel EXCEPT !.skewed = @ \/ P!acknowledged(spi).spif, !.sampled = panel.dipsw]

\* "i spi" queues a byte by hand, before those of the dip switch.
io_cmd ==
  /\ \E v \in Dip : spi' = P!spi_in(spi, v)
  /\ panel' = [panel EXCEPT !.skewed = TRUE]

\* The program, or the monitor, reads SPSR or SPDR or writes SPSR.  SPIE stays clear: the board
\* has nothing to do with interrupts.
spi_access ==
  /\ spi' \in {P!spsr_getb(spi), P!spdr_getb(spi)} \cup {P!write_spsr(spi, b) : b \in BOOLEAN}
  /\ UNCHANGED panel

\* "nc dip" and "nc button".
ncpan_cmd ==
  /\ \/ \E v \in Dip : panel' = [panel EXCEPT !.dipsw = v]
     \/ \E n \in Button :
          panel' = [panel EXCEPT !.buttons = IF n \in @ THEN @ \ {n} ELSE @ \cup {n}]
  /\ UNCHANGED spi

\* PORTA is 0 until it is written: all columns driven, all rows read as pushed.
Init ==
  /\ spi = P!SpiReset
  /\ panel = [dipsw |-> DipStart, buttons |-> {}, driven |-> Column, on |-> Row,
              sampled |-> "own", skewed |-> FALSE]

Next ==
  \/ \E driven \in SUBSET Column : ncpan_porta_putb(driven)
  \/ ncpan_spi_putb \/ spi_access \/ io_cmd \/ ncpan_cmd

Spec == Init /\ [][Next]_vars

-----------------------------------------------------------------------------
(* Properties.                                                             *)

TypeOK == P!SpiOK(spi) /\ panel \in Panel

\* As long as no write of SPDR was inhibited and no byte was queued by hand, SPDR holds the dip
\* switch as it was at the last write, and no byte waits.
DipIsCurrentAction ==
  ~panel'.skewed => spi'.waiting = <<>> /\ spi'.spdr = panel'.sampled

=============================================================================
