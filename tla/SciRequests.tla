----------------------------- MODULE SciRequests -----------------------------
(***************************************************************************)
(* The interrupt requests of a serial interface as functions of its        *)
(* record: a receiver that holds bytes and a transmitter that is always    *)
(* empty (sci.c of the 6811 and 6805; that of the 6301 and the 6800's ACIA *)
(* do the same with other registers).  Which bytes wait is in module Sci.  *)
(***************************************************************************)
EXTENDS Integers

CONSTANT MaxRx   \* bound of the model: bytes waiting in the receive buffer

\* TIE: any of the bits that enable the transmitter's interrupt, which nothing tells apart.
SciBit == {"TIE", "RIE"}

SciRecord == [enabled : SUBSET SciBit, sci_rx_ints : 0 .. MaxRx, sci_tx_ints : BOOLEAN]

SciReset == [enabled |-> {}, sci_rx_ints |-> 0, sci_tx_ints |-> FALSE]

sci_int(s) ==
  (s.sci_rx_ints > 0 /\ "RIE" \in s.enabled) \/ (s.sci_tx_ints /\ "TIE" \in s.enabled)

\* For the mutants: disabling the interrupt leaves one requested.
sccr2_putb_keeps(s, v) == [s EXCEPT !.enabled = v, !.sci_tx_ints = @ \/ "TIE" \in v]

\* The transmitter is always empty: enabling its interrupt requests one.
sccr2_putb(s, v) == [s EXCEPT !.enabled = v, !.sci_tx_ints = "TIE" \in v]

scdr_putb(s) == [s EXCEPT !.sci_tx_ints = @ \/ "TIE" \in s.enabled]

\* The program reads a byte; a dump takes none.
scdr_getb(s) == [s EXCEPT !.sci_rx_ints = IF @ > 0 THEN @ - 1 ELSE 0]

\* A byte comes in, as far as the model goes.
sci_in(s) == [s EXCEPT !.sci_rx_ints = IF @ < MaxRx THEN @ + 1 ELSE @]

-----------------------------------------------------------------------------
(* Property of a record.                                                   *)

\* A transmit interrupt is outstanding exactly while the program enables one.
SciOK(s) == s \in SciRecord /\ (s.sci_tx_ints <=> "TIE" \in s.enabled)

=============================================================================
