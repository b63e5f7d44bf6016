------------------------------ MODULE Acia6800 ------------------------------
(***************************************************************************)
(* The ACIA of the MC6800 (sci.c), whose instr_exec takes no interrupts:   *)
(* the program can only poll.  Its receive buffer is in module Sci.        *)
(***************************************************************************)
EXTENDS Integers

CONSTANT MaxRx   \* as in SciRequests

VARIABLES
  sci,   \* as in SciRequests: "RIE" and "TIE" are RIE, and TC1 without TC2, of CR
  sr     \* history: the bits the last poll of SR gave, {} when RDR has been read since

vars == <<sci, sr>>

C == INSTANCE SciRequests

\* IRQ is negated: it is set while nothing is requested.
sr_getb ==
  /\ sr' = {"TDRE"} \cup (IF sci.sci_rx_ints > 0 THEN {"RDRF"} ELSE {})
                    \cup (IF C!sci_int(sci) THEN {} ELSE {"IRQ"})
  /\ UNCHANGED sci

cr_putb(v) == sci' = C!sccr2_putb(sci, v) /\ UNCHANGED sr
tdr_putb == sci' = C!scdr_putb(sci) /\ UNCHANGED sr
rdr_getb == sci' = C!scdr_getb(sci) /\ sr' = {}
sci_in == sci' = C!sci_in(sci) /\ UNCHANGED sr

Init == sci = C!SciReset /\ sr = {}

Next ==
  \/ sr_getb
  \/ \E v \in SUBSET C!SciBit : cr_putb(v)
  \/ tdr_putb \/ rdr_getb \/ sci_in

Spec == Init /\ [][Next]_vars

-----------------------------------------------------------------------------
(* Property.                                                               *)

\* A byte that a poll has announced waits until it is read.
TypeOK ==
  /\ C!SciOK(sci) /\ sr \subseteq {"TDRE", "RDRF", "IRQ"}
  /\ "RDRF" \in sr => sci.sci_rx_ints > 0

=============================================================================
