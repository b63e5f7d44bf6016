--------------------------------- MODULE Sci ---------------------------------
(***************************************************************************)
(* The receiver of the simulated serial interface (sci.c of the 6303; the  *)
(* 6301, the 6800's ACIA and the 6811 have the same code) together with    *)
(* the polling of the keyboard that feeds it (io_poll of io.c), the        *)
(* monitor's "i sci" command (io_cmd) and the program that reads it.       *)
(*                                                                         *)
(* The receive buffer is no ring: bytes are added at rxindex+rxinterrupts  *)
(* and taken at rxindex, and the window only moves back to the start when  *)
(* it is empty.  A byte that does not fit is refused; the keyboard keeps   *)
(* its byte and offers it again, the command does not.                     *)
(***************************************************************************)
EXTENDS Integers, Sequences

CONSTANTS
  BufSize,   \* BUFSIZE of recvbuf
  MaxInput,  \* bound of the model: bytes typed, and bytes given to "i sci"
  MaxFeed,   \* bound of the model: bytes of one "i sci" command
  None       \* no byte: c = -1 of io_poll, and RDR and recvbuf before anything is written

ASSUME BufSizeAssumption == BufSize \in Nat \ {0}
ASSUME BoundAssumption == MaxInput \in Nat /\ MaxFeed \in Nat

\* What matters of a byte is which one it is: where it came from and its number there.
Source == {"key", "command"}
Byte == [from : Source, nr : 1 .. MaxInput]
ASSUME NoneAssumption == None \notin Byte

VARIABLES
  recvbuf,       \* sci.c: the buffer, by index
  rxindex,       \* sci.c: index of the first byte waiting
  rxinterrupts,  \* sci.c: number of bytes waiting
  rdr,           \* iram[RDR]
  c,             \* io_poll: the key not accepted yet, or None
  running,       \* cpu_isrunning ()
  arrived,       \* history: number of bytes typed, and given to "i sci", so far
  accepted,      \* history: bytes the receiver took in, in order
  eaten          \* history: bytes the program read, in order

vars == <<recvbuf, rxindex, rxinterrupts, rdr, c, running, arrived, accepted, eaten>>

Index == 0 .. BufSize - 1

\* The bytes waiting, in order.
Window == [i \in 1 .. rxinterrupts |-> recvbuf[rxindex + i - 1]]

-----------------------------------------------------------------------------
(* sci_in, given the bytes offered: how many it accepts and what they make *)
(* of the buffer.                                                          *)

\* Plausible slips, for the mutants: a test that leaves out the consumed part of the buffer,
\* and a copy that starts at the consumed part.
AcceptedIgnoringIndex(n) ==
  IF n <= BufSize - rxinterrupts THEN n ELSE BufSize - rxinterrupts
StoredAtCount(s) ==
  [i \in Index |-> IF i >= rxinterrupts /\ i < rxinterrupts + Len(s)
                   THEN s[i - rxinterrupts + 1] ELSE recvbuf[i]]

sci_in_accepts(n) ==
  LET room == BufSize - rxindex - rxinterrupts
  IN  IF n <= room THEN n ELSE room

sci_in_stores(s) ==
  LET from == rxindex + rxinterrupts
  IN  [i \in Index |-> IF i >= from /\ i < from + Len(s) THEN s[i - from + 1] ELSE recvbuf[i]]

sci_in(s) ==
  LET taken == SubSeq(s, 1, sci_in_accepts(Len(s)))
  IN  /\ recvbuf' = sci_in_stores(taken)
      /\ rxinterrupts' = rxinterrupts + Len(taken)
      /\ accepted' = accepted \o taken

-----------------------------------------------------------------------------

Init ==
  /\ recvbuf = [i \in Index |-> None]
  /\ rxindex = 0 /\ rxinterrupts = 0
  /\ rdr = None /\ c = None
  /\ running = FALSE
  /\ arrived = [src \in Source |-> 0]
  /\ accepted = <<>> /\ eaten = <<>>

\* The monitor's "g" starts the CPU, and the CPU stops.
cpu_start ==
  /\ ~running /\ running' = TRUE
  /\ UNCHANGED <<recvbuf, rxindex, rxinterrupts, rdr, c, arrived, accepted, eaten>>
cpu_stop ==
  /\ running /\ running' = FALSE
  /\ UNCHANGED <<recvbuf, rxindex, rxinterrupts, rdr, c, arrived, accepted, eaten>>

\* For the mutants: the key is forgotten even when it was refused.
io_poll_offers_once(key) ==
  /\ sci_in(<<key>>)
  /\ c' = None

io_poll_offers(key) ==
  /\ sci_in(<<key>>)
  /\ c' = IF sci_in_accepts(1) = 1 THEN None ELSE key

\* io_poll, which the run loop of "g" calls: the key kept from an earlier poll is offered
\* before the keyboard is looked at.  With no key there is nothing to do.
io_poll ==
  /\ running
  /\ \/ /\ c # None
        /\ io_poll_offers(c)
        /\ UNCHANGED arrived
     \/ /\ c = None /\ arrived["key"] < MaxInput
        /\ arrived' = [arrived EXCEPT !["key"] = @ + 1]
        /\ io_poll_offers([from |-> "key", nr |-> arrived["key"] + 1])
  /\ UNCHANGED <<rxindex, rdr, running, eaten>>

\* "i sci ..." between two runs: the number of bytes accepted is not looked at.
io_cmd(n) ==
  /\ ~running /\ arrived["command"] + n <= MaxInput
  /\ arrived' = [arrived EXCEPT !["command"] = @ + n]
  /\ sci_in([i \in 1 .. n |-> [from |-> "command", nr |-> arrived["command"] + i]])
  /\ UNCHANGED <<rxindex, rdr, c, running, eaten>>

\* For the mutants: the index is reset one byte early, and it is never reset.
rdr_getb_index_early == IF rxinterrupts <= 2 THEN 0 ELSE rxindex + 1
rdr_getb_index_kept == IF rxinterrupts = 0 THEN rxindex ELSE rxindex + 1

\* rxindex after a read: past the byte taken, or back at the start when none is left.
rdr_getb_index == IF rxinterrupts <= 1 THEN 0 ELSE rxindex + 1

\* The program reads RDR.  A memory dump reads it while the CPU is idle, and changes nothing.
rdr_getb ==
  /\ running
  /\ rxindex' = rdr_getb_index
  /\ IF rxinterrupts > 0
     THEN /\ rdr' = recvbuf[rxindex]
          /\ rxinterrupts' = rxinterrupts - 1
          /\ eaten' = Append(eaten, rdr')
     ELSE UNCHANGED <<rdr, rxinterrupts, eaten>>
  /\ UNCHANGED <<recvbuf, c, running, arrived, accepted>>

Next ==
  \/ cpu_start \/ cpu_stop
  \/ io_poll
  \/ \E n \in 1 .. MaxFeed : io_cmd(n)
  \/ rdr_getb

Spec == Init /\ [][Next]_vars

\* The run loop polls every so many instructions, and the program reads its receiver again and
\* again; neither the user's commands nor the end of a run is promised.
FairSpec == Spec /\ WF_vars(io_poll) /\ WF_vars(rdr_getb)

-----------------------------------------------------------------------------
(* Properties.                                                             *)

\* The bytes waiting always lie inside the buffer, and an empty window is back at its start.
TypeOK ==
  /\ recvbuf \in [Index -> Byte \cup {None}]
  /\ rxindex \in Nat /\ rxinterrupts \in Nat
  /\ rxindex + rxinterrupts <= BufSize /\ (rxinterrupts = 0 => rxindex = 0)
  /\ rdr \in Byte \cup {None} /\ c \in Byte \cup {None}
  /\ running \in BOOLEAN
  /\ arrived \in [Source -> 0 .. MaxInput]
  /\ accepted \in Seq(Byte) /\ eaten \in Seq(Byte)

\* Every byte the receiver took in is read once, in order, or still waits in the window: none
\* is lost, doubled or overtaken however reads, polls and commands interleave.
NoByteLost == accepted = eaten \o Window

Fifo == INSTANCE SerialFifo
  WITH given <- arrived, queue <- Window, held <- c, reg <- rdr, NoByte <- None

\* The receiver with its keyboard implements the abstract one: reads come in the order of
\* arrival, a key that was refused is kept and taken in later, and nothing is refused while no
\* byte is waiting, which a window that is not moved back would make it do.
ImplementsFifo == Fifo!Spec

\* While the CPU stays running and the program keeps reading, a key held back is accepted.
HeldKeyAccepted == <>[]running => (c # None ~> c = None)

=============================================================================
