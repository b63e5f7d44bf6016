-------------------------------- MODULE Nccpu --------------------------------
(***************************************************************************)
(* The shift registers of the NCCPU board (nccpu.c) on the SPI of the      *)
(* MC68HC11: the dip switch and the buttons are latched by bit             *)
(* PARALLEL_LOAD of PORTA and clocked in, the triacs and the relays are    *)
(* clocked out and latched by bit STROBE.  Every write of SPDR goes        *)
(* through nccpu_spi_putb.  (The I2C bus on the same ports is module       *)
(* I2cBus.)                                                                *)
(***************************************************************************)
EXTENDS Integers, Sequences

CONSTANTS
  ButtonsSize,  \* BUTTONS_SIZE: the dip switch and the input bytes
  Boards,       \* relay boards: NRELAYS/8
  Value,        \* bound of the model: what an input or an output byte holds
  Off,          \* what they all hold at the start
  Given,        \* bound of the model: of these values, what the user gives an input byte
  SpiSize       \* as in Spi6811

VARIABLES
  spi,    \* as in Spi6811
  board   \* what nccpu.c keeps, a Board

vars == <<spi, board>>

P == INSTANCE Spi6811 WITH SpiByte <- Value

Input == 0 .. ButtonsSize - 1
PutSize == 2 * Boards
Output == 0 .. Boards - 1

\* strobe: the bit in PORTA.  written: history, the bytes written last, the oldest first.
\* skewed: history, a write of SPDR was inhibited, or "i spi" queued a byte of its own.
Board ==
  [buttons : [Input -> Value], spi_getb_buf : [Input -> Value], spi_getb_index : Input,
   spi_putb_buf : [0 .. PutSize - 1 -> Value], spi_putb_index : 0 .. PutSize - 1,
   triac_buf : [Output -> Value], relay_buf : [Output -> Value],
   strobe : BOOLEAN, written : Seq(Value), skewed : BOOLEAN]

-----------------------------------------------------------------------------
\* A write of SPDR: the byte goes to the ring of output bytes, one input byte is queued, and
\* then the SPI transfers, unless it inhibits the write.  For the mutants: the queueing comes
\* last.
nccpu_spi_putb_late(value) ==
  LET i == board.spi_getb_index
  IN  /\ spi' = P!spi_in(P!spdr_putb(spi), board.spi_getb_buf[i])
      /\ board' = [board EXCEPT
           !.spi_putb_buf[board.spi_putb_index] = value,
           !.spi_putb_index = (@ + 1) % PutSize,
           !.spi_getb_index = (i + 1) % ButtonsSize,
           !.written = Append(Tail(@), value),
           !.skewed = @ \/ P!acknowledged(spi).spif]

nccpu_spi_putb(value) ==
  LET i == board.spi_getb_index
  IN  /\ spi' = P!spdr_putb(P!spi_in(spi, board.spi_getb_buf[i]))
      /\ board' = [board EXCEPT
           !.spi_putb_buf[board.spi_putb_index] = value,
           !.spi_putb_index = (@ + 1) % PutSize,
           !.spi_getb_index = (i + 1) % ButtonsSize,
           !.written = Append(Tail(@), value),
           !.skewed = @ \/ P!acknowledged(spi).spif]

latch_input(b) == [b EXCEPT !.spi_getb_buf = b.buttons]

\* The board last in the chain was clocked out first, and of each board the triacs.  For the
\* mutants: the first board first.
latch_output_first(b) ==
  LET put(j) == b.spi_putb_buf[(b.spi_putb_index + j) % PutSize]
  IN  [b EXCEPT !.triac_buf = [i \in Output |-> put(2 * i)],
                !.relay_buf = [i \in Output |-> put(2 * i + 1)]]

latch_output(b) ==
  LET put(j) == b.spi_putb_buf[(b.spi_putb_index + j) % PutSize]
  IN  [b EXCEPT !.triac_buf = [i \in Output |-> put(2 * (Boards - 1 - i))],
                !.relay_buf = [i \in Output |-> put(2 * (Boards - 1 - i) + 1)]]

\* A write of PORTA with its bits PARALLEL_LOAD and STROBE.
nccpu_porta_putb(load, strobe) ==
  LET latched == IF load THEN board ELSE latch_input(board)
  IN  /\ board' = [(IF strobe /\ ~board.strobe THEN latch_output(latched) ELSE latched)
                     EXCEPT !.strobe = strobe]
      /\ UNCHANGED spi

\* "nc dip" and "nc button".
nccpu_cmd ==
  /\ \E i \in Input, v \in Given : board' = [board EXCEPT !.buttons[i] = v]
  /\ UNCHANGED spi

\* "i spi" queues a byte by hand, before those of the board.
io_cmd ==
  /\ \E v \in Given : spi' = P!spi_in(spi, v)
  /\ board' = [board EXCEPT !.skewed = TRUE]

\* The program, or the monitor, reads SPSR or SPDR or writes SPSR.  SPIE stays clear: the board
\* has nothing to do with interrupts.
spi_access ==
  /\ spi' \in {P!spsr_getb(spi), P!spdr_getb(spi)} \cup {P!write_spsr(spi, b) : b \in BOOLEAN}
  /\ UNCHANGED board

Init ==
  /\ spi = P!SpiReset
  /\ board = [buttons |-> [i \in Input |-> Off], spi_getb_buf |-> [i \in Input |-> Off],
              spi_getb_index |-> 0,
              spi_putb_buf |-> [i \in 0 .. PutSize - 1 |-> Off], spi_putb_index |-> 0,
              triac_buf |-> [i \in Output |-> Off], relay_buf |-> [i \in Output |-> Off],
              strobe |-> FALSE, written |-> [i \in 1 .. PutSize |-> Off], skewed |-> FALSE]

Next ==
  \/ \E v \in Value : nccpu_spi_putb(v)
  \/ \E load, strobe \in BOOLEAN : nccpu_porta_putb(load, strobe)
  \/ nccpu_cmd \/ io_cmd \/ spi_access

Spec == Init /\ [][Next]_vars

-----------------------------------------------------------------------------
(* Properties.                                                             *)

\* The buffers hold bytes, and the SPI's buffer its promises.
TypeOK == P!SpiOK(spi) /\ board \in Board

\* As long as no write of SPDR was inhibited and no byte was queued by hand, each transfer clocks
\* in the next byte of what was latched: no byte is lost, doubled or out of turn, and none waits.
InputsInStepAction ==
  ~board'.skewed =>
    /\ spi'.waiting = <<>>
    /\ board'.spi_getb_index # board.spi_getb_index =>
         spi'.spdr = board.spi_getb_buf[board.spi_getb_index]

\* STROBE shows the last bytes written to SPDR on the triacs and relays of the boards, those
\* of the last board first, also those whose transfer was inhibited.
RelaysShowWrittenAction ==
  board'.strobe /\ ~board.strobe =>
    \A i \in Output :
      LET j == 2 * (Boards - 1 - i)
      IN  /\ board'.triac_buf[i] = board.written[j + 1]
          /\ board'.relay_buf[i] = board.written[j + 2]

=============================================================================
