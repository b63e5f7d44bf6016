------------------------------- MODULE I2cBus -------------------------------
(***************************************************************************)
(* The I2C bus of the NCCPU board and the X9241 potentiometers on it       *)
(* (i2c_sim.c), bit by bit, with the ports that drive it (nccpu.c): bit 4  *)
(* of PORTD is the inverse of the clock, bit 7 of PORTA the data line, bit *)
(* 7 of PACTL its direction.  Every write of PORTA and PORTD calls         *)
(* i2c_sim.                                                                *)
(*                                                                         *)
(* The program is any program: it writes any of the three whenever it      *)
(* likes, also PORTA for its other bits, and it may break a frame off      *)
(* anywhere.                                                               *)
(***************************************************************************)
EXTENDS Integers, Sequences

CONSTANTS
  ByteBits, X9241_ID, READ_WIPER, WRITE_WIPER,  \* as in Potentiometers
  Frames   \* bound of the model: the bytes a program sends in a frame, as sequences; fewer
           \* than 32, where the count of bits that is passed on, a u_char, starts over

VARIABLES
  clock,   \* the inverse of bit 4 of PORTD
  output,  \* bit 7 of PACTL: the program drives the data line
  bus      \* the data line and what i2c_sim.c keeps, a Bus

vars == <<clock, output, bus>>

Bit == {0, 1}

\* sda: bit 7 of PORTA.  clock_last, data_last, inside_frame: i2c_sim's.  out: the bits in
\* xicor_sim_frame's out_buf.  in_buf: its response buffer, indexed by set_bit's bit numbers.
\* heard: history, the bits of responses put on the data line since the START.
Bus ==
  [sda : Bit, clock_last : Bit, data_last : Bit, inside_frame : BOOLEAN,
   out : Seq(Bit), in_buf : [0 .. ByteBits - 1 -> Bit],
   in_bits : {0, ByteBits}, in_bits_sent : 0 .. ByteBits - 1,
   wiper : [[1 .. ByteBits \div 2 -> Bit] \X [1 .. ByteBits \div 4 -> Bit]
              -> [1 .. ByteBits -> Bit]],
   heard : Seq(Bit)]

\* i2c_set_bit: the bytes that bits make, the highest bit of each first.
Bytes(bits) ==
  [i \in 1 .. Len(bits) \div ByteBits |-> [j \in 1 .. ByteBits |-> bits[(i - 1) * ByteBits + j]]]

\* The bit of a response that is sent at bitno: the highest of the byte first.
i2c_get_bit(buf, bitno) == buf[ByteBits - 1 - bitno]

Promised == INSTANCE Potentiometers WITH
  wiper <- bus.wiper,
  frame <- Bytes(bus.out),
  reply <- [i \in 1 .. bus.in_bits - bus.in_bits_sent |->
              i2c_get_bit(bus.in_buf, bus.in_bits_sent + i - 1)],
  heard <- bus.heard

\* The program sends no other frames.
Sendable(bits) ==
  \E f \in Frames :
    /\ Len(bits) <= Len(f) * ByteBits
    /\ \A i \in 1 .. Len(bits) :
         bits[i] = f[((i - 1) \div ByteBits) + 1][((i - 1) % ByteBits) + 1]

-----------------------------------------------------------------------------
(* The device, as functions of the record b.                               *)

\* i2c_ack: the data line goes low at once, and i2c_sim is not told.
add_ack(b) == [b EXCEPT !.sda = 0]

\* A response starts in an empty buffer, the lowest bit of the value at bit number 0.
add_byte(b, value) ==
  [b EXCEPT !.in_buf = [p \in DOMAIN @ |-> value[ByteBits - p]], !.in_bits = ByteBits]

\* A byte is complete: an address, a command or a value.  Anything else is not acknowledged.
x9241_read_write(b) ==
  LET bytes == Bytes(b.out)
      pot == Promised!Selected(bytes)
      received(n) == Len(b.out) = n * ByteBits
  IN  IF received(1) /\ Promised!Type(bytes[1]) = X9241_ID THEN add_ack(b)
      ELSE IF received(2) /\ Promised!IsCommand(bytes, READ_WIPER)
           THEN add_byte(add_ack(b), b.wiper[pot])
      ELSE IF received(2) /\ Promised!IsCommand(bytes, WRITE_WIPER) THEN add_ack(b)
      ELSE IF received(3) /\ Promised!IsCommand(bytes, WRITE_WIPER)
           THEN [add_ack(b) EXCEPT !.wiper[pot] = bytes[3]]
      ELSE b

-----------------------------------------------------------------------------
(* xicor_sim_frame and i2c_sim.                                            *)

\* For the mutants: what is left of a response stays.
start_keeps_response(b) == [b EXCEPT !.inside_frame = TRUE, !.out = <<>>, !.heard = <<>>]

start(b) ==
  [b EXCEPT !.inside_frame = TRUE, !.out = <<>>, !.in_bits = 0, !.in_bits_sent = 0,
            !.heard = <<>>]

stop(b) == [b EXCEPT !.inside_frame = FALSE]

\* 0 -> 1 of the clock: one more bit received.
latch_bit(b, bit) == x9241_read_write([b EXCEPT !.out = Append(@, bit)])

\* 1 -> 0 of the clock: the next bit of the response, if there is one.
send_bit(b) ==
  LET bit == i2c_get_bit(b.in_buf, b.in_bits_sent)
      done == b.in_bits_sent + 1 >= b.in_bits
  IN  IF b.in_bits_sent < b.in_bits
      THEN [b EXCEPT !.sda = bit, !.heard = Append(@, bit),
                     !.in_bits_sent = IF done THEN 0 ELSE @ + 1,
                     !.in_bits = IF done THEN 0 ELSE @]
      ELSE b

\* For the mutants: a START does not depend on the clock, nor does what was last seen of the
\* data line.
i2c_sim_no_last(b, c, d, drive) ==
  LET after == IF b.inside_frame /\ c = 1 /\ drive THEN latch_bit(b, d) ELSE start(b)
  IN  [after EXCEPT !.clock_last = c]

\* The lines are now at c and d, and drive tells their direction; b is what was before.
i2c_sim(b, c, d, drive) ==
  LET after ==
        IF b.clock_last = 1 /\ c = 1
        THEN (IF b.data_last = 1 /\ d = 0 THEN start(b)
              ELSE IF b.data_last = 0 /\ d = 1 THEN stop(b) ELSE b)
        ELSE IF b.inside_frame /\ c = 1 /\ drive THEN latch_bit(b, d)
        ELSE IF b.inside_frame /\ b.clock_last = 1 /\ ~drive THEN send_bit(b)
        ELSE b
  IN  [after EXCEPT !.clock_last = c, !.data_last = d]

-----------------------------------------------------------------------------
(* The program's instructions.                                             *)

\* The bound of the model is on what is sent, not on what the bus does with it.
bounded == bus'.out = <<>> \/ Sendable(bus'.out)

nccpu_porta_putb(d) ==
  /\ bus' = i2c_sim([bus EXCEPT !.sda = d], clock, d, output)
  /\ UNCHANGED <<clock, output>>

write_data == \E d \in Bit : nccpu_porta_putb(d) /\ bounded

\* BSET, BCLR and the like on PORTA for STROBE or PARALLEL_LOAD: bit 7 is written as it reads.
rewrite_data == nccpu_porta_putb(bus.sda) /\ bounded

nccpu_portd_putb(c) ==
  /\ clock' = c
  /\ bus' = i2c_sim(bus, c, bus.sda, output)
  /\ bounded
  /\ UNCHANGED output

\* PACTL is plain memory.
write_direction(drive) == output' = drive /\ UNCHANGED <<clock, bus>>

\* PORTD is 0 at the start, which is clock 1.
Init ==
  /\ clock = 1 /\ output = FALSE
  /\ bus = [sda |-> 0, clock_last |-> 0, data_last |-> 0, inside_frame |-> FALSE,
            out |-> <<>>, in_buf |-> [p \in 0 .. ByteBits - 1 |-> 0],
            in_bits |-> 0, in_bits_sent |-> 0,
            wiper |-> [w \in [1 .. ByteBits \div 2 -> Bit] \X [1 .. ByteBits \div 4 -> Bit] |->
                         [i \in 1 .. ByteBits |-> 0]],
            heard |-> <<>>]

Next ==
  \/ write_data \/ rewrite_data
  \/ \E c \in Bit : nccpu_portd_putb(c)
  \/ \E drive \in BOOLEAN : write_direction(drive)

Spec == Init /\ [][Next]_vars

-----------------------------------------------------------------------------
(* Properties.                                                             *)

\* The buffers hold bits, and a frame is one the program sends.
TypeOK == clock \in Bit /\ output \in BOOLEAN /\ bus \in Bus

\* However the program interleaves the ports and wherever it breaks a frame off, the bus does
\* what the potentiometers promise byte by byte: a wiper takes a value only from a whole write
\* frame addressed to it, a read is answered by the bits of its wiper in order, and a START
\* drops everything of the frame before.
KeepsPromise == Promised!Spec

\* Only an acknowledge makes the data line differ from what i2c_sim last saw while the clock
\* is high: at no other moment can a program that writes PORTA for its other bits, with bit 7
\* as it reads, cause a START or a STOP.
UnseenOnlyAfterAck ==
  bus.clock_last = 1 /\ bus.sda # bus.data_last =>
    bus.sda = 0 /\ bus.out # <<>> /\ Len(bus.out) % ByteBits = 0

=============================================================================
