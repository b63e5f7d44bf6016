---------------------------- MODULE Potentiometers ----------------------------
(***************************************************************************)
(* What the X9241 potentiometers promise the program that drives the I2C   *)
(* bus, byte by byte: after a START, an address byte, a command byte and,  *)
(* for a write, a value.  A write sets one wiper, and a read is answered   *)
(* with the bits of a wiper, the highest first.                            *)
(***************************************************************************)
EXTENDS Integers, Sequences

CONSTANTS
  ByteBits,     \* bits in a byte, a multiple of 4
  X9241_ID,     \* the device type in the address byte
  READ_WIPER,   \* the commands that are simulated
  WRITE_WIPER   \* (each as its bits, the highest first)

VARIABLES
  wiper,   \* the value of each wiper: device instance and potentiometer to a byte
  frame,   \* the bytes the program has sent since the START
  reply,   \* the bits of the answer that are still to come
  heard    \* history: the bits of answers that have come since the START

\* A byte is its bits, the highest first.
BitString(n) == [1 .. n -> {0, 1}]
Byte == BitString(ByteBits)
Half == ByteBits \div 2
Quarter == ByteBits \div 4

\* The fields of the address byte, type and instance, and of the command byte, command and
\* potentiometer.
Type(byte) == SubSeq(byte, 1, Half)
Instance(byte) == SubSeq(byte, Half + 1, ByteBits)
Command(byte) == SubSeq(byte, 1, Half)
Pot(byte) == SubSeq(byte, Half + 1, Half + Quarter)

Selected(f) == <<Instance(f[1]), Pot(f[2])>>
IsCommand(f, command) == Type(f[1]) = X9241_ID /\ Command(f[2]) = command

Init ==
  /\ wiper = [w \in BitString(Half) \X BitString(Quarter) |-> [i \in 1 .. ByteBits |-> 0]]
  /\ frame = <<>> /\ reply = <<>> /\ heard = <<>>

Start == frame' = <<>> /\ reply' = <<>> /\ heard' = <<>> /\ UNCHANGED wiper

Receive ==
  \E byte \in Byte :
    LET f == Append(frame, byte)
    IN  /\ frame' = f
        /\ wiper' = IF Len(f) = 3 /\ IsCommand(f, WRITE_WIPER)
                    THEN [wiper EXCEPT ![Selected(f)] = byte] ELSE wiper
        /\ reply' = IF Len(f) = 2 /\ IsCommand(f, READ_WIPER)
                    THEN wiper[Selected(f)] ELSE reply
        /\ UNCHANGED heard

Answer ==
  /\ reply # <<>>
  /\ heard' = Append(heard, Head(reply)) /\ reply' = Tail(reply)
  /\ UNCHANGED <<wiper, frame>>

Next == Start \/ Receive \/ Answer

Spec == Init /\ [][Next]_<<wiper, frame, reply, heard>>

=============================================================================
