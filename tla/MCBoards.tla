------------------------------ MODULE MCBoards ------------------------------
(* Each board by itself, over the variables of all; the NCCPU with its     *)
(* inputs moving, with its outputs moving, and with its I2C bus moving.    *)
EXTENDS Integers, Sequences

CONSTANTS
  ButtonsSize,                 \* of the NCCPU with moving inputs
  Boards, GivenBeside,         \* of the NCCPU with moving outputs: Given is GivenBeside
  SpiSize,
  Button, Dip, DipStart,       \* as in Ncpan
  WrittenPortb,                \* as in Nc24r
  ByteBits, X9241_ID, READ_WIPER, WRITE_WIPER, Frames   \* as in I2cBus

ASSUME SizesAssumption ==
  /\ ButtonsSize \in Nat \ {0} /\ Boards \in Nat \ {0} /\ SpiSize \in Nat \ {0}
  /\ ByteBits \in Nat \ {0} /\ ByteBits % 4 = 0

ASSUME InputAssumption ==
  /\ Button \subseteq 0 .. 15 /\ DipStart \in Dip /\ GivenBeside \subseteq Dip
  /\ WrittenPortb \subseteq ({"master", "off"} \X (0 .. 15)) \cup ({"slave"} \X (0 .. 11))
  /\ READ_WIPER # WRITE_WIPER
  /\ \A f \in Frames : f \in Seq([1 .. ByteBits -> {0, 1}]) /\ Len(f) < 32

VARIABLES
  build,   \* what moves: "inputs", "outputs", "ncpan", "nc24r" or "i2c"
  spi, board, panel, relays, clock, output, bus

Inputs == INSTANCE Nccpu WITH
  Boards <- 1, Value <- Dip, Off <- DipStart, Given <- Dip
Outputs == INSTANCE Nccpu WITH
  ButtonsSize <- 1, Value <- Dip, Off <- DipStart, Given <- GivenBeside
Pan == INSTANCE Ncpan
Relays24 == INSTANCE Nc24r
I2c == INSTANCE I2cBus

MCWrittenPortb ==
  {<<"master", 0>>, <<"master", 7>>, <<"master", 13>>,
   <<"slave", 0>>, <<"slave", 6>>, <<"slave", 9>>, <<"slave", 11>>, <<"off", 0>>}

\* Bytes of 4 bits: 2 for the device type, 2 for its instance or the command, 1 for the
\* potentiometer, 1 that the X9241 calls the register.  The program writes two wipers of one
\* device, reads them, sends a byte too many, a command nobody simulates and an address nobody
\* has.
MCId == <<0, 1>>
MCRead == <<0, 1>>
MCWrite == <<1, 0>>
Device == X9241_ID \o <<1, 0>>
Write(pot, reg) == WRITE_WIPER \o <<pot, reg>>
Read(pot, reg) == READ_WIPER \o <<pot, reg>>
MCFrames ==
  {<<Device, Write(0, 1), <<0, 1, 0, 1>>>>,
   <<Device, Write(1, 0), <<1, 0, 1, 0>>, <<0, 0, 1, 1>>>>,
   <<Device, Read(0, 1)>>, <<Device, Read(1, 0), <<1, 0, 0, 1>>>>,
   <<Device, <<1, 1, 1, 1>>>>, <<<<0, 0, 1, 1>>, Write(0, 0), <<0, 1, 1, 0>>>>}

Init ==
  /\ build \in {"inputs", "outputs", "ncpan", "nc24r", "i2c"}
  /\ IF build = "outputs" THEN Outputs!Init ELSE Inputs!Init
  /\ panel = [dipsw |-> DipStart, buttons |-> {}, driven |-> Pan!Column, on |-> Pan!Row,
              sampled |-> "own", skewed |-> FALSE]
  /\ Relays24!Init
  /\ I2c!Init

step_of_inputs ==
  build = "inputs" /\ Inputs!Next /\ UNCHANGED <<build, panel, relays, clock, output, bus>>
step_of_outputs ==
  build = "outputs" /\ Outputs!Next /\ UNCHANGED <<build, panel, relays, clock, output, bus>>
step_of_ncpan ==
  build = "ncpan" /\ Pan!Next /\ UNCHANGED <<build, board, relays, clock, output, bus>>
step_of_nc24r ==
  build = "nc24r" /\ Relays24!Next
  /\ UNCHANGED <<build, spi, board, panel, clock, output, bus>>
step_of_i2c == build = "i2c" /\ I2c!Next /\ UNCHANGED <<build, spi, board, panel, relays>>

Next ==
  \/ step_of_inputs \/ step_of_outputs \/ step_of_ncpan \/ step_of_nc24r \/ step_of_i2c

Spec == Init /\ [][Next]_<<build, spi, board, panel, relays, clock, output, bus>>

-----------------------------------------------------------------------------
(* Properties of the boards.                                               *)

\* The buffers of each board hold what they are for, the SPI's buffer its promises, and the
\* status of the NC24R is that of its relays, no two of which share a bit.
TypeOK ==
  /\ build = "inputs" => Inputs!TypeOK
  /\ build = "outputs" => Outputs!TypeOK
  /\ build = "ncpan" => Pan!TypeOK
  /\ build = "nc24r" => Relays24!StatusShowsOutputs
  /\ build = "i2c" => I2c!TypeOK

\* As long as no write of SPDR was inhibited and the monitor queued no byte, a transfer clocks in
\* the next byte of what the NCCPU latched, or the dip switch of the NCPAN as it is.
InputsInStep ==
  [][/\ build = "inputs" => Inputs!InputsInStepAction
     /\ build = "ncpan" => Pan!DipIsCurrentAction]_<<spi, board, panel>>

\* STROBE shows the last bytes written on the triacs and relays of the NCCPU.
RelaysShowWritten == [][build = "outputs" => Outputs!RelaysShowWrittenAction]_<<spi, board>>

\* The I2C bus does what the potentiometers promise.
KeepsPromise == I2c!KeepsPromise

\* Only an acknowledge changes the data line behind the back of i2c_sim.
UnseenOnlyAfterAck == I2c!UnseenOnlyAfterAck
=============================================================================
