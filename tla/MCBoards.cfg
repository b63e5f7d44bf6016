SPECIFICATION Spec
CONSTANTS
  ButtonsSize = 2
  Boards = 2
  GivenBeside = {"off"}
  SpiSize = 2
  Button = {0, 6, 9, 12}
  Dip = {"off", "on"}
  DipStart = "off"
  WrittenPortb <- MCWrittenPortb
  ByteBits = 4
  X9241_ID <- MCId
  READ_WIPER <- MCRead
  WRITE_WIPER <- MCWrite
  Frames <- MCFrames
INVARIANTS
  TypeOK
  UnseenOnlyAfterAck
PROPERTIES
  InputsInStep
  RelaysShowWritten
  KeepsPromise
