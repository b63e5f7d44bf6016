SPECIFICATION BothSpec
CONSTANTS
  Addr = {a1, a2, a3}
  MaxAccess = 2
  MaxAddr = 1
  Vector = 1
  MaxSyms = 2
  Row = 1
  Word = {"0", "add", "main"}
  Name = {"add", "main"}
  Number = {"0", "add"}
  Hex <- MCHex
SYMMETRY Interchangeable
CHECK_DEADLOCK FALSE
INVARIANTS
  BothTypeOK
  BreaksAskedFor
PROPERTIES
  StopsExactlyForCause
  ReportedAddressAccessed
