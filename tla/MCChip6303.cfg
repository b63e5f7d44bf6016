SPECIFICATION BothSpec
CONSTANTS
  ByteSize = 2
  MaxCycles = 2
  WrittenBits <- MCWrittenBits
  WrittenBytes = {1}
  WrittenT2 = {}
  T2Counting = {}
  Prescaler <- MCPrescaler
  MaxRx = 1
  MaxNest = 1
INVARIANTS
  TypeOK
  Ocf1Exact
  TxFollowsTie
PROPERTIES
  MatchUnlessWrap
  Ocf2NeverFalls
  CompareInterruptHasMatch
  CompareServed
