INIT BothInit
NEXT BothNext
CONSTANTS
  ByteSize = 2
  MaxCycles = 2
  WrittenBits <- MCWrittenBits
  WrittenBytes = {1}
  WrittenT2 = {}
  T2Counting = {}
  Prescaler <- MCPrescaler
  MaxRx = 1
  MaxNest = 1
PROPERTY MatchSetsOcf1
