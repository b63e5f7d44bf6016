SPECIFICATION AllSpec
CONSTANTS
  ByteSize = 2
  MaxCycles = 1
  LongExceedsInt = FALSE
  IntSize = 8
  Compare = {1, 2, 3}
  WrittenCompare = {}
  WrittenBytes = {}
  WrittenFlags <- MCMasks
  WrittenMasks <- MCMasks
  SpiByte = {"own"}
  SpiSize = 1
  MaxRx = 1
  MaxCycles6301 = 2
  WrittenBytes6301 = {0, 1}
  IntSize6805 = 24
  TimerCycles = {1, 3, 5}
  ChipCycles = {8}
  WrittenBytes6805 = {0, 1}
  MaxOcr = 8
INVARIANTS
  AllTypeOK
  OcfWhilePast
PROPERTIES
  Oc1MatchesToc1
  UnlatchedTogether
  SpiAcknowledgedAfterStatus
  AckNeedsCounterBehind
  MatchWhenDue
  LowestServed
