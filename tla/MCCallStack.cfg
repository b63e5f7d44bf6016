SPECIFICATION Spec
CONSTANTS
  Family = "6800"
  Addr = {sub, isr}
  SPSize = 12
  UIntMax = 23
  MaxCallStack = 2
  MaxCalls = 4
INVARIANTS
  TypeOK
  FramesNested
  OldestCallsRecorded
