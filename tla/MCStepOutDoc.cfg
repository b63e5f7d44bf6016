INIT Init6811
NEXT Next6811
CONSTANTS
  Family = "6800"
  ReportsInterrupts = TRUE
  Addr = {routine}
  SPSize = 20
  UIntMax = 39
  MaxCallStack = 2
  MaxCalls = 3
  MaxRtis = 1
  MaxResets = 1
  MaxLocal = 1
INVARIANT StepOutNeverPassesReturn
