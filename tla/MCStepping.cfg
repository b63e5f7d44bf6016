SPECIFICATION BothSpec
CONSTANTS
  Family = "6800"
  ReportsInterrupts = TRUE
  Addr = {routine}
  SPSize = 20
  UIntMax = 39
  MaxCallStack = 2
  MaxCalls = 3
  MaxRtis = 1
  MaxResets = 1
  MaxLocal = 1
INVARIANTS
  BothTypeOK
PROPERTIES
  BothStepOverStopsOutside
  BothStepOutStopsAtReturn
  CtrlCStops
