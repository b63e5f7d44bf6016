SPECIFICATION Spec
CONSTANTS
  ChipsListed = {"m6800", "h6301", "h6303", "m6811", "m6805"}
  Last <- MCLast
  Programs <- MCPrograms
INVARIANTS
  OnlyKnownMisprints
  TimePasses
