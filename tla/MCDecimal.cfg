SPECIFICATION Spec
CONSTANTS
  BITS = 8
  HALF = 4
INVARIANTS
  DecimalSum
