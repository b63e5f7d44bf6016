SPECIFICATION ArithmeticSpec
CONSTANTS
  BITS = 2
  HALF = 1
  MaxDigits = 2
INVARIANTS
  DigitsExact
  ProductRounds
  BranchesDecide
