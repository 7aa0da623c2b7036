SPECIFICATION Spec
CONSTANTS
  CHAR_BITS = 2
  INT_BITS = 3
  LONG_BITS = 5
  MAX_INLINE_SIZE = 4
  MAX_ITER = 3
  Fuel = 12
  Levels = {0, 1}
  Arguments <- TwoWords
  Modules <- Taken
CHECK_DEADLOCK FALSE
INVARIANTS
  PhisNamePredecessors
