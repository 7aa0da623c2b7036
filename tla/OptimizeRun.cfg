SPECIFICATION Spec
CONSTANTS
  CHAR_BITS = 2
  INT_BITS = 3
  LONG_BITS = 5
  MAX_CONSTANTS = 32
  MAX_ENUM = 512
  Seeds <- MCSeeds
  Around <- MCAround
  Params <- MCParams
  SA_MAX_FRAMES = 6
  Parameters <- MCParameters
  Fuel = 4
INVARIANTS OptimizedDoesWhatIsWritten ConstantsAreTheirValues AssertionsSeeTheirScope
CHECK_DEADLOCK FALSE
