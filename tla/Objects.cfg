SPECIFICATION Spec
CONSTANTS
  CONT_MAX = 8
  Fields <- MCFields
  MaxFields = 3
  Types <- MCTypes
  Elements <- MCElements
  MaxElements = 3
  Steps <- MCSteps
  MaxSteps = 4
CHECK_DEADLOCK FALSE
INVARIANTS LaidOutAsTheABI LocalAsWritten StaticAsWritten AddressesOfTheABI
