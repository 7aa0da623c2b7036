SPECIFICATION Spec
CONSTANTS
  MAX_DECL_DEPTH = 4
  MAX_SUFFIX = 6
  MAX_VISITED = 16
  MAX_SEEN = 16
  MAX_LAYERS = 16
  IsDevice = FALSE
  Units <- MCUnits
  MaxDerivations = 4
  MaxItems = 5
CHECK_DEADLOCK FALSE
INVARIANTS
  DeclaredAsWritten
  MembersAsWritten
  GlobalsAsWritten
  BodiesAsWritten
