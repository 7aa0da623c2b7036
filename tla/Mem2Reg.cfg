SPECIFICATION Spec
CONSTANTS
  Programs <- LoweredFunctions
  Slots = {1, 2}
  MAX_BLK = 40
  MAX_PRE = 10
  MAX_DF = 32
  DOM_MAX_ITER = 20
  MAX_CHILDREN = 8
  MAX_PASS = 4
INVARIANTS
  SameBehaviour
  DefinitionsDominateUses
  OnlyUnreachableLoadsAreUndefined
  ImmediateDominators
  FrontiersFound
  ServesLoops
