SPECIFICATION Spec
CONSTANTS
  CondStackMax = 3
  MaxNesting = 4
INVARIANTS
  SkippingIsInherited
  DepthIsNesting
  AgreesOnSimpleGroups
  NeverLosesSelectedLines
