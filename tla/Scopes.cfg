SPECIFICATION Spec
CONSTANTS
  Names = {x, y}
  Marker = marker
  MaxDecls = 5
  MaxDepth = 4
INVARIANTS
  LocalsResolve
PROPERTIES
  BlockGivesBack
