SPECIFICATION Spec
CONSTANTS
  MAX_STACK = 60
  Operands <- MCOperands
  Around <- MCAround
  Typedefs <- MCTypedefs
INVARIANTS
  ParsedAsWritten
  CastsWaitInside
CHECK_DEADLOCK FALSE
