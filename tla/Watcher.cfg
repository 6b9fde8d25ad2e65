SPECIFICATION Spec
CHECK_DEADLOCK FALSE
CONSTANTS
  Object = {o1, o2}
  Capacity = 2
  MaxVersion = 2
  MaxCuts = 1
INVARIANTS
  TypeOK
  StopJoins
PROPERTIES
  InOrder
  Resync
  StopReturns
