SPECIFICATION BothSpec
CONSTANTS
  N = 3
  MaxSize = 3
INVARIANTS
  Inv
PROPERTIES
  VisitsEachCombinationOnce
  NestedVisitsEachOnce
  BothTerminate
CHECK_DEADLOCK FALSE
