SPECIFICATION Spec
CONSTANTS
  PointCount = 1
  SpotCount = 2
INVARIANTS GivenUpIsCancelled
CHECK_DEADLOCK FALSE
