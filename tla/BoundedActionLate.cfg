SPECIFICATION Spec
CONSTANTS
  MaxRevision = 3
  ResponseTimeout = 1
  CancelTimeout = 1
  ResultTimeout = 0
  MaxTime = 6
INVARIANTS LateGoalsAreCancelled
CHECK_DEADLOCK FALSE
