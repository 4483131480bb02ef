SPECIFICATION Spec
CONSTANTS
  MaxTask = 2
  MaxSequence = 2
  CancelTimeout = 1
  SettleTimeout = 1
  InputTimeout = 1
INVARIANTS StopIsBounded
CHECK_DEADLOCK FALSE
