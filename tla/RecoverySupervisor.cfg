SPECIFICATION Spec
CONSTANTS
  MaxTask = 3
  MaxSequence = 3
  CancelTimeout = 1
  SettleTimeout = 1
  InputTimeout = 1
INVARIANTS NoStrayMotion MotionIsAttended PermitIsEarned StopEnds
CHECK_DEADLOCK FALSE
