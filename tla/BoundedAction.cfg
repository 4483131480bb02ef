SPECIFICATION Spec
CONSTANTS
  MaxRevision = 3
  ResponseTimeout = 1
  CancelTimeout = 0
  ResultTimeout = 1
  MaxTime = 4
INVARIANTS CancelReachesEveryHandle SuccessIsOfCurrentGoal OverMeansEnded WaitIsBounded
CHECK_DEADLOCK FALSE
