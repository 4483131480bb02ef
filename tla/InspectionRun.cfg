SPECIFICATION Spec
CONSTANTS
  PointCount = 1
  SpotCount = 2
INVARIANTS EndedIsStopped EveryPointAccountedFor DrivesLookingForward CancelReachesGoal
PROPERTIES PhotoIsOfItsPoint StopIsSettled RunEnds
CHECK_DEADLOCK FALSE
