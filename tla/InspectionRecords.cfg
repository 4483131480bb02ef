SPECIFICATION Spec
CONSTANTS
  Requests = {r1, r2}
  Points = {a}
  Photos = {1, 2}
  MaxFailures = 1
INVARIANTS RecordsAreTrue NothingTwice
PROPERTIES UploadsEnd
CHECK_DEADLOCK FALSE
