SPECIFICATION Spec
CONSTANTS
  Bundles = {b1, b2}
  MaxOperations = 4
INVARIANTS SavedIsWhole FedOnlyWhenMapping
PROPERTIES RefusedIsSpoilt NoSilentLoss FailureIsFinal BusyEnds
CHECK_DEADLOCK FALSE
