SPECIFICATION ExclusionSpec
CONSTANTS
  Requests = {r1, r2, r3}
INVARIANTS OneOwner
CHECK_DEADLOCK FALSE
