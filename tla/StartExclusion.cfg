SPECIFICATION ExclusionSpec
CONSTANTS
  Requests = {r1, r2}
INVARIANTS PortalNeverConfirms
PROPERTIES KnotsComeUndone
CHECK_DEADLOCK FALSE
