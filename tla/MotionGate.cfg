SPECIFICATION Spec
CONSTANTS
  Tokens <- MCTokens
  Velocities = {fast}
  Zero = zero
  NotFinite = notFinite
  Lease = 2
  CommandAge = 3
  PerceptionTimeout = 3
  RequirePerception = TRUE
  MaxTime = 6
INVARIANTS StopDeadline
PROPERTIES ImplementsInterlock
