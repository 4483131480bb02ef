SPECIFICATION Spec
CONSTANTS
  Gears = {"slow", "fast"}
  Sensors = {"scan"}
  GatewayLimit = 0
  SensorLimit = 0
  Lease = 2
  DelayLimit = 0
  MaxSession = 2
  MaxMessage = 2
  MaxEnable = 2
INVARIANTS ReleaseIsFinal StopsInTime
PROPERTIES ImplementsInterlock
