SPECIFICATION Spec
CONSTANTS
  Layers = {local, global}
  InputTimeout = 1
  LayerTimeout = 1
  StableTime = 2
  MaxUpdates = 3
  MaxTime = 4
SYMMETRY LayerSymmetry
INVARIANTS BarrierNeverAhead SilenceStops
PROPERTIES AllowedIsEarned
