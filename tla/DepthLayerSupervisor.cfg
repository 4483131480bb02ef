SPECIFICATION SwitchSpec
CONSTANTS
  Costmaps = {local, global}
  RecoveryStableTime = 2
  SwitchTimeout = 5
  RebuildWait = 2
INVARIANTS LayersAgree
PROPERTIES MovesWithHealthyCamera SwitchEnds
