SPECIFICATION Spec
CONSTANTS
  Floor <- MCFloor
  SigCap = 2
  SigHalf = 1
  TrustOne = 2
  WeightOne = 5
  PerSession = 2
  MaxDelta = 2
  FlaggedDelta = 1
  Velocity = 2
  Absolute = 2
  Window = 2
  Keep = 2
  Between = 2
  None = None
  Significances = {0, 3}
  Releases = {2}
  LegacyCores <- MCLegacyCores
  MaxCount = 5
  Ceilings = {2}
  WeightDeltas = {3}
PROPERTY ResetStartsOver
CHECK_DEADLOCK FALSE
