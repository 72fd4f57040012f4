SPECIFICATION Spec
CONSTANTS
  Floor <- MCFloor
  SigCap = 2
  SigHalf = 1
  TrustOne = 2
  WeightOne = 8
  PerSession = 2
  MaxDelta = 2
  FlaggedDelta = 1
  Velocity = 4
  Absolute = 6
  Window = 2
  Keep = 2
  Between = 2
  None = None
  Significances = {0, 3}
  Releases = {1}
  LegacyCores <- MCLegacyCores
  MaxCount = 4
  Ceilings = {}
  WeightDeltas = {3}
PROPERTY AttachmentSurvives
CHECK_DEADLOCK FALSE
