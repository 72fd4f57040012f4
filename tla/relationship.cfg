SPECIFICATION Spec
CONSTANTS
  Floor <- MCFloor
  SigCap = 2
  SigHalf = 1
  TrustOne = 2
  WeightOne = 5
  PerSession = 2
  MaxDelta = 2
  FlaggedDelta = 1
  Velocity = 2
  Absolute = 2
  Window = 2
  Keep = 2
  Between = 2
  None = None
  Significances = {0, 3}
  WeightDeltas <- MCWeightDeltas
  Releases = {2}
  Ceilings = {2, 5}
  LegacyCores <- MCLegacyCores
  MaxCount = 4
INVARIANT TypeOK
INVARIANT StageEarned
INVARIANT DecisionNotStuck
PROPERTY CeilingHeld
PROPERTY FallsByOne
PROPERTY AttachmentPaced
PROPERTY OneStageAtATime
CHECK_DEADLOCK FALSE
