CONSTANTS
  t1 = t1
  p1 = p1
  p2 = p2
  NoTarget = NoTarget
  Ids <- OneTarget
  Kinds <- SceneOnly
  Profiles <- OneProfile
  MaxSerial = 1
  MaxSignals = 2
  ReleasePollLimit = 2
SPECIFICATION Spec
INVARIANTS
  IdleMeansNoOutput
CHECK_DEADLOCK FALSE
