CONSTANTS
  t1 = t1
  p1 = p1
  p2 = p2
  NoTarget = NoTarget
  Ids <- OneTarget
  Kinds <- AllKinds
  Profiles <- TwoProfiles
  MaxSerial = 2
  MaxSignals = 2
  ReleasePollLimit = 2
SPECIFICATION FairSpec
INVARIANTS
  OneSessionPerTarget
  DiskAgrees
  RunningIsBacked
  StoppingIsBacked
  ReleaseIsScheduled
  SessionRunsItsTarget
PROPERTIES
  SessionEndsForCause
  ProfilesAreIsolated
  ImplementsLifecycle
  StopCompletes
CHECK_DEADLOCK FALSE
