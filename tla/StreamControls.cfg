CONSTANTS
  t1 = t1
  t2 = t2
  Targets <- TwoTargets
  WithAll <- First
  AutoStart <- First
  AutoStop <- TwoTargets
  Configured = TRUE
  MaxGeneration = 2
  MaxObsEvents = 2
SPECIFICATION FairSpec
INVARIANTS
  SuppressionIsOfTransition
  ShownIsCurrent
PROPERTIES
  TransitionEnds
CHECK_DEADLOCK FALSE
