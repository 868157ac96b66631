CONSTANTS
  t1 = t1
  t2 = t2
  None = None
  Targets <- TwoTargets
  MaxSessions = 2
  MaxGeneration = 4
SYMMETRY Symmetry
SPECIFICATION Spec
INVARIANTS
  DialogIsCurrent
PROPERTIES
  OnlyItsAnswer
  QuestionsAreNotLost
CHECK_DEADLOCK FALSE
