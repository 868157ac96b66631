CONSTANTS
  t1 = t1
  t2 = t2
  s1 = s1
  s2 = s2
  Foreign = Foreign
  Corrupt = Corrupt
  Newer = Newer
  None = None
  Ids <- TwoIds
  Secrets <- TwoSecrets
  InitialFiles <- FoundFiles
  MaxTargets = 2
  MaxEdits = 2
SYMMETRY Symmetry
SPECIFICATION Spec
INVARIANTS
  ReferencesResolve
  FailedSaveRestores
  SecretsAreStored
  NoOrphans
PROPERTIES
  ReplacedIsKept
  ForeignSurvives
CHECK_DEADLOCK FALSE
