CONSTANTS
  s1 = s1
  s2 = s2
  i1 = i1
  i2 = i2
  o1 = o1
  None = None
  SceneIds <- TwoScenes
  ItemIds <- TwoItems
  Forms <- FormsOfTwo
  ObsScenes <- ObsOne
  Start <- OldFile
SPECIFICATION Spec
INVARIANTS
  ScenesAreWhole
  OnlyEditsAwaitSaving
  RowsAreCurrent
PROPERTIES
  EditsAreSaved
CHECK_DEADLOCK FALSE
