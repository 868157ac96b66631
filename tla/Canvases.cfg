CONSTANTS
  t1 = t1
  t2 = t2
  v1 = v1
  v2 = v2
  v3 = v3
  small = small
  edited = edited
  large = large
  Program = Program
  None = None
  Targets <- TwoTargets
  Videos <- ThreeVideos
  Configs <- FourConfigs
  Layouts <- ThreeLayouts
  LayoutSize <- LayoutSizes
SYMMETRY Symmetry
SPECIFICATION Spec
INVARIANTS
  RefsAgree
  EncodersDrawFromCanvas
  VerticalNotStale
  NothingIsKept
PROPERTIES
  StartsOnItsLayout
CHECK_DEADLOCK FALSE
