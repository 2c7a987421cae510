SPECIFICATION Spec
CONSTANTS
  MaxBound = 3
  Sizes <- AnyRoom
  MaxPush = 4
INVARIANTS
  TypeOK
  HoldsNewest
  DirtyIsLoss
  ResumesExactly
  NegativeIsExplained
  NFromMarkerKeepsTheRest
