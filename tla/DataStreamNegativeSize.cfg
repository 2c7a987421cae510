SPECIFICATION Spec
CONSTANTS
  MaxBound = 3
  Sizes <- SomeRoom
  MaxPush = 3
INVARIANT
  NFromMarkerNegativeIsDirty
