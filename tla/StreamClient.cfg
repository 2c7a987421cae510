SPECIFICATION ClientSpec
CONSTANTS
  MaxBound = 3
  Sizes <- AnySize
  MaxPush = 5
  Margin = 1
INVARIANTS
  ClientTypeOK
  RaisesOnlyForLoss
  NoSilentLoss
  SnapshotFull
PROPERTIES
  NoneIsCaughtUp
  RefinesLog
