SPECIFICATION GenericSpec
CONSTANTS
  MaxBound = 2
  Sizes <- AnySize
  MaxPush = 4
  Margin = 1
INVARIANT
  PairMatches
