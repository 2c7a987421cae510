SPECIFICATION Spec
CONSTANTS
  Clients = {c1, c2}
  Nobody = Nobody
  Blocks = {b1, b2}
  Topics = {LAST, BID}
  Items = {IBM, SPY}
  MaxFaults = 1
SYMMETRY Interchangeable
INVARIANTS TypeOK CapturedInTable OneOfThree TableIsCaptured ReferencesAccounted
PROPERTY NothingForgotten
CHECK_DEADLOCK FALSE
