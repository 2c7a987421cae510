SPECIFICATION Spec
CONSTANTS
  Clients = {c1, c2}
  Slots = 2
  HeadSz = 1
  ElemSz = 2
  SeqMod = 3
  MaxWrites = 3
  MaxDeaths = 1
PROPERTY
  KeepsWriting
CHECK_DEADLOCK FALSE
