SPECIFICATION Spec
CONSTANTS
  Clients = {c1, c2}
  Slots = 2
  HeadSz = 1
  ElemSz = 2
  SeqMod = 3
  MaxWrites = 7
  MaxDeaths = 1
INVARIANTS TypeOK ServedWhileCaptured OneInside RingHoldsNewest ReadsInOrder
PROPERTIES FeedSpec CatchesUp
CHECK_DEADLOCK FALSE
