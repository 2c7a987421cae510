SPECIFICATION Spec
CONSTANTS
  LAST = LAST
  BID = BID
  IBM = IBM
  XXX = XXX
  Topics = {LAST, BID}
  Items = {IBM, XXX}
  BadItems = {XXX}
  NULL = NULL
  Asked <- SomePairs
  MaxRequests = 2
  MaxHandles = 2
  MaxQuits = 1
PROPERTY EveryRequestAnswered
CHECK_DEADLOCK FALSE
