SPECIFICATION Spec
CONSTANTS
  LAST = LAST
  BID = BID
  IBM = IBM
  XXX = XXX
  Topics = {LAST, BID}
  Items = {IBM, XXX}
  BadItems = {XXX}
  NULL = NULL
  Asked <- SomePairs
  MaxRequests = 3
  MaxHandles = 2
  MaxQuits = 1
INVARIANTS TypeOK StreamsHaveBuffers OwnAnswer LinkedAsCounted NoConversationLeft ValuesReachOwnStream ConversationsMatch
PROPERTY CountsSpec
CHECK_DEADLOCK FALSE
