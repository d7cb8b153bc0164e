SPECIFICATION FairSpec
CONSTANTS
  Kinds = {read, write}
  MaxRequests = 3
  QueueSize = 1
  ReplyCapacity = 2

INVARIANTS
  WireInv

PROPERTIES
  ImplementsOrderedIo
  EveryRequestAnswered
  ServerLetsGo

CHECK_DEADLOCK FALSE
