SPECIFICATION FairProviderSpec
CONSTANTS
  None = None
  Kinds = {volumes}
  Detailed = {volumes}
  Items = {thing}
  ChannelCap = 2
  MaxId = 2
  MaxConnects = 2
  MaxRestarts = 2

INVARIANTS
  ProviderInv

PROPERTIES
  ReexportsWhileStreaming

CHECK_DEADLOCK FALSE
