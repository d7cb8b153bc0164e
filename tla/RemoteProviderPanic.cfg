SPECIFICATION ProviderSpec
CONSTANTS
  None = None
  Kinds = {consoles}
  Detailed = {}
  Items = {thing}
  ChannelCap = 2
  MaxId = 2
  MaxConnects = 1
  MaxRestarts = 0
INVARIANTS
  NothingLeftBehind
CHECK_DEADLOCK FALSE
