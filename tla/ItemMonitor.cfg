SPECIFICATION FairSpec
CONSTANTS
  Kinds = {"consoles"}
  Items = {a, b}
  Feeds = {f1}
  ChannelCap = 2
  MaxId = 3
  MaxOpens = 2

INVARIANTS
  MonitorInv
  MirrorExact

PROPERTIES
  ForgetsOnlyRemoved
  Settles

CHECK_DEADLOCK FALSE
