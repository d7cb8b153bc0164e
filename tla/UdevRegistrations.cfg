SPECIFICATION ProviderSpec
CONSTANTS
  None = None
  NoId = NoId
  NoChip = NoChip
  ByNumber <- OneNumber
  ByName = {0, 1}
  NumLines = 3
  Paths = {p1, p2}
  Parts = {x, y}
  MaxSeq = 4

INVARIANTS
  LatestInv
  OfferedInv

PROPERTIES
  ImplementsInventory
  GoneInTheEnd

CHECK_DEADLOCK FALSE
