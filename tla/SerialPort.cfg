SPECIFICATION PortsSpec
CONSTANTS
  r1 = r1
  w1 = w1
  w2 = w2
  NoWriter = NoWriter
  Readers <- OneReader
  Writers <- TwoWriters
  Rates <- OneRate
  DefaultRate = 115200
  Capacity = 1
  MaxOpenings = 2
  MaxChunks = 3
  MaxSends = 1
  SomModes <- PowerModes
  BootModes <- BootSelections
  NoMode = NoMode
  QueueCap = 1
  MaxRequests = 4

INVARIANTS
  PortInv
  McuInv

PROPERTIES
  OutputsEnd

CHECK_DEADLOCK FALSE
