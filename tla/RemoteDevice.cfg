SPECIFICATION ExportSpec
CONSTANTS
  uart = uart
  disk = disk
  Remotes <- TwoItems
  MaxLocals = 3
  MaxInfos = 3
  MaxDrains = 1
  ann = ann
  bob = bob
  Callers <- TwoCallers
  Depth = 1
  MaxConfigured = 2
  MaxTyped = 3

INVARIANTS
  DeviceInv
  ProxyInv

CHECK_DEADLOCK FALSE
