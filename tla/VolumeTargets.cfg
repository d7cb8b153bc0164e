SPECIFICATION TargetsSpec
CONSTANTS
  Block = 4
  FileHeader = 1
  ChunkHeader = 1
  Writes <- SomeWrites
  Positions <- Observed
  MaxDownload = 18
  FlashThreshold = 40
  MaxRequests = 4
  MaxFailures = 1
  Names = {"boot", "stage"}
  Known = {"boot"}
  Stage = "stage"
  MaxHandles = 2
  MaxItems = 2
  MaxCommands = 3
  MaxRefusals = 1
  MaxOpens = 2
  MaxWrites = 2
  MaxCommits = 2
  MaxFailed = 1
  Hints = {5}
  NoHint = NoHint
  DefaultCapacity = 1
  MostCapacity = 2
  Room <- SomeRoom
  Lengths = {1, 2}
  MaxTargets = 2
  MaxUploads = 2
  MaxExecutes = 1
  MaxFaults = 1
  Sectors = {0, 1}
  MaxSessions = 2
  MaxOps = 3
  MaxErrors = 1

INVARIANTS
  BufferInv
  VolumeInv
  DfuInv
  UploadInv
  LoaderInv

PROPERTIES
  UsersTakeTurns

CHECK_DEADLOCK FALSE
