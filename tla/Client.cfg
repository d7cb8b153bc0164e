SPECIFICATION ClientSpec
CONSTANTS
  c1 = c1
  c2 = c2
  NoCaller = NoCaller
  NoToken = NoToken
  Broken = Broken
  Callers <- TwoCallers
  MaxTokens = 4
  NoSeek = NoSeek
  MaxWrite = 4
  BlockSize = 3
  Lengths <- SomeLengths
  Seeks <- SomeSeeks
  MaxPlace = 3
  MaxBytes = 5
  ScrollRoom = 1
  MaxChunks = 3
  Chunks <- SomeChunks
  Images <- SomeImages
  BlockBytes = 4
  MaxCut = 20
  Servers = {"a", "b"}
  NoServer = NoServer
  Unread = Unread
  NoFile = NoFile
  MaxRuns = 4
  Size <- SomeSizes

INVARIANTS
  TokenInv
  WriterInv
  TerminalInv
  SparseInv
  ConfigInv

PROPERTIES
  LoginIsKept
  NobodyIsStuck

CHECK_DEADLOCK FALSE
