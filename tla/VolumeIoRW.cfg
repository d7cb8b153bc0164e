SPECIFICATION RWSpec
CONSTANTS
  MaxRequests = 3
  Top = 2
  Lengths = {1, 2}
  Seekable = TRUE

INVARIANTS
  RWInv

PROPERTIES
  ReadsFromPosition

CHECK_DEADLOCK FALSE
