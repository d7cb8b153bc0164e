SPECIFICATION MCInfoSpec
CONSTANTS
  c1 = c1
  c2 = c2
  w1 = w1
  NoMode = NoMode
  Unknown = Unknown
  Modes <- MCModes
  Depends <- MCDepends
  Sequence <- MCSequence
  Actuators <- MCActuators
  Requests <- MCRequests
  Callers <- MCCallers
  Watchers <- MCWatchers
  MaxCalls = 3
  MaxLinks = 2

INVARIANTS
  InfoInv
  ModeInv

PROPERTIES
  WaitEnds

CHECK_DEADLOCK FALSE
