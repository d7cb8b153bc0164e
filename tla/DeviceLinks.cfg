SPECIFICATION FairSpec
CONSTANTS
  a = a
  b = b
  vol = vol
  act = act
  NoId = NoId
  Kinds <- MCKinds
  Items <- MCItems
  Slots <- MCSlots
  SlotKind <- MCSlotKind
  Matching <- MCMatching
  Order <- MCOrder
  ChannelCap = 1
  MaxId = 2

INVARIANTS
  LinksInv
  LinksAreAnnounced

PROPERTIES
  CatchesUp

CHECK_DEADLOCK FALSE
