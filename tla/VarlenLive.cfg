CONSTANTS
  SeqMod = 2
  Capacity = 8
  Alignment = 2
  HeaderSize = 2
  U32 = 64
  Payloads = {0, 1, 4, 6, 7}
  MaxPos = 16
  Persistent = TRUE
  MayDecline = FALSE
  Junk = Junk
SPECIFICATION LiveSpec
INVARIANT
  InsideRegion
PROPERTY
  FullIsTemporary
