CONSTANTS
  SeqMod = 2
  Capacity = 8
  Alignment = 1
  HeaderSize = 2
  U32 = 64
  Payloads = {1, 2}
  MaxPos = 14
  Persistent = FALSE
  MayDecline = TRUE
  Junk = Junk
SPECIFICATION LiveSpec
INVARIANT
  InsideRegion
