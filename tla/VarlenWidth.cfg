CONSTANTS
  SeqMod = 1
  Capacity = 8
  Alignment = 1
  HeaderSize = 2
  U32 = 64
  Payloads = {1, 63}
  MaxPos = 9
  Persistent = FALSE
  MayDecline = TRUE
  Junk = Junk
SPECIFICATION LiveSpec
INVARIANT
  SlotHoldsMessage
