CONSTANTS
  SeqMod = 8
  Capacity = 4
  ItemSize = 2
  MaxPos = 10
  Junk = Junk
SPECIFICATION ChannelSpec
INVARIANTS
  ChannelTypeOK
  NobodySleepsThroughProgress
  NoStrayFlag
  ChannelInv
PROPERTIES
  StreamDelivered
  ImplementsFifo
