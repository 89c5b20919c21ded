CONSTANTS
  SeqMod = 4
  Capacity = 4
  ItemSize = 2
  MaxPos = 10
  Junk = Junk
  Backends = {"futex", "os_sync", "ulock"}
SPECIFICATION ChannelSpec
INVARIANTS
  TagsMatch
  ThreadInv
PROPERTIES
  BothFinish
  DrainedIfDoneFirst
