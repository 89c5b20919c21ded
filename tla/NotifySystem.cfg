CONSTANTS
  SeqMod = 8
  Waiters = {consumer}
  MaxBumps = 6
  WaitKinds = {"state", "seq"}
  InitSeq = 5
  Backends = {"futex", "win32", "os_sync", "ulock"}
SPECIFICATION FairSpec
INVARIANTS
  NoLostWakeup
  ResultHonest
  WakeupInv
  HonestInv
PROPERTIES
  ProgressReturns
  TimedReturns
CHECK_DEADLOCK FALSE
