CONSTANTS
  SeqMod = 8
  Waiters = {a, b}
  MaxBumps = 2
  WaitKinds = {"seq"}
  InitSeq = 0
  Backends = {"futex"}
SPECIFICATION Spec
INVARIANT
  NoLostWakeup
CHECK_DEADLOCK FALSE
