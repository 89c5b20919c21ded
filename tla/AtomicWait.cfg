CONSTANTS
  Waiters = {a, b}
  Systems = {"linux", "windows", "macos", "other"}
  Values = {0, 1}
SPECIFICATION FairSpec
INVARIANTS
  AnswerHonest
  AnswerInv
PROPERTIES
  ChangeNoticed
  TimedWaitReturns
CHECK_DEADLOCK FALSE
