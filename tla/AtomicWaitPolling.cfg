CONSTANTS
  Waiters = {a}
  Systems = {"windows", "other"}
  Values = {0}
SPECIFICATION FairSpec
PROPERTY
  TimeoutHonoured
CHECK_DEADLOCK FALSE
