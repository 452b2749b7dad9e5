CONSTANTS
  r1 = r1
  r2 = r2
  f1 = f1
  f2 = f2
  Runtimes = {r1}
  Files = {f1}
  Limit <- MCLimit
  MaxStarts = 1
  Window = 2
  MaxPending = 1
  MaxTime = 2
SPECIFICATION FairSpec
CHECK_DEADLOCK FALSE
INVARIANTS
  StoppedIsReleased
PROPERTIES
  CallsEnd
  FailureIsTold
