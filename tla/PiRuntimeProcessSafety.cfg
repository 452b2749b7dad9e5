CONSTANTS
  r1 = r1
  r2 = r2
  f1 = f1
  f2 = f2
  Runtimes = {r1, r2}
  Files = {f1, f2}
  Limit <- MCOneStop
  MaxStarts = 1
  Window = 2
  MaxPending = 2
  MaxTime = 2
SPECIFICATION Spec
SYMMETRY MCSymmetry
INVARIANTS
  StartLimit
  NoneOutlivesProcess
  OneOwner
  ToldOnce
PROPERTIES
  CleanExit
CHECK_DEADLOCK FALSE
