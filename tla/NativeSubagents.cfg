SPECIFICATION Spec
CONSTANTS
  t1 = t1
  t2 = t2
  Tasks = {t1, t2}
  Continues = 2
INVARIANTS
  WorkIsOwned
  LeaseCountsWork
  NobodyWaitsForever
  EveryHandlerReturns
PROPERTIES
  QuietWhileAborting
CHECK_DEADLOCK FALSE
