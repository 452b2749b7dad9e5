SPECIFICATION VisibleSpec
CONSTANTS
  MaxRevision = 3
  MaxBatch = 2
  MaxPending = 1
  Waiters = {}
  MaxLost = 0
  MaxFetchFaults = 0
  MaxThrows = 0
  Ordered = FALSE
PROPERTY
  HeardIsShown
CHECK_DEADLOCK FALSE
