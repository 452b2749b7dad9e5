SPECIFICATION HiddenSpec
CONSTANTS
  MaxRevision = 3
  MaxBatch = 2
  MaxPending = 1
  Waiters = {w1}
  MaxLost = 1
  MaxFetchFaults = 1
  MaxThrows = 0
  Ordered = TRUE
PROPERTIES
  VisibleWindowCatchesUp
  WaiterSettles
CHECK_DEADLOCK FALSE
