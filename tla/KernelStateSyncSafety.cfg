SPECIFICATION Spec
CONSTANTS
  MaxRevision = 3
  MaxBatch = 3
  MaxPending = 2
  Waiters = {w1}
  MaxLost = 1
  MaxFetchFaults = 1
  MaxThrows = 1
  Ordered = FALSE
INVARIANTS
  ViewIsPrefix
  SettledMeansShown
  DomainEventIsBarrier
PROPERTIES
  ImplementsReplica
CHECK_DEADLOCK FALSE
