SPECIFICATION Spec
CONSTANTS
  a = a
  b = b
  Sessions = {a, b}
  Existing = {a}
  MaxDeliveries = 2
  Capacity = 2
  Limit <- SpawnLimit
  Budget = 1
INVARIANTS
  StoppedSenderIsNeverTold
CHECK_DEADLOCK FALSE
