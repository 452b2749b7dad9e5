SPECIFICATION Spec
CONSTANTS
  a = a
  b = b
  Sessions = {a, b}
  Existing = {a, b}
  MaxDeliveries = 4
  Capacity = 2
  Limit <- CancelLimit
  Budget = 0
PROPERTIES
  CancelledIsNotHanded
CHECK_DEADLOCK FALSE
