SPECIFICATION Spec
CONSTANTS
  a = a
  b = b
  Sessions = {a, b}
  Existing = {a, b}
  MaxDeliveries = 4
  Capacity = 2
  Limit <- FaultyLimit
  Budget = 1
INVARIANTS
  BooksAgree
  ReportedOnce
PROPERTIES
  NeverReplayed
SYMMETRY TwoSessions
CHECK_DEADLOCK FALSE
