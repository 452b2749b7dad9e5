SPECIFICATION Spec
CONSTANTS
  c1 = c1
  c2 = c2
  c3 = c3
  a = a
  b = b
  Contexts = {c1, c2, c3}
  Files = {a, b}
INVARIANTS
  InterruptsItsOwn
CHECK_DEADLOCK FALSE
