SPECIFICATION Spec
CONSTANTS
  Sessions = {s1, s2}
  MaxBoots = 3
SYMMETRY Alike
INVARIANT
  HeldIsClaimable
PROPERTIES
  ContinuedOnce
  NotOvertaken
CHECK_DEADLOCK FALSE
