SPECIFICATION FairSpec
CONSTANTS
  c1 = c1
  c2 = c2
  Contexts = {c1, c2}
  i1 = i1
  i2 = i2
  i3 = i3
  Ids = {i1, i2, i3}
  Limit <- MCLimit
INVARIANTS
  HibernatesIdle
  ForegroundStays
  NativeFenceIsKnown
  NoLeaseLeftBehind
PROPERTIES
  SweepEnds
  ForgottenFenceOpens
CHECK_DEADLOCK FALSE
