SPECIFICATION FairSpec
CONSTANTS
  c1 = c1
  c2 = c2
  i1 = i1
  i2 = i2
  i3 = i3
  Contexts = {c1, c2}
  Ids = {i1, i2, i3}
  Limit <- MCLimit
PROPERTIES
  LaterSweepRestores
CHECK_DEADLOCK FALSE
