SPECIFICATION FairSpec
CONSTANTS
  a = a
  b = b
  Sessions = {a, b}
  Existing = {a}
  MaxDeliveries = 4
  Capacity = 2
  Limit <- QuietLimit
  Budget = 1
INVARIANTS
  ResultIsOwn
  BusyGetsNoPrompt
  AbortHitsItsRun
  StoppedSenderIsLeftAlone
  NoLostWakeup
PROPERTIES
  EachConcludes
CHECK_DEADLOCK FALSE
