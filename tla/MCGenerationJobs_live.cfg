SPECIFICATION FairSpec
CONSTANTS
  Workers = {w1, w2}
  Jobs = {j1}
  Kinds = {"async", "sync"}
  None = None
  HardKill = TRUE
  MaxStepAttempts = 2
  MaxQueue = 1
  MaxFaults = 1
CHECK_DEADLOCK FALSE
PROPERTIES
  EventuallyHandled
