SPECIFICATION Spec
CHECK_DEADLOCK FALSE
CONSTANTS
  c1 = c1
  c2 = c2
  Calls = {c1}
  Executors = {e1, e2}
  Tabs = {t1, t2}
  None = None
  CanAbort = FALSE
  MaxGates = 0
  MaxRetries = 1
  MaxFaults = 0
INVARIANT RunsOnce
