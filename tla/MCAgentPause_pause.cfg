SPECIFICATION FairSpec
CONSTANTS
  c1 = c1
  c2 = c2
  Calls = {c1, c2}
  Executors = {e1, e2}
  Tabs = {t1, t2}
  None = None
  CanAbort = TRUE
  MaxGates = 1
  MaxRetries = 1
  MaxFaults = 2
CHECK_DEADLOCK FALSE
CONSTRAINTS
  InOrder
  Bounded
INVARIANTS
  TypeOK
  OnceUnlessLate
  OnlyApproved
PROPERTIES
  DenialStops
  AbortEnds
  ApprovalHonoured
