SPECIFICATION FairSpec
CONSTANTS
  a = a
  b = b
  c = c
  Nodes = {a, b, c}
  Dags <- ThreeNodes
  None = None
  Leftover = {}
  Workers = {w1, w2}
  CanAbort = TRUE
  MaxFaults = 1
CHECK_DEADLOCK FALSE
CONSTRAINT
  Bounded
INVARIANTS
  TypeOK
  OneRunner
PROPERTIES
  AbortedNotResumed
  KeepsPromise
  Wakes
  AbortEnds
