SPECIFICATION FairSpec
CONSTANTS
  a = a
  b = b
  c = c
  Nodes = {a, b, c}
  Dags <- OneJoin
  None = None
  Leftover = {}
  Workers = {w1, w2}
  CanAbort = FALSE
  MaxFaults = 0
CHECK_DEADLOCK FALSE
PROPERTIES
  AlwaysWoken
