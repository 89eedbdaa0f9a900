SPECIFICATION Spec
CONSTANTS
  Workers = {w1, w2}
  Jobs = {j1}
  Kinds = {"sync"}
  None = None
  HardKill = FALSE
  MaxStepAttempts = 2
  MaxQueue = 1
  MaxFaults = 0
SYMMETRY WorkerSymmetry
CHECK_DEADLOCK FALSE
PROPERTIES
  TerminalIsFinal
