SPECIFICATION Spec
CONSTANTS
  Workers = {w1, w2}
  Jobs = {j1}
  Kinds = {"async", "nocancel", "sync"}
  None = None
  HardKill = TRUE
  MaxStepAttempts = 2
  MaxQueue = 2
  MaxFaults = 2
SYMMETRY WorkerSymmetry
CHECK_DEADLOCK FALSE
INVARIANTS
  TypeOK
  OneHolder
  AtMostOneGeneration
  WriteAheadSubmit
  CancelPromise
  HandledMatchesState
  RefundedIsStopped
  NeverStranded
PROPERTIES
  KeepsContract
  AlarmedIsLeft
