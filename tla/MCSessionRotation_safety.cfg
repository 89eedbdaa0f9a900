SPECIFICATION Spec
CONSTANTS
  Clients = {c1, c2, c3}
  Locks = {c1, c2}
  MaxHolders = 2
  Calls = {k1, k2, k3}
  Secrets = {s1, s2, s3, s4, s5}
  None = None
  MaxReplays = 2
  MaxRecoveries = 2
  Timely = TRUE
  Impersonated = TRUE
  Events = {"revoke", "expire", "block", "delete", "reserve"}
  MaxFaults = 3
CHECK_DEADLOCK FALSE
SYMMETRY SessionSymmetry
CONSTRAINT Bounded
INVARIANTS
  TypeOK
  CookieUsable
  HandsOutCurrent
PROPERTIES
  RecoveryDiscardsUndelivered
  CondemnedOnlyIfOvertakenTwice
  RevokedOnlyIfStale
  CappedOnlyIfSpent
