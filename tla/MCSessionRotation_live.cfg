SPECIFICATION FairSpec
CONSTANTS
  Clients = {c1, c2}
  Locks = {c1, c2}
  MaxHolders = 2
  Calls = {k1, k2}
  Secrets = {s1, s2, s3, s4, s5}
  None = None
  MaxReplays = 1
  MaxRecoveries = 1
  Timely = TRUE
  Impersonated = FALSE
  Events = {}
  MaxFaults = 1
CHECK_DEADLOCK FALSE
PROPERTIES
  LostResponseRecovers
  CollisionEndsSession
