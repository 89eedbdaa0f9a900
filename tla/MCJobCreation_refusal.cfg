SPECIFICATION Spec
CONSTANTS
  Requests = {r1, r2, r3}
  Asks <- RacingAsks
  NoKey = NoKey
  Key = Key
  Initial = 4
  MaxFaults = 0
SYMMETRY RequestSymmetry
CHECK_DEADLOCK FALSE
PROPERTIES
  RefusedOnlyIfShort
