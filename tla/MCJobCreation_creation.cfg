SPECIFICATION Spec
CONSTANTS
  Requests = {r1, r2, r3}
  Asks <- AllAsks
  NoKey = NoKey
  Key = Key
  Initial = 4
  MaxFaults = 3
SYMMETRY RequestSymmetry
CHECK_DEADLOCK FALSE
INVARIANTS
  TypeOK
  CreditsAccountedFor
  AnswersAgree
  NoHiddenJob
PROPERTIES
  KeepsCredits
CONSTRAINT
  Bounded
