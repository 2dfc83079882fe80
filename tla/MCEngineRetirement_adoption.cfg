CONSTANTS
  r1 = r1
  r2 = r2
  Request = {r1, r2}
  NoOne = NoOne
  Edits = 1
  Failures = 1
  Flips = 1
SPECIFICATION FairSpec
INVARIANTS
  TypeOK
  OneProvider
  WorkFinishes
  GoneForGood
PROPERTIES
  NoLocalStart
  RetirementCompletes
CHECK_DEADLOCK FALSE
