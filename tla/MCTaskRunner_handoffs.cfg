CONSTANTS
  t1 = t1
  t2 = t2
  Task = {t1, t2}
  Restless = {t1}
  Steps = 2
  Width = 1
  MaxResumes = 1
  Activations = 2
  Upsets = 1
SPECIFICATION FairSpec
INVARIANT TypeOK
PROPERTIES
  KeptInHand
  DispatchKept
  HandoffServed
  DisplacedStops
