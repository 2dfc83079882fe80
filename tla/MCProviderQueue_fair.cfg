CONSTANTS
  p1 = p1
  p2 = p2
  p3 = p3
  b1 = b1
  a1 = a1
  Turn = {p1, p2, p3, a1}
  LaneOf <- LaneOfTurn
  Session <- SessionOf
  Gezel <- GezelOf
  Affine = {p1, p2, p3, a1}
  Ambient = {a1}
  Person = {p1, p2, p3}
  Chore = {a1}
  Concurrency = 2
  InteractiveCap = 1
  BackgroundCap = 1
  EngineOverflow = FALSE
  MaxWait = 1
  AffinityWindow = 0
  QuietWindow = 1
  YieldQuantum = 1
  YieldMinWait = 1
  Relaunch <- NoRelaunch
SPECIFICATION FairSpec
PROPERTIES
  InteractiveServed
  AmbientWakes
