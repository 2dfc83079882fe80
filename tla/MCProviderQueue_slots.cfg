CONSTANTS
  p1 = p1
  p2 = p2
  p3 = p3
  b1 = b1
  a1 = a1
  Turn = {p1, p2, b1, a1}
  LaneOf <- LaneOfTurn
  Session <- SessionOf
  Gezel <- GezelOf
  Affine = {p1, p2, b1, a1}
  Ambient = {a1}
  Person = {p1, p2}
  Chore = {b1, a1}
  Concurrency = 3
  InteractiveCap = 2
  BackgroundCap = 2
  EngineOverflow = TRUE
  MaxWait = 1
  AffinityWindow = 1
  QuietWindow = 1
  YieldQuantum = 0
  YieldMinWait = 1
  Relaunch <- Relaunches
SPECIFICATION Spec
INVARIANTS
  TypeOK
  SlotsAgree
  NoIdleSlot
PROPERTIES
  StartsWithinCaps
  AmbientKeepsHeadroom
  StarvedFirst
