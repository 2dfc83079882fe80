CONSTANTS
  n1 = n1
  n2 = n2
  c1 = c1
  c2 = c2
  Msg = {n1, n2, c1, c2}
  Kind <- KindOf
  Bucket <- BucketOf
  Solo = {}
  Hidden = {c1}
  Urgent = {n1}
  NoTurn = NoTurn
SPECIFICATION FairSpec
INVARIANTS
  TypeOK
  OneTurn
  CallersAccounted
  OneVoice
  StaysQuiet
PROPERTIES
  ImplementsOrder
  SenderAnswered
CHECK_DEADLOCK FALSE
