CONSTANTS
  llm = llm
  image = image
  m1 = m1
  m2 = m2
  sd = sd
  turn = turn
  turn2 = turn2
  draw = draw
  NoSlot = NoSlot
  NoJob = NoJob
  Slot = {llm, image}
  Engine = {m1, m2, sd}
  Job = {turn, turn2, draw}
  Leasing = {turn, turn2, draw}
  Asking = {turn, turn2}
  SlotOf <- Engines
  EngineOf <- Users
  Pooled = {m2}
  Flips = 1
  Churn = 1
  Leaks = 1
SPECIFICATION FairSpec
INVARIANTS
  TypeOK
PROPERTIES
  LeaseKept
  LeaseProtects
  Served
CHECK_DEADLOCK FALSE
