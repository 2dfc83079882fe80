CONSTANTS
  h1 = h1
  h2 = h2
  e1 = e1
  s1 = s1
  s2 = s2
  s3 = s3
  NoPid = NoPid
  Pid = {h1, h2, e1}
  Home = {h1, h2}
  Engine = {s1, s2}
  Owner <- WOwner
  Executor <- BExecutor
  Bytes <- PBytes
  GpuBytes <- PBytes
  Exclusive <- PExclusive
  Priorities <- PPriorities
  Samples <- PSamples
  Discrete = FALSE
  Serialize = FALSE
  MaxBypasses = 1
  ShortPolls = 1
  Births = 2
  Uncertain = {e1}
  InFlight = 2
  Crashable = {h1}
SPECIFICATION Spec
INVARIANTS
  LiveEngineReserved
CHECK_DEADLOCK FALSE
