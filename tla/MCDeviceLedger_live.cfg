CONSTANTS
  h1 = h1
  h2 = h2
  e1 = e1
  s1 = s1
  s2 = s2
  s3 = s3
  NoPid = NoPid
  Pid = {h1, e1}
  Home = {h1}
  Engine = {s1, s2}
  Owner <- LOwner
  Executor <- LOwner
  Bytes <- LBytes
  GpuBytes <- LGpuBytes
  Exclusive <- LExclusive
  Priorities <- LPriorities
  Samples <- LSamples
  Discrete = TRUE
  Serialize = FALSE
  MaxBypasses = 1
  ShortPolls = 1
  Births = 2
  Uncertain = {}
  InFlight = 1
  Crashable = {}
SPECIFICATION FairSpec
PROPERTIES
  RequestSettles
