CONSTANTS
  h1 = h1
  h2 = h2
  e1 = e1
  s1 = s1
  s2 = s2
  s3 = s3
  NoPid = NoPid
  Pid = {h1, h2, e1}
  Home = {h1, h2}
  Engine = {s1, s2, s3}
  Owner <- QOwner
  Executor <- QOwner
  Bytes <- QBytes
  GpuBytes <- QGpuBytes
  Exclusive <- QExclusive
  Priorities <- QPriorities
  Samples <- QSamples
  Discrete = FALSE
  Serialize = TRUE
  MaxBypasses = 1
  ShortPolls = 1
  Births = 1
  Uncertain = {}
  InFlight = 1
  Crashable = {}
SPECIFICATION Spec
INVARIANTS
  TypeOK
  GpuExclusive
  OneGpuLoad
  BypassBound
PROPERTIES
  GrantsFit
