CONSTANTS
  d1 = d1
  d2 = d2
  d3 = d3
  here = here
  there = there
  NoFile = NoFile
  Nobody = Nobody
  Daemon = {d1, d2}
  Space = {here, there}
  Ticks = {here}
  Attempts = 3
SPECIFICATION Spec
INVARIANTS
  SingleDaemon
CHECK_DEADLOCK FALSE
