SPECIFICATION Spec
CONSTANTS
  Streams = {c1, c2}
  Watched = c1
  MaxClock = 2
  MaxLog = 1
  MaxFaults = 1
INVARIANT EndsWithItsRun
CHECK_DEADLOCK FALSE
