SPECIFICATION FairSpec
CONSTANTS
  Streams = {c1, c2}
  Watched = c1
  MaxClock = 1
  MaxLog = 1
  MaxFaults = 1
PROPERTIES StreamCloses EventsArrive
CHECK_DEADLOCK FALSE
