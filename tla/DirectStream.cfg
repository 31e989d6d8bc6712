SPECIFICATION FairSpec
CONSTANTS
  Requests = {r1, r2}
  Watchers = {w1}
  NoSession = NoSession
  MaxSessions = 1
  Workers = 1
  MaxSteps = 0
INVARIANTS StreamHasNoGaps
PROPERTIES RequestAnswered StreamEnds
CHECK_DEADLOCK FALSE
