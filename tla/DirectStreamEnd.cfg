SPECIFICATION Spec
CONSTANTS
  Requests = {r1, r2}
  Watchers = {w1}
  NoSession = NoSession
  MaxSessions = 1
  Workers = 1
  MaxSteps = 0
INVARIANT StreamShowsTheEnd
CHECK_DEADLOCK FALSE
