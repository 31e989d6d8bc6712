SPECIFICATION Spec
CONSTANTS
  Requests = {r1, r2, r3}
  Watchers = {}
  NoSession = NoSession
  MaxSessions = 1
  Workers = 1
  MaxSteps = 1
SYMMETRY ModelSymmetry
INVARIANTS TableBounded ChatSeesItsEnd MessageReachesItsAgent
CHECK_DEADLOCK FALSE
