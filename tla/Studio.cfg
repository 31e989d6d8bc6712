SPECIFICATION StudioSpec
CONSTANTS
  MaxMessages = 2
  MaxStimuli = 2
  IdleTicks = 1
  a1 = a1
  a2 = a2
  t1 = t1
  t2 = t2
  Approvals = {a1, a2}
  Tenants = {t1, t2}
  TenantOf <- MCTenantOf
  InChat = {a1}
  Polls = {p1, p2}
  MaxClicks = 2
INVARIANTS AtMostTwoSessions WaitsForAConnection PageMatchesCache ShownDecisionWasTaken
PROPERTIES InputComesBack PanelCatchesUp
CHECK_DEADLOCK FALSE
