SPECIFICATION Spec
CONSTANTS
  Tools = {bash}
  Reviewers = {r1, r2}
  MaxApprovals = 3
  MaxIterations = 3
  MaxAttempts = 2
  MaxBlocks = 2
  MaxUses = 3
  MaxFaults = 1
SYMMETRY ModelSymmetry
INVARIANTS AnswersReachTheirRequest EventsTellTheSession SettledStatus DecisionsOverlap
PROPERTIES ImplementsGate
