SPECIFICATION Spec
CONSTANTS
  Tools = {bash}
  Reviewers = {r1}
  MaxApprovals = 2
  MaxIterations = 3
  MaxAttempts = 2
  MaxBlocks = 2
  MaxUses = 2
  MaxFaults = 0
PROPERTIES TimeoutMeansUnreviewed
