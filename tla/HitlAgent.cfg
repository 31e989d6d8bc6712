SPECIFICATION FairSpec
CONSTANTS
  Tools = {bash, http}
  Reviewers = {r1}
  MaxApprovals = 2
  MaxIterations = 3
  MaxAttempts = 2
  MaxBlocks = 2
  MaxUses = 2
  MaxFaults = 2
INVARIANTS RunsAreGranted RunsBounded
PROPERTIES SessionCloses GrantIsUsed
