SPECIFICATION FairSpec
CONSTANTS
  Mail = {1, 2, 3, 4}
  Excluded = {3}
  None = None
  PageSize = 2
  MaxPages = 2
  SkipLimits = {1, 2}
  MaxAttempts = 3
  MaxAbsent = 1
  MaxPoison = 1
  MaxFaults = 1
INVARIANTS NoneLost AbandonedOftenFailed
PROPERTIES IsIngested
