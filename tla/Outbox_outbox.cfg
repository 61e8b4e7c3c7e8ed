SPECIFICATION FairSpec
CONSTANTS
  Message = {1, 2}
  NoRecipient = {1}
  Instance = {i1, i2}
  Request = {q1, q2}
  None = None
  Batch = 2
  MaxAttempts = 2
  MaxRetries = 1
  MaxFaults = 2
INVARIANTS TypeOK SentOnce ShownIsTrue
PROPERTIES LeavesTheOutbox
CHECK_DEADLOCK FALSE
