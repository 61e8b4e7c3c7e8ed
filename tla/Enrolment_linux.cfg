SPECIFICATION Spec
CONSTANTS
  Key = {k1, k2}
  Row = {r1, r2}
  Token = {t1, t2}
  Serial = {s1}
  None = None
  PendingCap = 1
  Request = {q1}
SYMMETRY Symmetry
INVARIANTS KeysMatchRows QueueIsCapped
PROPERTIES RefusedStaysOut NoAgentAfterConversion
CHECK_DEADLOCK FALSE
