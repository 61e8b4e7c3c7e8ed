SPECIFICATION FairSpec
CONSTANTS
  Device = {d1}
  Package = {p1, p2}
  Deployment = {r1, r2}
  Job = {}
  Checkin = {q1}
  Admin = {a1, a2}
  Legacy = {}
  None = None
  AdminOps = {"edit", "deploy"}
  Approvers = {a1}
  Deployers = {a2}
  Frozen = {p2}
  MaxContent = 2
  MaxClaims = 2
  MaxFaults = 0
  BatchLimit = 1
  MaxFollowUp = 1
PROPERTIES PendingIsClaimed RunningEndsUnlessLost
CHECK_DEADLOCK FALSE
