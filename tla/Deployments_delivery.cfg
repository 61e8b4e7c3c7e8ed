SPECIFICATION Spec
CONSTANTS
  Device = {d1}
  Package = {p1}
  Deployment = {r1}
  Job = {j1}
  Checkin = {q1, q2}
  Admin = {a1}
  Legacy = {d1}
  None = None
  AdminOps = {"edit", "deploy", "cancel", "cancelAll", "cancelJob", "delete", "retry", "retryBulk"}
  Approvers = {a1}
  Deployers = {a1}
  Frozen = {}
  MaxContent = 1
  MaxClaims = 2
  MaxFaults = 1
  BatchLimit = 1
  MaxFollowUp = 1
INVARIANTS RunningIsAccountedFor
PROPERTIES ClaimedOnce
SYMMETRY CheckinSymmetry
CHECK_DEADLOCK FALSE
