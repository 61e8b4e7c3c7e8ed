SPECIFICATION Spec
CONSTANTS
  Device = {d1}
  Package = {p1}
  Deployment = {r1}
  Job = {j1}
  Checkin = {q1}
  Admin = {a1, a2}
  Legacy = {}
  None = None
  AdminOps = {"edit", "deploy", "cancel", "retryBulk"}
  Approvers = {a1, a2}
  Deployers = {a1, a2}
  Frozen = {}
  MaxContent = 2
  MaxClaims = 2
  MaxFaults = 1
  BatchLimit = 1
  MaxFollowUp = 1
INVARIANTS TypeOK NoStaleSnapshot OnlyApprovedRuns OutcomeIsTheAttempts
PROPERTIES ClaimsWhatIsApproved KeepsTheLedger
SYMMETRY AdminSymmetry
CHECK_DEADLOCK FALSE
