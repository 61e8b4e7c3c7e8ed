SPECIFICATION Spec
CONSTANTS
  Device = {d1}
  Token = {t1}
  Conn = {c1, c2}
  Session = {s1, s2}
  None = None
  MaxFaults = 0
INVARIANTS TypeOK HolderIsReachable ShellHasSession OpenRowHasSession
SYMMETRY SafetySymmetry
CHECK_DEADLOCK FALSE
