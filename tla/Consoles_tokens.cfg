SPECIFICATION FairSpec
CONSTANTS
  Device = {d1, d2}
  Token = {t1}
  Conn = {c1, c2}
  Session = {}
  None = None
  MaxFaults = 1
PROPERTIES InvalidIsEvicted
CHECK_DEADLOCK FALSE
