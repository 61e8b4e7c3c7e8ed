SPECIFICATION FairSpec
CONSTANTS
  Device = {d1}
  Token = {t1}
  Conn = {c1, c2}
  Session = {s1}
  None = None
  MaxFaults = 1
PROPERTIES HeldIsServed ShellEndsWithSession
CHECK_DEADLOCK FALSE
