SPECIFICATION Spec
CONSTANTS
  Password = {0, 1, 2, 3, 4, 5, 6, 7}
  None = None
  MaxFaults = 3
INVARIANTS RestoresWhatIsInPlace
CHECK_DEADLOCK FALSE
