SPECIFICATION FairSpec
CONSTANTS
  Password = {0, 1, 2, 3, 4, 5, 6, 7}
  None = None
  MaxFaults = 5
INVARIANTS TypeOK SettledIsAligned PreparedIsNotApplied
PROPERTIES AppliesWhatIsEscrowed Realigns
CHECK_DEADLOCK FALSE
