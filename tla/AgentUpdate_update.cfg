SPECIFICATION FairSpec
CONSTANTS
  Version = {1, 2, 3, 4}
  First = 1
  Mute = {2, 3}
  None = None
  MaxFailed = 2
  MaxFaults = 3
INVARIANTS TypeOK BackupWorked UnprovenIsWatched NoFalseTamper
PROPERTIES NoUpdateLoop MuteIsLeft PublishedIsInstalled
CHECK_DEADLOCK FALSE
