SPECIFICATION FairSpec
CONSTANTS
  All = All
  Files = {f1}
  Callers = {c1, c2}
  CheckModTime = TRUE
  TicksPerSec = 2
  MaxEdits = 2
  MaxTime = 5
PROPERTY StoredIsFetched EditIsLoaded
CHECK_DEADLOCK FALSE
