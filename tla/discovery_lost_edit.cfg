SPECIFICATION FairSpec
CONSTANTS
  All = All
  Files = {f1}
  Callers = {c1}
  CheckModTime = TRUE
  TicksPerSec = 2
  MaxEdits = 2
  MaxTime = 5
PROPERTY EditIsReloaded
CHECK_DEADLOCK FALSE
