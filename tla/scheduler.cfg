SPECIFICATION FairSpec
CONSTANTS
  None = None
  Targets = {k1}
  statsExportFrequency = 2
  ChanCap = 1
  MaxChanges = 3
  MaxSuccesses = 1
  MaxRuns = 2
PROPERTY ShutdownCompletes ListedTargetIsSurfaced
CHECK_DEADLOCK FALSE
