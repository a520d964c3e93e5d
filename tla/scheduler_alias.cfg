SPECIFICATION Spec
CONSTANTS
  None = None
  Targets = {k1, k2}
  statsExportFrequency = 1
  ChanCap = 1
  MaxChanges = 1
  MaxSuccesses = 1
  MaxRuns = 2
INVARIANT ExportedWhenIdle
CHECK_DEADLOCK FALSE
