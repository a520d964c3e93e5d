\* Clients call AddProbe and RemoveProbe at any time.  The run_on of x excludes this host.
SPECIFICATION FairSpec
CONSTANTS
  None = None
  Names = {a, x}
  ConfigProbes = {a, x}
  RunHere = {a}
  Callers = {c1, c2}
  MaxGen = 2
  MaxStarts = 1
  PatientClients = FALSE
PROPERTY EveryProbeStarts
CHECK_DEADLOCK FALSE
