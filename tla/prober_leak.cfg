\* Clients call AddProbe and RemoveProbe at any time.  The run_on of x excludes this host.
SPECIFICATION Spec
CONSTANTS
  None = None
  Names = {a, x}
  ConfigProbes = {a, x}
  RunHere = {a}
  Callers = {c1, c2}
  MaxGen = 3
  MaxStarts = 1
  PatientClients = FALSE
INVARIANT RemovedProbeIsStopped
CHECK_DEADLOCK FALSE
