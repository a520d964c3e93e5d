SPECIFICATION MCSpec
CONSTANTS
  LineQueueCap = 2
  BatchLines = 2
  MaxWrites = 4
  BatchQueueCap = 3
  BatchSize = 2
  MaxEMs = 4
  Keys = {k1, k2}
  PromCap = 1
  Expiration = 2
  MaxTime = 5
  MaxRecords = 3
  MaxQueries = 1
  d1 = d1
  d2 = d2
  d3 = d3
  d4 = d4
  Dsts <- MCDsts
  RingSize = 3
  Res = 2
  BaseDurations = {2, 4, 9}
  StatusData <- MCData5
  NoParam = NoParam
  GraphQueries <- MCQueries
  GraphLimits <- MCGraphLimits
  GraphSteps <- MCGraphSteps
  DropAfter = 4
  CacheTime = 1
  MaxDsts = 3
  MaxClock = 12
  MaxPoints <- MCPoints
  Labels <- MCLabels
  Filters <- MCFilters
  MaxProbes = 2
  MaxEvents = 3
  Deltas = {1, 2}
  MaxAdds = 5
  Callers = {c1, c2}
  MaxVersions = 3
  MaxLookups = 3
  Scopes = {z1, z2}
  Cluster = Cluster
  MaxVersion = 3
  MaxExpands = 3
  Parts <- AllParts
  NegInf <- MCNegInf
  Bad = Bad
  PayTargets = {t1, t2}
  PayLines <- MCPayLines
  DistMetrics <- MCDistMetrics
  MaxLines = 3
  TgtNames = {n1}
  MinLameduck = 1
  LdExpiration = 2
  MsgMaxAge = 2
  TgtMaxClock = 4
  MaxLameducks = 2
  NoFilter = NoFilter
  NoIP = NoIP
  Null = Null
  BadIP = BadIP
  Error = Error
  LgObjects <- MCLgObjects
  LgRequests <- MCLgRequests
  MaxLists = 2
  Defs <- MCDefs
  CtScopes <- MCScopes
  LocalProject = "p1"
  VMs = {"x"}
  SrvHosts <- MCHosts
  MaxTgts = 2
  MaxCloud = 1
INVARIANTS
  LinesKept
  
  PromKeysInStep
  AgoIsRight
  GaugesAddUp
  PayloadAddsUp
  ServersShared
PROPERTIES
  ResolverForward
  ScopesKept
  LameduckHolds
  
CHECK_DEADLOCK FALSE
