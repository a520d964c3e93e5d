SPECIFICATION MCSpec
CONSTRAINT FewTargets
CONSTANTS
  t1 = t1
  t2 = t2
  a1 = a1
  a2 = a2
  None = None
  NoAddr = NoAddr
  Targets <- MCTargets
  Addrs <- MCAddrs
  Kinds <- CountingKinds
  Pairs <- TwoTargets
  Once <- ListedOnce
  MaxChanges = 2
  NumTxPorts = 2
  UseAllTxPorts = FALSE
  ByPort = FALSE
  UDPTimeout = 2
  Usec = 2
  PacketChanLen = 1
  MaxTargets = 1
  MaxUDPRuns = 2
  MaxClock = 3
  EchoMode = FALSE
  EchoCap = 1
  MinResultsChLen = 1
  DelayedThreshold = 2
  MaxSends = 3
  MaxRepeats = 1
  MaxIncarnations = 2
  MaxDNSRuns = 2
  PipeCap = 1
  MaxExtRuns = 2
  MaxProcs = 2
  RunIDs = 2
  SeqPerRun = 2
  PacketsPerProbe = 1
  ResolveInterval = 1
  MaxPingRuns = 3
  NumConns = 1
  MaxAttempts = 1
  statsExportFrequency = 1
  ChanCap = 1
  RequestsPerProbe = 2
  ResolveFirst = FALSE
  Https = TRUE
  MaxRuns = 2
  AlertFailures = 2
  AlertTotal = 3
  RepeatInterval = 1
  Commands = {"none", "words", "blank"}
  MaxSamples = 4
  MaxExports = 4
  UdpBatch = 2
  UdpMaxSize = 2
  UdpSizes = {0, 1, 3}
  MaxPackets = 2
  MaxWriteErrs = 1
  HttpPaths <- MCPaths
  MaxReqs = 1
  HttpChanCap = 2
INVARIANTS
  UDPNotOvercounted
  ListenerLossAccurate
  ExtOneResult
  
  PingCountsOwnRun
  GRPCTargetsProbed
  AlertedWhenFailing
PROPERTY
  HTTPImplementsScheduler
CHECK_DEADLOCK FALSE
