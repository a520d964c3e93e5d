\* gRPC clients wait for pending starts.
SPECIFICATION MCSpec
CONSTRAINT FewAttempts FewRequests
CONSTANTS
  a = a
  b = b
  x = x
  c1 = c1
  c2 = c2
  None = None
  Names <- MCNames
  ConfigProbes <- MCConfigProbes
  RunHere <- MCRunHere
  Callers <- MCCallers
  MaxGen = 3
  MaxStarts = 1
  PatientClients = TRUE
  Configs <- MCConfigs
  MaxAttempts = 3
  Unset = Unset
  Malformed = Malformed
  Refused = Refused
  DfProbes <- MCDfProbes
  DfLabels <- MCDfLabels
  DfTargets <- MCDfTargets
  IntWidth = 5
  DfIPs = {"", "ip"}
  MaxUpdates = 2
  TkCallers = {q1, q2}
  TkSources = {"none", "file", "http", "k8s"}
  ExpiryBuffer = 1
  TTLs = {2}
  NoToken = NoToken
  TkMaxClock = 2
  MaxFetches = 2
  VdUnset = VdUnset
  NotJSON = NotJSON
  MinRead = 2
  RqBodies = {0, 2, 3}
  RqValidators <- MCValidators
  RqResponses <- MCResponses
  RqTargets <- MCRqTargets
  RqConfs <- MCRqConfs
  RqNone = RqNone
  MaxBatches = 2
  NegInf <- MCNegInf
  Bad = Bad
  CvEMs <- MCCvEMs
  CvConfs <- MCCvConfs
  CvInvalid = {"1", "/"}
  CvNumbers <- MCCvNumbers
  CvMax = 2
  NoRegex = NoRegex
  CvNull = CvNull
  LogComponents = {"global", "a b"}
  LogEnvs <- MCEnvs
  LogPayloads <- MCPayloads
  MaxLogEntrySize = 4
  TruncateMsgLen = 2
  MaxMessages = 3
  NilLogger = NilLogger
  Flags <- MCFlags
  Platforms = {"none", "gce", "gke", "job", "service", "ec2"}
  Metadata <- MCMetadata
  Outages <- MCOutages
  Attributes <- MCAttributes
  Disks <- MCDisks
  TestVars <- MCTestVars
  BuiltIn <- MCBuiltIn
  MaxInits = 2
  Unreadable = Unreadable
  NotDefined = NotDefined
  Failed = Failed
  NoVars = NoVars
  timeBytesSize = 3
  WordBytes = 2
  PingConfs <- MCPingConfs
  RunIDs16 = {65535, 4660}
  PingTimes = {0, 16000000}
  Fds = {3, 4, 5}
  SocketConfs <- MCSocketConfs
  NoSource = NoSource
  FirstSeqs = {0, 65533}
  Senders = {s1, s2}
  MaxMsgs = 4
  Replies <- MCReplies
  Chatter <- MCChatter
  MaxPrints = 3
  ExtValues <- MCExtValues
  ExtTargets <- MCExtTargets
INVARIANTS
  NoPanic
  RemovedProbeIsStopped
  
  ProbesAsDefined
  RequestsIntact
  
  
  RunsAsTold
  
SYMMETRY CallerSymmetry
CHECK_DEADLOCK FALSE
