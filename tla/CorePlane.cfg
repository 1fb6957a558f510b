SPECIFICATION CoreSpec
CONSTANTS
  Parts = {"scoring", "session", "pass", "merkle", "canary", "singleuse", "traffic", "correlation", "feed"}
  ScoringInputs <- MCInputs
  ScoringConfigs <- MCConfigs
  SeHandlers = {h1, h2}
  SeScores <- MCScores
  SePoint <- Point
  SeObservations <- MCObservations
  SeTTL = 2
  SeMaxTime = 3
  SeMaxReq = 3
  SeLastBy = 0
  NoClient = "none"
  PaHandlers = {h1, h2}
  PaTraces = {t1, t2}
  PassMaxTries = 2
  PaMaxAge = 0
  PaSessionTTL = 1
  PaTraceTTL = 0
  PaMaxTraces = 2
  PaMaxTime = 2
  PaMaxMinted = 2
  PaMaxReq = 3
  Nonces = {h1, h2}
  NoNonce = NoNonce
  NonceTTL = 2
  NonceMax = 1
  SigSkew = 1
  SigCreated = {0, 2}
  SigExpires = {0, 3}
  SuCounters = {0, 1, 2}
  MaxLate = 1
  SuMaxTime = 4
  MaxCallers = 2
  MkRecords = {0, 1}
  MkMaxSize = 5
  MkProvedSize = 4
  MkProofLen = 3
  MlFeeds = {h1, h2}
  MlBundles <- MCBundles
  MlSetups <- MCSetups
  ThetaTop = 1
  ThetaUp = 1
  ThetaDown = 1
  MinCanaryObserve = 1
  ProbationHumans = 2
  FeatureWindow = 1
  MlMaxHumans = 2
  MlMaxDeploys = 1
  TlHandlers = {h1, h2}
  TlRequests <- MCTraffic
  NoSid = ""
  MaxPerSession = 2
  TlTTL = 0
  TlMaxTime = 1
  TlMaxReq = 3
  CoNodes = {h1, h2}
  CoVisitors <- MCPool
  SubnetsForRotation = 3
  SessionsForShared = 2
  VelWindow = 1
  VelFloor = 2
  VelRingCap = 2
  MadWindow = 2
  MadK = 1
  MadWarmup = 1
  MadFloor = 1
  CoTTL = 2
  CoMaxLate = 1
  CoMaxTime = 3
  CoCallers = 2
  CoMaxObs = 3
  LfClients = {c1}
  RingCap = 2
  SubBuf = 1
  LfMaxEvents = 6
  LfMaxConns = 3
SYMMETRY CoreSymmetry
INVARIANTS
  TraceAgrees PrivacyNeverAccuses TokensNotReplayed EvidenceKept ChallengeHonoured GrantsEarned AttemptsBounded
  InclusionDecides ConsistencyDecides ProbationHolds HonouredOnce RotationObserved FanoutReal FeedAccounted
CHECK_DEADLOCK FALSE
