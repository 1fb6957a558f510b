SPECIFICATION PlaneSpec
CONSTANTS
  Parts = {"bans", "rate", "admin", "api", "pipeline", "tokens", "control", "injector"}
  BanNodes = {n1, n2}
  BanGates = {n1}
  StrikeDecay = 1
  LiftEpochTTL = 1
  Durations <- MCDurations
  AddDurations = {0}
  BansMaxTime = 2
  BansMaxSent = 1
  BansMaxStrikes = 4
  RateNodes = {n1, n2}
  RateConfigs <- MCRateConfigs
  TTLFactor = 2
  RateMaxTime = 4
  RateMaxHits = 3
  Principals <- MCPrincipals
  Role <- MCRole
  ApprovalTTL = 1
  Boots <- MCBoots
  Bodies <- MCBodies
  LooseTTL = 2
  IntegrityTTL = 1
  AdminMaxTime = 2
  MaxChanges = 3
  MaxInFlight = 2
  MaxRestarts = 1
  ApiMaxTime = 3
  ApiMaxActions = 1
  RawPaths <- MCRawPaths
  RouteTable <- MCRoutes
  MaxFlips = 2
  s1 = s1
  s2 = s2
  SidFields = {s1, s2}
  Sids <- MCSids
  Binds = {b1, b2}
  NoSid = NoSid
  EpochWindow = 1
  TokenTTL = 2
  ReceiptTTL = 0
  ReceiptSkew = 1
  TokMaxTime = 2
  MaxBumps = 1
  MaxMinted = 1
  MaxReceipts = 1
  CpVerdict <- MCVerdict
  CpHandlers = {n1, n2}
  CpClients = {"person", "tool"}
  CpNets = {"plain", "odd"}
  CpResiduals = {"hop"}
  CpPolicies = {"default", "tuned"}
  CpFields = {"Policy", "RuleModes"}
  NoReport = "none"
  CpMaxBeacons = 2
  InjPages <- MCInjPages
  maxLookahead = 8
  InjChunk = 3
  InjRead = 4
INVARIANTS
  NoResurrection LadderEnds CountIsWindow Governed BansGoverned OriginEarned SpellingIrrelevant
   OneGraceBucket ScoresBelong InjectionChunkingBlind
CHECK_DEADLOCK FALSE
