SPECIFICATION Spec
CONSTANTS
  Urls = {u1, u2, u3}
  Jobs = {j1, j2}
  Sizes = {4}
  Budget = 3
  Share = 67
  Slots = 1
  ConvertAfter = 1
  ReleaseIdle = 1
  MaxDecode = 1
  MaxEpoch = 1
  Flaky = {u3}
  Busy = {u1, u3}
  Off = Off
  Endpoints = {e1}
  MaxMissingCycles = 1
  DeadAfter = 2
  MaxWork = 3
  MaxTotal = 4
  NotSeen = NotSeen
  SeriesPools = {p, q}
  SeriesLabels = {l}
  Retention = 2
  MaxRequests = 1
  MaxObjects = 2
  Nil = Nil
  Calls = {c1, c2}
  Paths <- SomePaths
  DialectPaths <- SomeDialect
  Allowlists <- SomeAllow
  MaxConcurrent = 1
  RuleTables <- SomeTables
  PoolOf <- SomePools
  Listed <- SomeLists
  Models = {"gpt", "llama", "other"}
  AutoAttempts = 2
  Untouched = Untouched
  Contents <- SomeContents
  ChunkWords = 2
  Served <- SomeServed
  Caps <- SomeCaps
  Owners = {o1, o2}
  NoChain = NoChain
  MaxConcurrency = 1
  RejectTokens = 1
  Reply <- SomeReply
  Filler = "-"
  Submitters = {s1, s2}
  Works = {0, 1, 2}
  Grain = 2
  MaxClock = 4
  NoWake = NoWake
  Callers = {g1, g2, g3}
  SeriesNums = {n1, n2}
  Endpoint <- TwoEndpoints
  Bare = {1}
  MustKnow = FALSE
  NotRun = NotRun
  NoHome = NoHome
  ChatModels <- SomeModels
  AskedTokens = {0}
  UserContents <- SomeTalk
  Prompts <- SomePrompts
  ToolIds = {"k1"}
  Streams <- SomeStreams
  MaxHistory = 5
  NoState = NoState
INVARIANTS SplitSound NothingTwice GatewaySound
           RoutesKept TrieExact EngineSound SharesExact EndpointsSound ChatSound
PROPERTY CountKept
CHECK_DEADLOCK FALSE
