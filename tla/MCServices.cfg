\* One instance of each part; a behaviour follows one.
CONSTANTS
  c1 = c1
  c2 = c2
  c3 = c3
  d1 = d1
  d2 = d2
  d3 = d3
  d4 = d4
  e1 = e1
  e2 = e2
  h1 = h1
  h2 = h2
  k1 = k1
  k2 = k2
  l1 = l1
  l2 = l2
  m1 = m1
  m2 = m2
  o1 = o1
  o2 = o2
  r1 = r1
  r2 = r2
  u1 = u1
  u2 = u2
  u3 = u3
  w1 = w1
  w2 = w2
  x1 = x1
  x2 = x2
  email = email
  topics = topics
  Calls = {c1, c2, c3}
  Threshold = 2
  Items = {d1, d2, d3, d4}
  MaxSize = 2
  MaxConcurrent = 2
  Loads = {1, 2, 3}
  Projects = {1, 2}
  ProjectOf <- LoadsProject
  MaxBatch = 2
  Processes = {1, 2}
  Requests = {1, 2, 3}
  RequestOf <- AskedAt
  Limits = {2, 11}
  WindowTicks = 2
  LastWindow = 1
  MaxOutages = 1
  Messages = {u1, u2, u3}
  UserLimit = 2
  Span = 2
  LastTime = 3
  MaxPassed = 4
  Lookups = {l1, l2}
  MaxVersion = 2
  Clients = {k1, k2}
  MaxOutcomes = 2
  MaxRetries = 3
  Handlers = {h1, h2}
  MaxCopies = 2
  MaxAttempts = 2
  MaxDeferrals = 1
  MaxDeliveries = 2
  MaxFaults = 1
  Addresses = {1, 2}
  Chunks = 2
  ChunkOf <- ChunkOfEach
  Engines = {e1, e2}
  MaxFanFaults = 2
  Callers = {r1, r2}
  Attributes = {language}
  Defaulted = {language}
  Preferences = {topics}
  CacheNames = {"own", "contacts"}
  MaxWrites = 2
  Consumers = {w1, w2}
  Prompts = 3
  MaxPrompts = 2
  Timeout = 2
  Margin = 2
  MaxRuns = 4
  Letters = {x1, x2}
  Operators = {o1, o2}
  ReplayStreams = {"inbound", "outbound"}
  FailedOn <- FailedOnEach
  InboundOf <- InboundOfEach
  MaxReplays = 2
  Bodies <- TargetLists
  Inline = {"a"}
  ChunkSize = 2
  MaxPosts = 2
  Keys = {1, 2, 3, 4}
  Things = {1, 2, 3}
  PageSize = 1
  BatchSize = 2
  MaxRounds = 2
  MaxChanges = 1
  Events = {1}
  StatusOf <- Complained
  Mails = {1}
  CacheTicks = 1
  LastTick = 2
  MaxTimeouts = 1
  DayLength = 5
  Zones <- SomeZones
  ClockChange = 15
  Shifts <- SomeShifts
  Asked = {11, 14, 15}
  MaxWindows = 2
  MaxChain = 10
  ApiKeys = {"k1", "k2"}
  ReadOnlyKeys = {"k1"}
  CacheSize = 1
  HashLimit = 1
  LoginLimit = 1
  MaxLookups = 1
  Apis = {1, 2}
  Tabs = {3, 4}
  MaxSessions = 2
  MaxReloads = 1
  ServiceSets <- SomeServices
  MaxStarts = 1
  MaxJobs = 2
  Texts <- SomeTexts
  MaxText = 3
  MaxSends = 3
  Schemas = {"public", "a"}
  Migrators = {m1, m2}
  Steps = 3
  BuildsOn <- StepsBelow
  Creating = {1, 3}
  Repeatable = {3}
  OddOnes = {3}
  MaxMigrations = 3
SPECIFICATION ServicesSpec
INVARIANT ServicesTypeOK
INVARIANT NotLost
INVARIANT LimitsHold
INVARIANT FreshAfterInvalidate
INVARIANT StreamsAreFed
INVARIANT EveryAddressOnce
INVARIANT WritesAreKept
INVARIANT PaidAndAccounted
INVARIANT EnteredOnce
INVARIANT EachEntryOnce
INVARIANT SentInDueTime
INVARIANT AccessHolds
INVARIANT OperationsHold
INVARIANT AnswersJudged
PROPERTY Promised
PROPERTY PrimitivesHold
PROPERTY OptOutHeeded
CHECK_DEADLOCK FALSE
