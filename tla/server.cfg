SPECIFICATION ServerSpec
CONSTANTS
  Writer = {"w1", "w2"}
  Reader = {"r"}
  Project = {"p", "q"}
  Follows <- FollowsDef
  PageLimit = 2
  MaxEvent = 3
  TenantRequest = {"r1", "r2"}
  Background = {"bg"}
  Tenant = {"acme", "default"}
  DefaultTenant = "default"
  TenantOf <- TenantOfDef
  MaxAudit = 5
  MaxTampers = 1
  Server = {"s1", "s2"}
  Caller = {"c"}
  Limited = {"gc"}
  MaxRequests <- MaxRequestsDef
  WINDOW_SECONDS = 3
  PRUNE_INTERVAL = 1
  MaxHits = 4
  MaxTime = 5
  User = {"u"}
  ApiToken = {"t"}
  Session = {"s"}
  Resolver = {"q"}
  AUTH_CACHE_TTL = 1
  AUTH_CACHE_MAX_ENTRIES = 1
  SESSION_TTL = 1
  LATENCY = 1
  MaxChanges = 2
  Replica = {"old", "new1", "new2"}
  BuildHead <- HeadDef
  MaxLosses = 1
  MaxCrashes = 2
  Agent = {"a1", "a2"}
  Scenario <- ScenarioDef
  Consumer = {"c1", "c2"}
  Dim = {"compute", "steps"}
  NoLimit = NoLimit
  Spend <- SpendDef
  Limit <- LimitDef
  MaxCalls = 4
  Commit = {"c1", "c2", "c3"}
  Rank <- RankDef
  Metric <- MetricDef
  PageSize = 2
  Patience = 2
  Factor = 1
  MaxClock = 2
  Job = {"l", "d", "k", "s"}
  Command = {"c1", "c2"}
  DriverOf <- DriverDef
  Wants <- WantsDef
  Grant = {"rw"}
  ActionLog <- ActionLogDef
  MaxCommands = 3
  Suite = {"s1"}
  Definition = {"d1", "d2"}
  Client = {"c1", "c2"}
  MaxScores = 2
  Instance = {"i1", "i2"}
  Host = {"h1"}
  Identity = {"u1"}
  AUTH_SPIKE_THRESHOLD = 2
  AUTH_SPIKE_WINDOW = 2
  AUTH_FAILURE_PRUNE_EVERY = 3
  AUTH_FAILURE_MAX_KEYS = 1
  MaxFailures = 3
  MaxMoment = 3
INVARIANTS CursorContract LimitKept ChainTells AlarmsAreBursts CacheIsRecent
           ServesItsSchema OnlyApprovedLands WalkIsComplete
           ImprovingIsNotStopped RowIsBorneOut BlindScoresStayHidden
PROPERTY LedgerKept
CHECK_DEADLOCK FALSE
