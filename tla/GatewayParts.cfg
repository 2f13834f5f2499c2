SPECIFICATION PartsSpec
CONSTANTS
    Parts = {"collection", "audit", "tables", "upgrade", "usage", "accounts", "policy", "lifetime",
             "anchors", "benchmark", "cache", "profiles"}

    Collections = {"f1", "f2", "f3"}
    CollectionSlots = 1
    MaxPages = 2
    MaxRetries = 1
    MaxRecords = 4
    CollectionDeadline = 2
    PageAnswers <- MCPageAnswers
    RetryDelays = {1}
    QueryOf <- MCQueryOf
    KnowsAccount = {"f1"}
    MaxWindow = 4
    ProviderPageLimit = 2
    IntegerDigits = 3
    FractionDigits = 3
    MaxFinanceNow = 2

    AuditWriters = {"w1", "w2"}
    AuditKinds = {"usage", "finance"}
    MaxAuditEvents = 3
    MaxAuditEpochs = 2
    MaxRetained = 1

    Families <- MCFamilies
    EvidenceRows = 2

    Openers = {"old", "mid", "new"}
    SchemaOf <- MCSchemaOf
    FirstVersions <- MCFirstVersions
    MaxUpgradeEntries = 2

    Reports <- MCReports
    HalfRates <- MCHalfRates
    MaxCount = 9
    MaxUsageEvents = 3

    BindingOrgs = {"o1"}
    AccountIds = {"b1"}
    SourceIds = {"s1"}
    Identities <- MCIdentities
    Configurations <- MCConfigurations
    BoundAttempts = {"a1"}
    MaxAccountCommits = 5

    Employees = {"e1", "e2"}
    PolicyRequests = {"r1", "r2"}
    PolicyDocuments <- MCPolicyDocuments
    PolicyRoutes <- MCPolicyRoutes
    PolicyAsks <- MCPolicyAsks
    PolicyHolds <- MCPolicyHolds
    NotSet = NotSet

    Gateways = {"g1", "g2"}
    Exchanges = {"x1"}
    NoGateway = NoGateway

    AnchorOrgs = {"oA", "oB"}
    Purposes = {"provider-credential"}
    WrappingKeys = {"k1", "k2", "k3"}
    AnchorEvents <- MCAnchorEvents
    MaxEnvelopes = 1
    MaxExport = 3
    MaxFaults = 2

    BenchmarkModels <- MCBenchmarkModels
    BenchmarkCases <- MCBenchmarkCases
    Repeats = 1
    MinCases = 2
    MinPasses = 1
    ScorecardLife = 1
    MaxBenchmarks = 2
    MaxRestarts = 2
    MaxScorecardTime = 1
    BenchmarkAnswers = {"passed", "capacity"}
    NoAlias = NoAlias

    Jobs = {"j1", "j2"}
    Requests = {"r1", "r2", "r3"}
    JobOf <- MCJobOf
    SizeOf <- MCSizeOf
    MaxEntries = 2
    MaxBytes = 3
    MaxGen = 1
    None = None

    Keys = {"k1", "k3"}
    CohortOf <- MCCohortOf
    Committers = {"h1", "h2"}
    MaxVersions = 1
    MaxProfiles = 1
    MaxPending = 1
    MaxEvidence = 1
    MaxCounter = 5
    NoRefresh = NoRefresh
INVARIANTS
    PartsTypeOK
    AuditIsSound
    FinanceEvidenceIsSound
    BoundWasCurrent
    PolicyIsSound
    AnchorsAreSound
    CacheIsSound
    OwnEvidenceIsCurrent
PROPERTIES
    CollectionIsSound
    EvidenceIsSound
    UpgradeIsSound
    LifetimeIsSound
    BenchmarkIsSound
CHECK_DEADLOCK FALSE
