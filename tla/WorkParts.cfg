SPECIFICATION PartsSpec
CONSTANTS
    Parts = {"affinity", "routes", "budgets", "receipts"}

    repo = repo  w1 = w1  q1 = q1  q2 = q2  m1 = m1  m2 = m2  c1 = c1  c2 = c2
    Jobs = {w1}
    Repos = {repo}
    RepoOf <- MCRepoOf
    Requests = {q1, q2}
    Threads = {}
    Models = {m1, m2}
    Contexts = {c1, c2}
    Amounts = {0}
    Charges = {0}
    Budgets = {}
    Planned = {}
    MaxBindings = 1
    MaxGen = 1
    MaxMonth = 1
    None = None

    WorkScopes = {"pf", "uc"}
    KindOf <- MCKindOf
    BudgetPlans = {"pa"}
    ScopeTexts <- MCScopeTexts
    PlanTexts <- MCPlanTexts
    WorkAttempts = {"a1", "a2"}
    WorkEstimates = {2}
    WorkCharges = {1}
    MaxScopeWrites = 1
    MaxPlanWrites = 2
    MaxClock = 3
    NoScope = NoScope

    RouteJobs = {"j1", "j2", "j3"}
    RouteAliases = {"base", "alt"}
    BaselineAlias = "base"
    ExplorationAliases = {"alt"}
    ToolAliases = {"base"}
    MinimumSamples = 1
    ExplorationRate = 20
    ExplorationCap = 2
    QuoteOf <- MCQuoteOf
    LatencyOf <- MCLatencyOf
    RoutePlans <- MCRoutePlans
    NoBudget = 99
    RouteRequests = {"plain"}
    TryOutcomes <- MCTryOutcomes
    JobStatuses = {"completed"}
    Reconfigured = {"alt"}
    RouteMonths = 2
    MaxTries = 1
    MaxGenerations = 2
    MaxReads = 1

    ReceiptJobs = {"jA", "jB"}
    RepositoryOf <- MCRepositoryOf
    ReceiptReaders = {"r"}
    Reservation = 3
    ReceiptEstimate = 2
    Invoices = {1, 2}
    ReceiptOutcomes = {"succeeded"}
    PageLimit = 1
    MaxReceiptAttempts = 3
    MaxReceiptMonths = 2
    Unconfirmed = Unconfirmed
SYMMETRY AnyRequestModelContext
INVARIANTS
    PartsTypeOK
    AffinityIsSound
    WorkBudgetsAreSound
PROPERTIES
    RoutesAreSound
    ReceiptsAreSound
CHECK_DEADLOCK FALSE
