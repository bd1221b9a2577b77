SPECIFICATION Spec
CONSTANTS
    Models = {m1, m2, m3}
    Passing = {m1, m2}
    NoModel = NoModel
    Backends = {"json", "sqlite"}
    MaxHistory = 3
    Fills <- MCFills
    ShareTol = 1
    CashTol = 1
    MaxTrail = 5
    MaxRaised = 1
    Callers = {"token", "ip1", "ip2"}
    Kinds = {"auth_failed"}
    Limit = 2
    Window = 2
    MaxKeys = 2
    AlertWindow = 2
    MaxClock = 4
    Clients = {"op", "neighbour", "stranger"}
    TokenHolder = "op"
    AddressOf <- MCAddressOf
    ReadLimit = 2
    ControlLimit = 1
    MaxRequests = 3
    MaxNow = 2
    PeriodBars = 2
    Warmup = 1
    Lengths = {3, 5}
    Prices = {1, 2}
    Results <- MCResults
    Capital = 1000
    CostPct = 1
    FinancingPct = 3
    MaxGross = 2
    RefitEvery = 2
    MaxCalls = 8
    MaxBars = 8
    MaxSize = 3
    Horizons <- MCHorizons
    MaxTime = 4
    MinFit = 1
    InitialFit = 1
    BufferMax = 2
    MaxAge = 1
    Modes = {"PAPER", "LIVE"}
    Retention = 2
    Features = {"ok", "inf", "none"}
    MaxFits = 2
    MaxCrashes = 1
    Passphrases = {"p", "q"}
    Names = {"key"}
    Values = {"v", "w"}
    Procs = {"operator"}
    Operator = "operator"
    MaxSalt = 3
    MaxInterrupts = 1
INVARIANTS
    OutcomesLearnedOnce
    LabelsSpanTheHorizon
    OneFitAnswers
    ShortBuffersFitAligned
    VaultOpens
    OneLiveModel
    RollbackIsRetrySafe
    TrailIsOneChain
    BreaksAreReal
    BudgetHolds
    AlertsAreCounted
    AnswersAreEarned
    DecisionsIgnoreTheFuture
    AnswersOfOneFit
    FoldsNeverLeak
CHECK_DEADLOCK FALSE
