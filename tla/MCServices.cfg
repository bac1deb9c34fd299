SPECIFICATION ServicesSpec
CONSTANTS
    Callers = {c1, c2}
    MaxRequests = 1
    Window = 2
    MaxRetries = 1
    ForceAfter = 2
    Symbols = {wmatic}
    Readers = {r1}
    MarketTtls = {2, 3}
    TableTtls = {1}
    OldestPrice = 3
    NoReader = NoReader
    Executor = estimator
    Reaper = reaper
    Native = wmatic
    Ttl = 2
    MaxStale = 1
    Default = Default
    Kinds = {"v2", "v3"}
    SwapUnits <- MCSwapUnits
    Hops <- MCHops
    BaseGas = 210
    CalldataGas = 30
    Overhead = 900
    MinSamples = 2
    Receipts = {2000, 3900, 9000}
    MaxReceipts = 5
    Outcomes = {"unencodable", "refused", "gain"}
    QueueSize = 1
    SummaryWindow = 2
    MaxSamples = 3
    Calls = {e1, e2}
    Labels = {slash, dash}
    Key <- MCKey
    Cooldown = 1
    MaxNonce = 2
    NoCall = NoCall
    Tasks = {t1, t2}
    Pairs = {p}
    Strategies = {s}
    Global = 1
    PerPair = 1
    PerStrategy = 1
    Penalty = 2
    Minute = 3
    Keep = 6
    MaxPerMinute = 2
    MaxBlock = 4
    Configs <- MCConfigs
    LatestBlock = 119
    LatestTime = 200
    BlocksPerTick = 1
    Step = 1
    MaxEthCalls = 1
    Stables = {"usdc", "usdt", "dai"}
    Venues = {"curve", "uni", "quick"}
    V3 = "uni"
    ExecutableTiers = {500, 3000, 10000}
    Curve = "curve"
    StableDecimals <- MCDecimals
    Midcaps = {"wmatic"}
    Anchors = {"usdc"}
    Books <- MCBooks
    PoolBalances <- MCPoolBalances
    MinLiquidity = 5
    Quotes <- MCQuotes
    SameModel <- MCSameModel
    Plans <- MCPlans
    Evaluations <- MCEvaluations
    ExpectedRounds = 2
    Traces <- MCTraces
    ForkTokens = {"usdc", "usdt"}
    Endpoints = {"localhost", "public"}
    Probe = 3
    MaxOut = 2
    MaxPolls = 1
    MaxRoutes = 2
    NoRoute = "none"
INVARIANTS
    RateIsKept
    SingleFlight
    FeesAreRecent
    LearnedIsCovered
    SamplesAreKept
    NoncesAreUnique
    MinuteLimitHolds
    ReplayAddsUp
    ForkEvidenceStandsAlone
PROPERTY
    AcquireEnds
