SPECIFICATION Spec
CONSTANTS
    FailureThreshold = 2
    CooldownMs = 2
    MaxFailures = 3
    Callers = {c1, c2, c3}
    Horizon = 2
    MaxNow = 4
    MaxInputs = {1, 2, 3, 4, 5}
    Expiries = {1, 2}
    Instants = {0, 1, 2}
    MaxRemaining = 8
    MaxSearchSteps = 3
    MaxFallbackSteps = 1
    Caps = {0, 1}
    PolicyChains = {c1}
    PolicyVenues = {v1, v2}
    PolicyKeys = {"k1", "k2"}
    MaxAppliedKeys = 1
    MaxConfirmationAge = 1
    EmptyVenues = FALSE
    MaxVersion = 3
    QuoteKids = {"ka", "kb"}
    QuoteCalls = {q1}
    Intents = {"i1"}
    QuoteTtl = 2
    MaxQuotes = 2
    MaxPerKid = 1
    QuoteHorizon = 2
    MaxQuoteIds = 3
    MarketOrders = {m1, m2}
    Channels = {"Web"}
    MarketCalls = {d1, d2}
    MaxPending = 2
    MaxPerPass = 1
    ReconcileFaults = FALSE
    MaxEpoch = 2
    MaxRefs = 2
    TradeCommands <- MCTradeCommands
    TradeCalls = {t1, t2}
    HomeChain = "base"
    SlippageCap = 2
    ImpactCap = 2
    NoCap = 99
    OkxConfigured = TRUE
    TwapPlans <- MCTwapPlans
    Observations <- MCObservations
    StaleAfter = 1
    ProgressKeys = {"p1", "p2"}
    MaxProgressKeys = 4
    Rfqs <- MCRfqs
    Solvers = 2
    SolverReplies <- MCSolverReplies
    AdaptHorizon = 2
    BrokerCallers = {b1, b2}
    BrokerMenus <- MCBrokerMenus
    AdapterReplies <- MCAdapterReplies
    FreshTtl = 0
    StaleGrace = 1
    NegativeTtl = 1
    MaxBudget = 5
    RefillPerTick = 1
    BrokerThreshold = 2
    BrokerCooldown = 1
    Cancellation = FALSE
    BrokerHorizon = 2
    BenchRequests <- MCBenchRequests
    BenchQuotes <- MCBenchQuotes
    SocialRequests <- MCSocialRequests
    SocialSnapshots <- MCSocialSnapshots
    BenchCost = 3
    MinInput = 2
    MaxQuoteAge = 1
    MaxStateAge = 4
    MaxPerBenchPass = 2
    MaxSignals = 2
    MaxWeight = 2
    IntelHorizon = 4
    AgentCaps <- MCAgentCaps
    AgentValues <- MCAgentValues
    McpRequest <- MCMcpRequest
    McpInputs <- MCMcpInputs
    MaxFrameBytes = 2
    MaxFrames = 2
    TgLog <- MCTgLog
    TgChats = {"c"}
    TgSenders = {"a"}
    PollBatch = 2
    TgCrashes = 1
    AuditWriters = {w1, w2}
    AuditEvents <- MCAuditEvents
    AuditLookups <- MCAuditLookups
    AuditKids <- MCAuditKids
    ReplayBatch = 1
    MaxTampered = 1
    StartEnvs <- MCStartEnvs
    Artifacts <- MCArtifacts
    Manifests <- MCManifests
    MovingFlags = {"relay"}
    EdgeEnvs <- MCEdgeEnvs
    EdgeCalls = {e1, e2}
    EdgeSizes = {0, 1, 2}
    MaxBody = 1
    StreamQueue = 1
    MaxDials = 2
    MaxStreamed = 3
INVARIANTS
    BreakerIsSound
    OrderIsSound
    ReturnsSafeChunk
    MaximalWhenMonotone
    
    AdaptiveIsExact
    
    ChannelsKeepTheirPromises
    AuditIsFaithful
    

    
CHECK_DEADLOCK FALSE
