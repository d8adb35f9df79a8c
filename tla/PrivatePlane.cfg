SPECIFICATION Spec
CONSTANTS
    Kids = {"k1", "k2"}
    Owners = {"w1"}
    ReplayWidth = 2
    SessionTtl = 2
    RelayCalls = {"c1", "c2"}
    Connections = {"d1", "d2"}
    PermittedOps = {"get_portfolio", "execute_market_order"}
    MaxEnvelopes = 3
    MaxFrames = 2
    MaxRelayTime = 2
    MaxSubscribers = 2
    Handlers = {"h1", "h2"}
    WorkspaceKeys = {"key1", "key2"}
    ReleaseKey = "key1"
    MaxPending = 2
    MaxLiveSessions = 2
    MaxLiveGrants = 2
    ChallengeTtl = 1
    LoginTtl = 2
    GrantTtl = 1
    MaxAccessTime = 1
    MaxTokens = 5
    Writers = {"w1", "w2"}
    CredentialIds = {"c1", "c2"}
    MaxWrappers = 2
    MaxProofs = 2
    MaxProofsEach = 1
    MaxStoreOps = 4
    Prices = {1, 2, 3}
    MaxSequence = 4
    MaxLevels = 1
    MaxWindow = 2
    SharedCounter = TRUE
    QueueCapacity = 2
    BatchSize = 2
    MaxBatches = 2
    TickSpacing = 2
    Indices = {0, 1, 2}
    MaxEntries = 1
    MaxPoolUpdates = 3
    FomoKids = {"k1", "k2"}
    FomoStreams = {"s1"}
    StreamOwner <- MCStreamOwner
    TargetRequests <- MCTargetRequests
    DefaultTarget <- MCDefaultTarget
    MaxTargets = 1
    MaxLanePrices = 1
    MaxStreamFailures = 3
    MaxCountBack = 2
    Overlap = FALSE
    LaneLog <- MCLaneLog
    TokenQueries <- MCTokenQueries
    BridgeAnswers <- MCBridgeAnswers
    MaxLaneGeneration = 3
INVARIANTS
    AtMostOnceDispatch
    HonestSequenceIsAccepted
    ResyncWakesSoleConnection
    
    RecoveryIsSound
    
    
CHECK_DEADLOCK FALSE
