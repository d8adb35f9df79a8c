SPECIFICATION Spec
CONSTANTS
    BpsOne = 10
    AmountMax = 120
    PriceOne = 64
    TickFactors <- MCTickFactors
    TickFactorsDown <- MCTickFactorsDown
    MaxTick = 7
    MaxCrosses = 2
    DefaultStale = 5
    DefaultSkew = 1
    MaxSplitLegs = 3
    MaxCalldata = 4
    MaxPayload = 2
    GateCases <- MCGateCases
    Labels <- MCLabels
    MaxHops = 2
    MaxPools = 4
    MaxBridges = 1
    MaxCandidates = 4
    MinSplitLegs = 2
    MaxSplitPairs = 3
    GridSteps = 4
    RefineSteps = 4
    MaxSplitQuotes = 200
    MaxDecimals = 2
    MaxFraction = 4
    OkxCases <- MCOkxCases
INVARIANTS
    SwapsKeepValue
    GateIsSafe
    BestRouteIsBest
    SplitPaysOff
    
    OkxAnswersAreOurs
CHECK_DEADLOCK FALSE
