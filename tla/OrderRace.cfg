SPECIFICATION Spec
CONSTANTS
    Tickers = {t1, t2}
    Recoverer = r
    Cancellers = {c}
    MaxInput = 1
    MinFill = 1
    AllowPartial = FALSE
    ExpiresAt = 1
    MaxAttemptsPerOrder = 2
    HasBus = TRUE
    RelayStoreFails = FALSE
    MaxStream = 1
    MaxNow = 0
    MaxFaults = 1
    MaxCrashes = 0
SYMMETRY Symmetry
INVARIANT
    OutboxIsGapless
PROPERTIES
    SendsAreReserved
    ObjectOnlyAdvances
CHECK_DEADLOCK FALSE
