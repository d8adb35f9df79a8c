SPECIFICATION Spec
CONSTANTS
    Tickers = {t1}
    Recoverer = r
    Cancellers = {}
    MaxInput = 4
    MinFill = 2
    AllowPartial = TRUE
    ExpiresAt = 1
    MaxAttemptsPerOrder = 2
    HasBus = FALSE
    RelayStoreFails = TRUE
    MaxStream = 8
    MaxNow = 1
    MaxFaults = 1
    MaxCrashes = 1
INVARIANTS
    NeverOverspends
CHECK_DEADLOCK FALSE
