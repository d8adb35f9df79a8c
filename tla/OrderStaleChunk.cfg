SPECIFICATION Spec
CONSTANTS
    Tickers = {t1, t2}
    Recoverer = r
    Cancellers = {}
    MaxInput = 2
    MinFill = 1
    AllowPartial = TRUE
    ExpiresAt = 1
    MaxAttemptsPerOrder = 2
    HasBus = FALSE
    RelayStoreFails = FALSE
    MaxStream = 7
    MaxNow = 0
    MaxFaults = 0
    MaxCrashes = 0
SYMMETRY Symmetry
INVARIANTS
    NeverOverspends
CHECK_DEADLOCK FALSE
