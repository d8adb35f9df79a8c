SPECIFICATION Spec
CONSTANTS
    Tickers = {t1}
    Recoverer = r
    Cancellers = {c}
    MaxInput = 4
    MinFill = 2
    AllowPartial = TRUE
    ExpiresAt = 1
    MaxAttemptsPerOrder = 2
    HasBus = FALSE
    RelayStoreFails = FALSE
    MaxStream = 8
    MaxNow = 1
    MaxFaults = 1
    MaxCrashes = 1
INVARIANTS
    NeverOverspends
    LedgerIsTheChain
    ConfirmedFillApplies
PROPERTY
    ImplementsOrderLedger
CHECK_DEADLOCK FALSE
