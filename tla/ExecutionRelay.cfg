SPECIFICATION Spec
CONSTANTS
    Keys = {k1}
    Digests = {d1, d2}
    Calls = {c1, c2}
    Readers = {r1}
    ChainThreshold = 1
    SignThreshold = 1
    CooldownMs = 1
    MaxFailures = 1
    MaxNow = 1
    MaxFaults = 2
    MaxCrashes = 1
SYMMETRY Symmetry
INVARIANTS
    AtMostOneBroadcast
    BroadcastIsRecoverable
    TerminalRowIsTruthful
    PreSendErrorMeansUnsent
    ReconcileIsTruthful
PROPERTY
    ImplementsLedger
CHECK_DEADLOCK FALSE
