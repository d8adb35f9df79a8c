SPECIFICATION FairSpec
CONSTANTS
    Keys = {k1}
    Digests = {d1}
    Calls = {c1}
    Readers = {r1}
    ChainThreshold = 1
    SignThreshold = 1
    CooldownMs = 1
    MaxFailures = 1
    MaxNow = 0
    MaxFaults = 2
    MaxCrashes = 1
PROPERTY
    EvidenceArrives
CHECK_DEADLOCK FALSE
