SPECIFICATION OtpSpec
CONSTANTS
    Keys = {k1, k2}
    Codes = {c1, c2}
    TTL = 2
    MaxTime = 2
    MaxTimers = 2
    None = None
    MayRestart = TRUE
INVARIANTS
    OtpTypeOK
    OnlyTheLastUnusedCode
CHECK_DEADLOCK FALSE
