SPECIFICATION WebSpec
CONSTANTS
    Users = {u1}
    SessionIds = {s1, s2, s3}
    Requests = {r1, r2}
    NoSession = NoSession
    MayAbort = TRUE
    Tabs = {t1, t2}
    NoTab = NoTab
    NoCall = NoCall
SYMMETRY Symmetry
INVARIANT SignOutRevokes
CHECK_DEADLOCK FALSE
