SPECIFICATION WebSpec
CONSTANTS
    Users = {u1}
    SessionIds = {s1, s2, s3}
    Requests = {r1, r2}
    NoSession = NoSession
    MayAbort = TRUE
    Tabs = {t1, t2}
    NoTab = NoTab
    NoCall = NoCall
SYMMETRY Symmetry
INVARIANTS
    WebTypeOK
    OneTabStaysSignedIn
    SignedOutStaysOut
CHECK_DEADLOCK FALSE
