CONSTANTS
    NoSession = NoSession
    Users = {u1}
    SessionIds = {s1, s2, s3}
    Requests = {r1, r2}
    MayAbort = TRUE
SPECIFICATION Spec
INVARIANTS TypeOK OneHolder OutdatedSessionsAreRevoked
PROPERTY ImplementsTokenFamilies
CHECK_DEADLOCK FALSE
SYMMETRY Symmetry
