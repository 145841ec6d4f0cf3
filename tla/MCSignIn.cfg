SPECIFICATION Spec
CONSTANTS
    Users = {u1}
    Addresses = {a1}
    Requests = {r1, r2}
    Secrets = {k1, k2}
    Threshold = 3
    MaxCount = 3
    NoSecret = NoSecret
    MayAbort = TRUE
SYMMETRY Symmetry
INVARIANTS
    TypeOK
    CountIsExact
    GuessesAreBounded
    FactorIsProven
CHECK_DEADLOCK FALSE
