SPECIFICATION Spec
CONSTANTS
    Users = {u1}
    Addresses = {a1, a2}
    Rows = {i1, i2, i3, i4}
    Requests = {r1, r2}
    SetSize = 2
    ResetLimit = 1
    LongWindow = TRUE
    NoRow = NoRow
    MayFail = TRUE
SYMMETRY Symmetry
CONSTRAINT OneKind
INVARIANTS
    TypeOK
    CodesWorkOnce
    CodesAreOneSet
    FewGoodResetCodes
CHECK_DEADLOCK FALSE
