SPECIFICATION LiveSpec
CONSTANTS
    Ids = {i1, i2}
    Emails = {e1, e2}
    Codes = {c1, c2}
    Requests = {r1}
    None = None
    Gone = Gone
    MayFail = TRUE
INVARIANTS
    TypeOK
    AddressesAreProven
PROPERTIES
    VerifiedStay
    UnverifiedGo
CHECK_DEADLOCK FALSE
