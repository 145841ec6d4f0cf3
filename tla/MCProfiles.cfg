SPECIFICATION Spec
CONSTANTS
    Users = {u1, u2}
    Names = {n}
    MaxSuffix = 1
    Skills = {k}
    Items = {i1, i2}
    MaxPlace = 2
    Lists = {"portfolio", "services"}
    Requests = {r1, r2}
    None = None
SYMMETRY Symmetry
CONSTRAINT TwoAtMost
CHECK_DEADLOCK FALSE
INVARIANTS
    TypeOK
    EndorsementsAreCounted
PROPERTY
    SlugsStay
