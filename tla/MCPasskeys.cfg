SPECIFICATION Spec
CONSTANTS
    Users = {u1, u2}
    Keys = {k1}
    Counting = {k1}
    Challenges = {c1, c2, c3}
    Requests = {r1, r2}
    Nobody = Nobody
    None = None
    MayFail = TRUE
SYMMETRY Symmetry
INVARIANTS
    TypeOK
    ChallengesAreUsedOnce
    KeysAreTheirOwners
    SignUpsHaveKeys
CHECK_DEADLOCK FALSE
