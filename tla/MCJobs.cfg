SPECIFICATION Spec
CONSTANTS
    Users = {u1, u2, u3}
    JobIds = {j1}
    Requests = {r1, r2}
    Limits = {1, 2}
    Edits <- SomeEdits
    NoJob = NoJob
    Nobody = Nobody
    Keep = Keep
    MayAbort = TRUE
SYMMETRY Symmetry
INVARIANTS
    TypeOK
    FreelancersApplied
    OverrunIsBounded
    OneFreelancerPerJob
CHECK_DEADLOCK FALSE
