CONSTANTS
    Secrets = {s1, s2}
    LinkTokens = {l1}
    Calls = {c1, c2}
    Journeys <- SomeJourneys
    Starts <- SomeStarts
    None = None
    MayFail = TRUE
SPECIFICATION Spec
INVARIANTS AccountPagesTypeOK WayBackIn AuthenticatorIsRight ShownHasTokens
CHECK_DEADLOCK FALSE
SYMMETRY Symmetry
