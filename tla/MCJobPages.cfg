CONSTANTS
    JobIds = {j1, j2}
    Tabs = {t1}
    Calls = {c1, c2}
    Texts = {x}
    Visits <- SomeVisits
    Stored = {j1}
    Edited = {"completed"}
    Shared = {j1}
    Blank = Blank
    None = None
    MayFail = TRUE
SPECIFICATION JobPagesSpec
INVARIANTS JobPagesTypeOK ShownIsTrue OwnDraftIsKept
PROPERTY CancelKeepsJob
CONSTRAINT ShownProposals
CHECK_DEADLOCK FALSE
SYMMETRY Symmetry
