SPECIFICATION HarnessFairSpec
CONSTANTS
    Mutations = {m1, m2}
    Repo = Repo
    Names = {a, b}
    Restored = {a}
    ListenerCloses = FALSE
INVARIANTS
    LanesAccounted
PROPERTIES
    ClosesQuietly
    HarnessCloseReturns
CHECK_DEADLOCK FALSE
