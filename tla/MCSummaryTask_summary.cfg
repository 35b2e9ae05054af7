SPECIFICATION FairSpec
CONSTANTS
    Ops = {o1, o2}
    None = None
    MaxAttempts = 2
    MaxCrashes = 1
    Scalars <- Stored
    Text = 99
    Null = Null
    Invalid = Invalid
INVARIANTS
    SummaryAccounted
    RestoreResumes
    CompactionSound
PROPERTIES
    MarkerWins
    ImplementsOperation
    OpenSummarySettles
CHECK_DEADLOCK FALSE
