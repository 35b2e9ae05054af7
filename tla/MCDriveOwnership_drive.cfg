SPECIFICATION FairSpec
CONSTANTS
    Ops = {o1, o2}
    Requests = {r1, r2}
    None = None
    MaxEffects = 2
    CallerCancels = TRUE
    CommitFails = TRUE
INVARIANTS
    AbortReaches
PROPERTIES
    NoEffectUnderMarker
    DriveEnds
CHECK_DEADLOCK FALSE
