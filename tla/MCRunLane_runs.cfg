SPECIFICATION FairSpec
CONSTANTS
    Ops = {o1}
    None = None
    MaxInputs = 1
    MaxTip = 3
    MaxCrashes = 2
    MaxAttempts = 2
    SteeringMode = "one-at-a-time"
    FollowUpMode = "all"
    Compacts = TRUE
    FreshIds = TRUE
    Scalars <- Stored
    Text = 99
    Null = Null
    Invalid = Invalid
INVARIANTS
    InputsKept
    StateOwned
    RestoreResumes
PROPERTIES
    EffectsBounded
    ImplementsOperation
    OpenRunSettles
CHECK_DEADLOCK FALSE
