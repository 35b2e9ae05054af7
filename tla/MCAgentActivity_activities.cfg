SPECIFICATION FairSpec
CONSTANTS
    MaxRuns = 6
    MaxAccepted = 2
    MaxCustom = 1
    Listeners = {l1, l2}
INVARIANTS
    ActivitiesInTurn
PROPERTIES
    WaitersReleased
CHECK_DEADLOCK FALSE
