SPECIFICATION FairBusSpec
CONSTANTS
    MaxCommits = 4
    MaxSnapshots = 2
    EmitterCancels = TRUE
    WatcherCancels = TRUE
INVARIANTS
    WatchersSeeAll
PROPERTIES
    ResnapshotReturns
CHECK_DEADLOCK FALSE
