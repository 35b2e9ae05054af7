SPECIFICATION Spec
CONSTANTS
    Ids = {1, 2, 3, 4, 5}
    Types = {"message", "compaction"}
    MaxSeq = 5
    MaxOther = 1
    Queries <- MCQueries
INVARIANTS
    BranchCachesSound
PROPERTIES
    ImplementsMemory
CHECK_DEADLOCK FALSE
