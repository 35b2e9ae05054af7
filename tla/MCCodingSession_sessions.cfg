SPECIFICATION Spec
CONSTANTS
    p1 = p1
    p2 = p2
    Paths = {p1, p2}
    NoPath = NoPath
    MaxSessions = 2
    MaxEntries = 2
    MaxSaves = 1
    MaxMishaps = 1
INVARIANTS
    FilesSound
PROPERTIES
    HandoffKeepsHistory
SYMMETRY Symmetry
CHECK_DEADLOCK FALSE
