SPECIFICATION FairScreenSpec
CONSTANTS
    Texts = {t1, t2}
    Images = {i1}
    Convs = {c1, c2}
    Slash = Slash
    None = None
    Null = Null
    Bad = Bad
    MaxFaults = 1
    MaxCommands = 2
INVARIANTS
    NothingLost
PROPERTIES
    StartupSound
    ExitSettles
CHECK_DEADLOCK FALSE
