SPECIFICATION FairSpec
CONSTANTS
    NumCalls = 2
    MaxMishaps = 1
    Width <- CharWidth
    Newline = "n"
    Control = {"b"}
    Replacement = "R"
INVARIANTS
    OneResultEachInOrder
    EffectsOwned
PROPERTIES
    TextsSound
    SettledNotRerun
    BatchEnds
CHECK_DEADLOCK FALSE
