SPECIFICATION FairDialogueSpec
CONSTANTS
    MaxInputs = 2
    MaxResponses = 2
    MaxCalls = 1
    MaxCompactions = 1
    MaxMishaps = 1
    MaxRetries = 1
    Mode = "one-at-a-time"
INVARIANTS
    RequestsSound
    CallsSound
PROPERTIES
    InputsInOrder
    RunSettles
CHECK_DEADLOCK FALSE
