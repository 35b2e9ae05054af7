SPECIFICATION FairSpec
CONSTANTS
    Transcripts <- MCTranscripts
    Compats <- MCCompats
    Styles = {"index", "id", "external"}
    Silent = {"id"}
    MaxPieces = 3
    MaxCalls = 2
    MaxExternal = 1
INVARIANTS
    RequestWellFormed
    AnswerFaithful
CHECK_DEADLOCK FALSE
