SPECIFICATION FairSpec
CONSTANTS
    Limit <- SmallLimit
    MaxOutput = 3
    Codes = {0,1}
    None = None
INVARIANTS
    AnswerIsComplete
    NothingLeftBehind
PROPERTIES
    RunsEnd
    OneCompleteReply
CHECK_DEADLOCK FALSE
