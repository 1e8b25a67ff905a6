SPECIFICATION FairSpec
CONSTANTS
    None = None
    Plans = {p1,p2}
    Projects = {q1,q2}
    ApprovalIds = {1,2,3,4,5,6,7}
    Turns = {t1}
    OneTurnAtATime = FALSE
    AppAuth = FALSE
    PrIds = {1}
    Events <- Mishaps
INVARIANTS
    CommitsAreReal
    MutationsBacked
PROPERTIES
    TurnsEnd
    KeepsApprovals
CHECK_DEADLOCK FALSE
