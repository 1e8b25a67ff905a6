SPECIFICATION Spec
CONSTANTS
    None = None
    Plans = {p1}
    Projects = {q1}
    ApprovalIds = {1,2,3,4,5,6,7}
    Turns = {t1}
    OneTurnAtATime = TRUE
    AppAuth = TRUE
    PrIds = {1}
    Events <- OneCommit
INVARIANT
    PushIsApprovedCommit
CHECK_DEADLOCK FALSE
