SPECIFICATION Spec
CONSTANTS
    None = None
    Plans = {p1}
    Projects = {q1}
    ApprovalIds = {1,2,3,4,5,6,7}
    Turns = {t1}
    OneTurnAtATime = TRUE
    AppAuth = FALSE
    PrIds = {1}
    Events <- AllButLostSaves
INVARIANTS
    ApprovedScope
    PushIsApprovedCommit
    HaltedGateIsPending
PROPERTIES
    LocalCommitsKept
    RemoteCommitsKept
    NeverRegresses
CHECK_DEADLOCK FALSE
