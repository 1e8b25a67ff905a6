SPECIFICATION Spec
CONSTANTS
    None = None
    Works = {w1}
    Handoffs = {h1, h2}
    Objectives = {o1, o2}
    Tasks = {t1}
    ApprovalIds = {a1}
    RunIds = {r1, r2}
    Digests = {d1, d2}
    Callers = {c1, c2}
SYMMETRY Alike
INVARIANTS
    OneContainedAttempt
    HandoffAgreement
PROPERTIES
    ApprovedStart
    KeepsLedger
CHECK_DEADLOCK FALSE
