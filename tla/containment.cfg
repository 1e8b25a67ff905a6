SPECIFICATION Spec
CONSTANTS
    None = None
    Runs = {r1, r2}
    Providers = {p1, p2}
    Profiles = {x}
    Models = {m}
    Tokens = {t1, t2}
    Verifiers = {v1, v2}
    MaxIssued = 2
INVARIANTS
    OnlyWhatWasVerified
    EvidenceReadsTrue
CHECK_DEADLOCK FALSE
