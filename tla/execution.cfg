SPECIFICATION Spec
CONSTANTS
    None = None
    Regions <- Lines
    Oversized = {"o"}
    Binary = {"i"}
    Calls = {c1, c2, c3}
    Paths = {"a", "e", "n", "i", "o"}
    Initial <- MCInitial
    Requests <- MCRequests
    Proposals <- MCProposals
    MaxEdits = 1
SYMMETRY AnyCall
INVARIANT
    OutcomeIsTrue
PROPERTIES
    ApprovedWrites
    EditsSurvive
    AppliedForGood
CHECK_DEADLOCK FALSE
