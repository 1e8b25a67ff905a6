SPECIFICATION Spec
CONSTANTS
    None = None
    Gap = 0
    MaxPropositions = 2
    AllScenarios <- Asked
    Configs <- Plans
    MaxCapture = 3
    MaxText <- Texts
    Output <- Spoken
    MaxChanges = 1
INVARIANT
    EarnedPasses
PROPERTIES
    CleanEvidence
    RunsEnd
CHECK_DEADLOCK FALSE
