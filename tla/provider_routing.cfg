SPECIFICATION SpecReceiver
CONSTANTS
    None = None
    Providers = {1, 2, 3}
    Traits = {"chat", "BALANCED", "SEMANTIC_HIGH"}
    Dimensions = {"semantic", "authority", "class"}
    Registries <- MCRegistries
    Policies <- MCPolicies
    Bindings <- MCBindings
    Answers <- MCAnswers
    Timeouts = {2, 9}
    Overall = 6
    Reserve = 1
    MinAttempt = 1
    MaxNow = 7
INVARIANTS
    AnswersJudged
    FailedMeansSettled
    NothingRefused
    ReportsAreBelieved
PROPERTIES
    DispatchIsJustified
    CallsEnd
CHECK_DEADLOCK FALSE
