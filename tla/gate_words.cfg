SPECIFICATION Spec
CONSTANTS
    None = None
    Messages <- MCMessages
INVARIANT
    PrematureRequestsWait
CHECK_DEADLOCK FALSE
