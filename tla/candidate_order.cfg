CONSTANTS
    None = None
    Scenarios <- Advised
    MaxEntries = 2
    MaxCalls = 2
SPECIFICATION TurnSpec
INVARIANTS
    CandidatesInPlanOrder
CHECK_DEADLOCK FALSE
