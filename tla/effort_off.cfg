CONSTANTS
    None = None
    Scenarios <- Rosters
    MaxEntries = 2
    MaxCalls = 2
SPECIFICATION TurnSpec
INVARIANTS
    OffSendsNothing
CHECK_DEADLOCK FALSE
