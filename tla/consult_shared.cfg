CONSTANTS
    None = None
    Scenarios <- Consulted
    MaxEntries = 2
    MaxCalls = 2
SPECIFICATION TurnSpec
INVARIANTS
    SharedAlike
CHECK_DEADLOCK FALSE
