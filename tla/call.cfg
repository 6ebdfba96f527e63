CONSTANTS
    MaxRetries = 2
    Backoff = 20
    MaxParts = 2
    None = None
    MaxSize = 3
    Batch = 2
    MaxRecords = 6
SPECIFICATION FairSpec
INVARIANTS
    AttemptsHonest
    Accounted
PROPERTIES
    CallsJustified
    SeatSettles
    QueueDrains
CHECK_DEADLOCK FALSE
