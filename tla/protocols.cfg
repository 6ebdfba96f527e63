CONSTANTS
    None = None
    Scenarios <- AllScenarios
    MaxEntries = 2
    MaxCalls = 2
    Members = 2
    Calls = {0, 1}
    MaxPieces = 4
SPECIFICATION Spec
INVARIANTS
    PanelAsAsked
    EffortHonoured
    ConversationKept
    IdsKept
    ChatFramed
    ItemsClosed
    BlocksBracketed
    SurfacesAgree
CHECK_DEADLOCK FALSE
