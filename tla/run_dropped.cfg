CONSTANTS
  N = 2
  Plans <- SlowPanels
  SharedCalls = TRUE
  MaxChunks = 1
SPECIFICATION Spec
INVARIANT FinishedBooked
CHECK_DEADLOCK FALSE
