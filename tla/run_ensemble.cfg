CONSTANTS
  N = 3
  Plans <- AllPlans
  SharedCalls = TRUE
  MaxChunks = 1
SPECIFICATION FairSpec
INVARIANTS
  SpendOnce
  CallsHeld
  FeedWhole
  QuorumHeld
PROPERTIES
  RunEnds
  SpendBooked
  RunPromiseKept
CHECK_DEADLOCK FALSE
