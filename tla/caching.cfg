CONSTANTS
  Callers = {c1, c2, c3}
  Keys = {k1, k2}
  KeyOf <- OneOdd
  Coalesce = TRUE
  TTL = 1
  Cap = 1
  Target = 1
  MaxClock = 2
  None = None
SPECIFICATION FairSpec
INVARIANTS
  PaidOnce
  FollowersShare
  CapKept
  ServedFresh
PROPERTIES
  FollowersReleased
CHECK_DEADLOCK FALSE
