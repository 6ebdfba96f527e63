CONSTANTS
  Requests = {q1, q2}
  Readers = {r1, r2}
  Vocabulary = {"fanout_started", "synthesis_started", "completed"}
  Ttl = 1
  MaxRuns = 1
  Stallers = {r2}
  MaxTries = 2
  MaxEvents = 4
SPECIFICATION FairSpec
INVARIANTS
  ReadersServed
  RunsListed
PROPERTIES
  HistoryKept
  WatcherReleased
CHECK_DEADLOCK FALSE
