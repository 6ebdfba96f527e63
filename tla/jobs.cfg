CONSTANTS
  Jobs = {j1, j2}
  Stops = {s1, s2}
  None = None
  MaxReports <- OneReporter
  MaxActors = 3
SPECIFICATION FairSpec
INVARIANTS
  FileHonest
  StopEnds
PROPERTIES
  EndsOnce
  WaitersWoken
CHECK_DEADLOCK FALSE
