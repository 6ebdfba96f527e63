CONSTANTS
  Callers = {c1, c2}
  Keys = {k1}
  Deltas = {d1, d2}
  Completed = Completed
  Failed = Failed
  None = None
  MaxBuffer = 1
  MaxEvents = 2
  Identity <- OneIdentity
  Chars <- OneChar
SPECIFICATION FairSpec
INVARIANTS
  Delivered
  RegistryExact
  CutMeansCancelled
  OrphanTimed
PROPERTIES
  PromiseKept
  Released
CHECK_DEADLOCK FALSE
