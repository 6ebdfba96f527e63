CONSTANTS
  Jobs = {j1}
  Stops = {s1}
  None = None
  MaxReports <- OneReporter
  MaxActors = 2
SPECIFICATION Spec
PROPERTY NoRollback
CHECK_DEADLOCK FALSE
