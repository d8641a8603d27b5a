SPECIFICATION Spec
CONSTANTS
  s1 = s1
  m1 = m1
  Unit = {s1}
  Service = {s1}
  Faults = {}
  Kills = FALSE
  MaxEntries = 2
  MaxPending = 2
  MaxFailures = 1
INVARIANT ReportedOnce
CHECK_DEADLOCK FALSE
