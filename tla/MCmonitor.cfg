SPECIFICATION FairSpec
CONSTANTS
  s1 = s1
  m1 = m1
  Unit = {s1, m1}
  Service = {s1}
  Faults = {"manager", "list", "entry"}
  Kills = TRUE
  MaxEntries = 2
  MaxPending = 2
  MaxFailures = 2
INVARIANTS TypeOK EachEntryReportsOnce EntryFollowsUnit NoneOverlooked
PROPERTY ServiceWatched
