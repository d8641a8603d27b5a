SPECIFICATION Spec
CONSTANTS
  host = host
  c1 = c1
  c2 = c2
  c1x = c1x
  Name <- Names
  ReadAs <- AsSent
  NoContext = NoContext
  Primary = host
  Replica = {c1}
  Failing = {c1}
  SocketBuffer = 2
  MaxFailures = 1
  MaxCrashes = 0
  MaxStarts = 1
  MaxHeard = 2
  MaxQueue = 4
CHECK_DEADLOCK FALSE
INVARIANT RequestsKept
