SPECIFICATION EitherCourse
CONSTANTS
  host = host
  c1 = c1
  c2 = c2
  c1x = c1x
  Name <- Names
  ReadAs <- WithForeignBytes
  NoContext = NoContext
  Primary = host
  Replica = {c1, c2}
  Failing = {c1}
  SocketBuffer = 1
  MaxFailures = 1
  MaxCrashes = 1
  MaxStarts = 2
  MaxHeard = 0
  MaxQueue = 1
CHECK_DEADLOCK FALSE
INVARIANTS TypeOK ClientsMatchReplicas RequestsTraced
PROPERTY RequestServed
