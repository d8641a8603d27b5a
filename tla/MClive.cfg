SPECIFICATION FairSpec
CONSTANTS
  u1 = u1
  s1 = s1
  Service = {u1, s1}
  Unit = {u1}
  Ladder <- ContextLadder
  RelaxTime <- OneSecond
  RunModes = {"replica"}
  Faults = {"none", "flag", "reset"}
  ProcessDies = TRUE
  SocketBuffer = 1
  MaxRvector = 3
  MaxPending = 2
PROPERTIES BoundedByReset RvectorMoves FailureIsActedOn
