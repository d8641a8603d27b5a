SPECIFICATION Spec
CONSTANTS
  u1 = u1
  s1 = s1
  Service = {u1}
  Unit = {u1}
  Ladder <- ReplicaLadder
  RelaxTime <- OneSecond
  RunModes = {"replica"}
  Faults = {"none"}
  ProcessDies = FALSE
  SocketBuffer = 1
  MaxRvector = 3
  MaxPending = 2
PROPERTY MeditateOnlyIfRequested
