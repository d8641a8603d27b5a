SPECIFICATION Spec
CONSTANTS
  u1 = u1
  s1 = s1
  Service = {u1}
  Unit = {u1}
  Ladder <- DataLadder
  RelaxTime <- OneSecond
  RunModes = {"primary"}
  Faults = {"none"}
  ProcessDies = FALSE
  SocketBuffer = 1
  MaxRvector = 3
  MaxPending = 2
PROPERTY RelaxOnlyIfQuiet
