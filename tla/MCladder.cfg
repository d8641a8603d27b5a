SPECIFICATION Spec
CONSTANTS
  u1 = u1
  s1 = s1
  Service = {u1}
  Unit = {u1}
  Ladder <- SystemLadder
  RelaxTime <- OneSecond
  RunModes = {"primary", "replica"}
  Faults = {"none", "action", "timer", "relaxing", "relaxRead", "relaxWrite", "path", "restart"}
  ProcessDies = TRUE
  SocketBuffer = 1
  MaxRvector = 6
  MaxPending = 2
INVARIANT TypeOK
PROPERTIES KeepsPromise MissesNothing PlatformRestartEndsLoop RelaxOnlyIfQuiet
