----------------------------- MODULE MCRecovery -----------------------------
(* Small instances of Recovery: one unit, short ladders.                   *)
EXTENDS Recovery

CONSTANTS u1, s1

Act(type, min, max, reset) ==
  [type |-> type, tlmin |-> min, tlmax |-> max, reset |-> reset]

(* Actions that leave the rvector to the relaxation timer.                  *)
SystemLadder == u1 :> <<
  Act("resetPublicData", 1, 2, FALSE), Act("disableService", 2, 3, FALSE),
  Act("contextRestart", 3, 4, FALSE), Act("platformRestart", 4, 5, FALSE),
  Act("factoryReset", 5, 6, FALSE)>>
(* A reset mark ends the ladder early: its row is asked for at the rvector  *)
(* where the first ends, the rows behind only after a handling that was cut *)
(* short.                                                                   *)
ContextLadder == u1 :> <<
  Act("resetPrivateData", 1, 2, FALSE), Act("contextRestart", 2, 3, TRUE),
  Act("resetService", 3, 4, FALSE), Act("contextRestart", 4, 5, TRUE),
  Act("factoryReset", 5, 6, FALSE)>>
DataLadder ==
  u1 :> <<Act("resetService", 1, 2, FALSE), Act("resetPublicData", 2, 4, TRUE)>>
ReplicaLadder == u1 :> <<
  Act("resetService", 1, 2, FALSE), Act("contextRestart", 2, 3, FALSE),
  Act("factoryReset", 3, 4, FALSE)>>

OneSecond == [u \in Unit |-> 1]
=============================================================================
