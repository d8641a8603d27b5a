----------------------------- MODULE MCReplicas -----------------------------
(* A host and two containers, in one of two courses of events. In the first *)
(* c2 stays down and every name is read as it was sent; c1 and the host may *)
(* come and go twice. In the second all are started once, c1 fails, asks    *)
(* for a platform restart and may go, and its name may be misread; the news *)
(* then circulate, so sockets and queues are the small ones of the cfg.     *)
EXTENDS MCFederation

VARIABLE course

WellRead ==
  INSTANCE Federation WITH ReadAs <- AsSent, SocketBuffer <- 2, MaxQueue <- 4

Restarts == WellRead!Next /\ starts'[c2] = 0

Misread ==
  /\ Next
  /\ crashes' = 0
  /\ \A n \in Node : starts'[n] <= 1
  /\ \A n \in {host, c2} : phase'[n] = "down" => starts'[n] = 0
  /\ failed' = failed \/ wanted' = {[type |-> "platformRestart", context |-> c1]}

EitherCourse ==
  /\ course \in {"restarts", "misread"}
  /\ Init
  /\ [][/\ \/ course = "restarts" /\ Restarts
           \/ course = "misread" /\ Misread
        /\ UNCHANGED course]_<<vars, course>>
  /\ WellRead!Fairness
=============================================================================
