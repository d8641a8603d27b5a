------------------------------- MODULE MCUnits -------------------------------
(* Two services, two files; texts with retries, a bad action, friends, a    *)
(* syntax error and a missing path.                                         *)
EXTENDS Units, TLC

CONSTANTS s1, s2, a1, a2, b1, bad, pathless, nameless, p1, p2, host, other

Do(type, retry) == [type |-> type, retry |-> retry, reset |-> FALSE]
Friend(p, context) ==
  [friend |-> p, context |-> context, type |-> "process", action |-> "restart"]
Unit(s, actions, fs) ==
  [service |-> s, actions |-> actions, friends |-> fs, wellformed |-> TRUE,
   paths |-> TRUE]

A1 == Unit(s1, <<Do("resetService", 2), Do("invalid", 1), Do("platformRestart", 1)>>,
           <<Friend(p1, NoContext)>>)
MCContent ==
  a1 :> A1 @@
  a2 :> Unit(s1, <<Do("resetPublicData", 0), Do("contextRestart", 3)>>, <<Friend(p2, other)>>) @@
  b1 :> Unit(s2, <<Do("disableService", 1)>>, <<>>) @@
  bad :> [A1 EXCEPT !.wellformed = FALSE] @@
  pathless :> [A1 EXCEPT !.paths = FALSE] @@
  nameless :> [A1 EXCEPT !.service = NoService]
=============================================================================
