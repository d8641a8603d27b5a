------------------------------ MODULE MCFriends ------------------------------
(* Rows for a process and a service elsewhere and for a process and a       *)
(* service at home; one action is unknown and one name has white space. A   *)
(* longer delay is listed before a shorter one, and two are equal.          *)
EXTENDS Friends

CONSTANTS p1, s1, host, other, mine

RowOf(subject, spaced, context, type, action, delay) ==
  [service |-> mine, friend |-> [subject |-> subject, spaced |-> spaced],
   context |-> context, type |-> type, action |-> action, delay |-> delay]

MCTable == <<
  RowOf(p1, FALSE, other, "process", "start", 2),
  RowOf(p1, FALSE, other, "process", "stop", 1),
  RowOf(p1, FALSE, host, "process", "unknown", 1),
  RowOf(s1, FALSE, host, "service", "restart", 0),
  RowOf(s1, FALSE, other, "service", "signal", 0),
  RowOf(s1, FALSE, other, "service", "start", 0),
  RowOf(s1, TRUE, other, "service", "restart", 0)>>
MCNews ==
  {[type |-> "process", subject |-> p1, context |-> other],
   [type |-> "process", subject |-> p1, context |-> host],
   [type |-> "service", subject |-> s1, context |-> host],
   [type |-> "service", subject |-> s1, context |-> other]}
=============================================================================
