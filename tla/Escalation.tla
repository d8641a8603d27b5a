----------------------------- MODULE Escalation -----------------------------
(***************************************************************************)
(* What one instance promises (README.md, "How it works?"): every failure  *)
(* of a service with a recovery unit moves it one level up its ladder and  *)
(* schedules the action of that level; actions are taken in the order they *)
(* were scheduled; after a service level action the unit is watched, and   *)
(* only a watched unit, one that has not failed since, goes back to level  *)
(* 0. Levels outlive the process, scheduled actions do not.                *)
(***************************************************************************)
EXTENDS Naturals, Sequences

CONSTANTS
  Unit,           \* services with a recovery unit
  Missed,         \* what a fault may cost: "action" (with its watch), "watch",
                  \* "recovery"
  Watchable,      \* those of them that name a relaxation time
  LocalAction,    \* actions that leave the system running
  NoAction,       \* what ActionAt is where the ladder has no row
  ActionAt(_, _)  \* ActionAt(u, n): the action of u at level n

VARIABLES
  level,    \* how many failures of each unit count
  watched,  \* units that go back to level 0 if they stay quiet
  todo,     \* scheduled actions, oldest first
  up        \* whether the instance runs

vars == <<level, watched, todo, up>>

Init ==
  /\ level = [u \in Unit |-> 0]
  /\ watched = {}
  /\ todo = <<>>
  /\ up = TRUE

Scheduled(u, action) ==
  /\ todo' = IF action = NoAction THEN todo
             ELSE Append(todo, [unit |-> u, action |-> action])
  /\ \/ /\ u \in Watchable /\ action \in LocalAction
        /\ watched' = watched \cup {u}
     \/ /\ ~(u \in Watchable /\ action \in LocalAction) \/ "watch" \in Missed
        /\ watched' = watched \ {u}

Failure(u) ==
  /\ up
  /\ level' = [level EXCEPT ![u] = @ + 1]
  /\ \/ Scheduled(u, ActionAt(u, level[u] + 1))
     \/ "action" \in Missed /\ todo' = todo /\ watched' = watched \ {u}
  /\ UNCHANGED up

Act ==
  /\ up
  /\ todo # <<>>
  /\ todo' = Tail(todo)
  /\ UNCHANGED <<level, watched, up>>

Recovered(u) ==
  /\ up
  /\ u \in watched
  /\ level' = [level EXCEPT ![u] = 0]
  /\ watched' = watched \ {u}
  /\ UNCHANGED <<todo, up>>

Lapse(u) ==
  /\ "recovery" \in Missed
  /\ watched' = watched \ {u}
  /\ UNCHANGED <<level, todo, up>>

Ends ==
  /\ up
  /\ up' = FALSE
  /\ todo' = <<>>
  /\ watched' = {}

Stop == Ends /\ UNCHANGED level

(* The instance ends while it counts a failure: the level moves, no more.   *)
FailureUnfinished(u) == Ends /\ level' = [level EXCEPT ![u] = @ + 1]

(* A new instance gives every raised unit it can watch a new chance.        *)
Start ==
  /\ ~up
  /\ up' = TRUE
  /\ LET raised == {u \in Watchable : level[u] > 0}
     IN /\ watched' \in SUBSET raised
        /\ watched' = raised \/ "watch" \in Missed
  /\ UNCHANGED <<level, todo>>

Next ==
  \/ \E u \in Unit : Failure(u) \/ FailureUnfinished(u) \/ Recovered(u) \/ Lapse(u)
  \/ Act
  \/ Stop
  \/ Start

Spec == Init /\ [][Next]_vars

=============================================================================
