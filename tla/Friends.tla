------------------------------- MODULE Friends -------------------------------
(***************************************************************************)
(* Acting for a friend: the news that a process or a service crashed goes  *)
(* through the dispatcher's and the executor's queue, is matched with the  *)
(* rows of the Friends table, and each row that matches gets a timer whose *)
(* expiry is one call to systemd on the row's service.                     *)
(*                                                                         *)
(* How news travel between the instances is Federation's, how rows come    *)
(* into the table is Units'. An entry of a queue or a timer carries the    *)
(* number of its crash, which the program does not have.                   *)
(***************************************************************************)
EXTENDS Integers, Sequences, SequencesExt, Orders

CONSTANTS
  Subject,   \* processes and services that may be friends
  Context,   \* where they run
  Host,      \* the context of this instance
  Service,   \* services of this instance that have friends
  Table,     \* the Friends table: its rows, in rowid order
  News,      \* the crashes this instance may hear of
  Faults,    \* what may fail: "query", "proxy"
  Kills,     \* whether the process may stop and start again
  MaxNews    \* bound: crashes heard of

(* spaced: the unit has the name with white space around it, which the      *)
(* parser keeps and the query compares.                                     *)
Name == [subject : Subject, spaced : BOOLEAN]
FriendType == {"unknown", "process", "service"}
FriendAction == {"unknown", "start", "stop", "restart", "signal"}
Row == [service : Service, friend : Name, context : Context, type : FriendType,
        action : FriendAction, delay : Nat]
Crash == [type : {"process", "service"}, subject : Subject, context : Context]

ASSUME HostAssumption == Host \in Context
ASSUME TableType == Table \in Seq(Row)
ASSUME NewsType == News \subseteq Crash
ASSUME SwitchesType ==
  Faults \subseteq {"query", "proxy"} /\ Kills \in BOOLEAN /\ MaxNews \in Nat

VARIABLES
  dqueue,  \* dispatcher->queue
  equeue,  \* executor->queue
  timers,  \* attached friend timers, in the order they were attached
  proxy,   \* whether executor->sd_manager_proxy is set
  phase,   \* "starting", before the manager's proxy was tried, "running", "down"
  heard,   \* history: the crashes this instance was told of, oldest first
  calls,   \* history: calls on friends' behalf, oldest first
  lost     \* history: calls that will not be made, by an error or a stop

vars == <<dqueue, equeue, timers, proxy, phase, heard, calls, lost>>

RowId == DOMAIN Table
Call == [crash : Nat, row : RowId]
Timer == [crash : Nat, row : RowId, left : Nat]

(* Queues hold crashes that were heard of, timers and calls rows of the     *)
(* table.                                                                   *)
TypeOK ==
  /\ heard \in Seq(News)
  /\ dqueue \in Seq(DOMAIN heard) /\ equeue \in Seq(DOMAIN heard)
  /\ timers \in Seq(Timer)
  /\ calls \in Seq(Call)
  /\ lost \subseteq Call
  /\ proxy \in BOOLEAN
  /\ phase \in {"starting", "running", "down"}

-----------------------------------------------------------------------------
(* News.                                                                    *)

(* on_manager_signal of the crash monitor, process_message of a client or   *)
(* of the manager: each makes an event of what it was told.                 *)
Heard(n) ==
  /\ phase # "down"
  /\ Len(heard) < MaxNews
  /\ heard' = Append(heard, n)
  /\ dqueue' = Append(dqueue, Len(heard'))
  /\ UNCHANGED <<equeue, timers, proxy, phase, calls, lost>>

OwnContext(n) == n.context = Host  \* mutant: own processes are ignored as well
OwnService(n) == n.type = "service" /\ n.context = Host

(* do_friend_process_crash_event, do_friend_service_failed_event            *)
DispatcherStep ==
  /\ phase # "down"
  /\ dqueue # <<>>
  /\ dqueue' = Tail(dqueue)
  /\ equeue' = IF OwnService(heard[Head(dqueue)]) THEN equeue
               ELSE Append(equeue, Head(dqueue))
  /\ UNCHANGED <<timers, proxy, phase, heard, calls, lost>>

-----------------------------------------------------------------------------
(* The executor.                                                            *)

MatchesAnywhere(r, n) ==  \* mutant: the context is not asked for
  r.friend = [subject |-> n.subject, spaced |-> FALSE] /\ r.type = n.type
Matches(r, n) ==
  /\ r.friend = [subject |-> n.subject, spaced |-> FALSE]
  /\ r.context = n.context
  /\ r.type = n.type

LastListedFirst ==  \* mutant: rows are put before those found already
  [n \in News |-> Reverse(Ascending({i \in RowId : Matches(Table[i], n)}))]
services_for_friend ==
  [n \in News |-> Ascending({i \in RowId : Matches(Table[i], n)})]

OneSecondLess(c) ==  \* mutant: no delay wraps around
  LET found == services_for_friend[heard[c]]
  IN [k \in DOMAIN found |->
        [crash |-> c, row |-> found[k], left |-> Table[found[k]].delay - 1]]
foreach_service_friend(c) ==
  LET found == services_for_friend[heard[c]]
  IN [k \in DOMAIN found |->
        [crash |-> c, row |-> found[k], left |-> Table[found[k]].delay]]

(* When the query fails the news are gone.                                  *)
do_process_friend_crash_event(ok) ==
  LET c == Head(equeue)
      found == foreach_service_friend(c)
  IN /\ phase # "down"
     /\ equeue # <<>>
     /\ ok \/ "query" \in Faults
     /\ equeue' = Tail(equeue)
     /\ timers' = IF ok THEN timers \o found ELSE timers
     /\ lost' = IF ok THEN lost
                ELSE lost \cup {[crash |-> c, row |-> found[k].row] : k \in DOMAIN found}
     /\ UNCHANGED <<dqueue, proxy, phase, heard, calls>>

(* The monitor tries once to build the proxy and hands it to the executor.  *)
rmg_executor_set_proxy(ok) ==
  /\ phase = "starting"
  /\ ok \/ "proxy" \in Faults
  /\ proxy' = ok
  /\ phase' = "running"
  /\ UNCHANGED <<dqueue, equeue, timers, heard, calls, lost>>

-----------------------------------------------------------------------------
(* The friend timers.                                                       *)

(* The loop dispatches the timers that are due in the order they were       *)
(* attached, whichever was due first.                                       *)
Due(i) ==
  /\ i \in DOMAIN timers
  /\ timers[i].left = 0
  /\ \A j \in DOMAIN timers : j < i => timers[j].left > 0

StaysAttached(i) == timers  \* mutant: the source is not removed
Detached(i) == RemoveAt(timers, i)

(* Without a proxy nothing is called, and a signal is even logged as sent.  *)
Callable(r) == proxy /\ r.action # "unknown"

friendtimer_callback(i) ==
  LET call == [crash |-> timers[i].crash, row |-> timers[i].row]
  IN /\ phase # "down"
     /\ Due(i)
     /\ timers' = Detached(i)
     /\ IF Callable(Table[call.row])
        THEN calls' = Append(calls, call) /\ UNCHANGED lost
        ELSE lost' = lost \cup {call} /\ UNCHANGED calls
     /\ UNCHANGED <<dqueue, equeue, proxy, phase, heard>>

FriendTimerExpires == \E i \in DOMAIN timers : friendtimer_callback(i)

Sooner(t) == IF t.left > 0 THEN [t EXCEPT !.left = @ - 1] ELSE t

(* Time passes; a due timer may wait while the loop is busy elsewhere.      *)
Tick ==
  /\ phase # "down"
  /\ \E i \in DOMAIN timers : timers[i].left > 0
  /\ timers' = [i \in DOMAIN timers |-> Sooner(timers[i])]
  /\ UNCHANGED <<dqueue, equeue, proxy, phase, heard, calls, lost>>

-----------------------------------------------------------------------------
(* The process. What waits for a friend is nowhere but in its memory.       *)

Waiting ==
  {[crash |-> timers[i].crash, row |-> timers[i].row] : i \in DOMAIN timers}
  \cup {w \in [crash : Range(dqueue) \cup Range(equeue), row : RowId] :
          /\ Matches(Table[w.row], heard[w.crash])
          /\ ~OwnService(heard[w.crash])}

Stop ==
  /\ Kills
  /\ phase # "down"
  /\ phase' = "down"
  /\ lost' = lost \cup Waiting
  /\ dqueue' = <<>> /\ equeue' = <<>> /\ timers' = <<>>
  /\ proxy' = FALSE
  /\ UNCHANGED <<heard, calls>>

Start ==
  /\ phase = "down"
  /\ phase' = "starting"
  /\ UNCHANGED <<dqueue, equeue, timers, proxy, heard, calls, lost>>

-----------------------------------------------------------------------------

Init ==
  /\ dqueue = <<>> /\ equeue = <<>> /\ timers = <<>>
  /\ proxy = FALSE
  /\ phase = "starting"
  /\ heard = <<>> /\ calls = <<>> /\ lost = {}

Next ==
  \/ \E n \in News : Heard(n)
  \/ DispatcherStep
  \/ \E ok \in BOOLEAN : do_process_friend_crash_event(ok)
  \/ \E ok \in BOOLEAN : rmg_executor_set_proxy(ok)
  \/ FriendTimerExpires
  \/ Tick
  \/ Stop
  \/ Start

Spec == Init /\ [][Next]_vars

(* The loop dispatches what is ready and time goes on.                      *)
Fairness ==
  /\ WF_vars(DispatcherStep)
  /\ WF_vars(\E ok \in BOOLEAN : do_process_friend_crash_event(ok))
  /\ WF_vars(\E ok \in BOOLEAN : rmg_executor_set_proxy(ok))
  /\ WF_vars(FriendTimerExpires)
  /\ WF_vars(Tick)

FairSpec == Spec /\ Fairness

-----------------------------------------------------------------------------
(* Properties.                                                              *)

(* "A friend is a process or service in the service context or another      *)
(* context for which the current service should take action in case of a    *)
(* crash", "but the service friends are ignored in the same context"        *)
(* (sample.recovery:29). Rows are read as their author meant them, but for  *)
(* the white space around a name, which keeps a row from ever matching.     *)
Wanted(r, n) ==
  /\ r.friend.subject = n.subject /\ ~r.friend.spaced
  /\ r.context = n.context /\ r.type = n.type
  /\ ~(n.type = "service" /\ n.context = Host)

(* Each crash this instance hears of has one call for every row that wants  *)
(* it and none for any other: made, still to come, or lost with its reason. *)
CallsOf(w) == {k \in DOMAIN calls : calls[k] = w}
TimersOf(w) ==
  {k \in DOMAIN timers : timers[k].crash = w.crash /\ timers[k].row = w.row}
QueuedIn(q, w) == {k \in DOMAIN q : q[k] = w.crash}
EachCrashCallsOnce ==
  \A w \in [crash : DOMAIN heard, row : RowId] :
    Wanted(Table[w.row], heard[w.crash]) =>
      Cardinality(CallsOf(w)) + Cardinality(TimersOf(w))
        + Cardinality(QueuedIn(dqueue, w)) + Cardinality(QueuedIn(equeue, w))
        = IF w \in lost THEN 0 ELSE 1
NoOtherCalls ==
  \A w \in [crash : DOMAIN heard, row : RowId] :
    (CallsOf(w) \cup TimersOf(w)) # {} => Wanted(Table[w.row], heard[w.crash])

(* An action with no longer a delay than another of the same crash is never *)
(* overtaken by it, unless it is listed later and the loop came so late     *)
(* that both were due (foreach_service_friend, friendtimer_callback).       *)
CalledFor(t) == calls' = Append(calls, [crash |-> t.crash, row |-> t.row])
DelaysKept ==
  [][\A i, j \in DOMAIN timers :
       /\ CalledFor(timers[i])
       /\ j # i /\ timers[j].crash = timers[i].crash
       /\ Table[timers[j].row].delay <= Table[timers[i].row].delay
       => timers[j].row > timers[i].row /\ timers[j].left = 0]_vars

(* In the end the service acts for its friend, or the call was lost.        *)
FriendActs ==
  \A w \in [crash : 1 .. MaxNews, row : RowId] :
    (w.crash \in DOMAIN heard /\ Wanted(Table[w.row], heard[w.crash]))
      ~> (CallsOf(w) # {} \/ w \in lost)

=============================================================================
