------------------------------ MODULE Recovery ------------------------------
(***************************************************************************)
(* One recoverymanager instance: from systemd's report that a service      *)
(* failed, through the dispatcher and the executor queues, to the recovery *)
(* action, and back to a clean state when the relaxation timer expires.    *)
(*                                                                         *)
(* Everything runs on one GLib main loop, so an action below is one source *)
(* dispatch and is atomic; what interleaves is the ORDER of dispatches:    *)
(* D-Bus signals, the dispatcher queue, the executor queue and the timers. *)
(* The rvector is kept in SQLite and survives the process, everything else *)
(* of the instance does not.                                               *)
(***************************************************************************)
EXTENDS Integers, Sequences, SequencesExt

CONSTANTS
  Service,      \* services systemd reports on
  Unit,         \* those of them with a recovery unit in the journal
  Ladder,       \* Ladder[u]: rows of the Actions table for u, in rowid order
  RelaxTime,    \* RelaxTime[u]: Services.TIMEOUT, 0 if the unit names none
  RunModes,     \* how the instance may be configured
  Faults,       \* points where one handling may see SQLite or D-Bus fail
  ProcessDies,  \* whether the process may be killed outside meditation
  SocketBuffer, \* messages the socket to the primary takes unread
  MaxRvector,   \* bound: a service at this rvector, or with this many timers,
                \* does not fail again
  MaxPending    \* bound: systemd stays quiet while this many events wait

ServiceLevel ==
  {"resetService", "resetPublicData", "resetPrivateData", "disableService"}
SystemLevel == {"contextRestart", "platformRestart", "factoryReset"}
ActionType == {"ignoreService"} \cup ServiceLevel \cup SystemLevel

Row == [type : ActionType, tlmin : Nat, tlmax : Nat, reset : BOOLEAN]

FaultPoint ==
  {"none", "lookup", "increment", "action", "flag", "reset", "timer",
   "relaxing", "relaxRead", "relaxWrite", "path", "restart"}

ASSUME UnitAssumption == Unit \subseteq Service
ASSUME LadderType == Ladder \in [Unit -> Seq(Row)]
(* What the unit parser produces, whatever rows an INSERT then drops: the  *)
(* trigger intervals are in order and share at most their end points.      *)
ASSUME LadderOrdered ==
  \A u \in Unit : \A i \in DOMAIN Ladder[u] :
    /\ 1 <= Ladder[u][i].tlmin
    /\ Ladder[u][i].tlmin < Ladder[u][i].tlmax
    /\ \A j \in DOMAIN Ladder[u] :
         i < j => Ladder[u][i].tlmax <= Ladder[u][j].tlmin
ASSUME RelaxTimeType == RelaxTime \in [Unit -> Nat]
ASSUME RunModesType == RunModes \subseteq {"primary", "replica"}
ASSUME FaultsType == Faults \subseteq FaultPoint
ASSUME BoundsType ==
  /\ ProcessDies \in BOOLEAN
  /\ SocketBuffer \in Nat /\ MaxRvector \in Nat /\ MaxPending \in Nat

VARIABLES
  unit_state,   \* systemd: ActiveState; "other" is neither active nor failed
  signals,      \* PropertiesChanged signals not yet delivered
  active_state, \* mentry->active_state, the last state the monitor saw
  dqueue,       \* dispatcher->queue
  equeue,       \* executor->queue
  rvector,      \* Services.RVECTOR
  timers,       \* relaxation timers of each unit, in the order they attached
  phase,        \* the main loop, see Phase
  asked,        \* system-level requests the primary has issued since boot
  g_run_mode,   \* "primary" or "replica", from the configuration
  link,         \* replica: "up" until the primary is lost, then "broken"
  toPrimary     \* replica: messages written and not yet read by the primary

systemd == <<unit_state, signals>>
ipc == <<g_run_mode, link, toPrimary>>
vars == <<unit_state, signals, active_state, dqueue, equeue, rvector, timers,
          phase, asked, g_run_mode, link, toPrimary>>

State == {"active", "failed", "other"}

(* enter_meditation raises SIGTERM inside the executor's dispatch: the loop *)
(* ends after the current iteration ("quitting"), in which the sources      *)
(* attached after the executor still run, the dispatcher for one event      *)
(* ("unwinding" once it has).                                               *)
Phase == {"running", "quitting", "unwinding", "down"}

Request == {"containerShutdown", "platformRestart", "factoryReset"}
(* "crashed" is a history field: a crash was handled since the timer began. *)
Timer == [rvector : Nat, left : Nat, crashed : BOOLEAN]
DEvent == [type : {"crashed", "restarted"}, service : Service]
EEvent == [type : ServiceLevel \cup SystemLevel, service : Unit,
           context : {"null", "host"}]
Message == [type : {"serviceFailed"} \cup SystemLevel, service : Service]

(* Every queue holds what its reader expects and no timer runs below zero.  *)
TypeOK ==
  /\ unit_state \in [Service -> State]
  /\ signals \in Seq([service : Service, state : State])
  /\ active_state \in [Service -> State]
  /\ dqueue \in Seq(DEvent)
  /\ equeue \in Seq(EEvent)
  /\ rvector \in [Unit -> Nat]
  /\ timers \in [Unit -> Seq(Timer)]
  /\ phase \in Phase
  /\ asked \in SUBSET Request
  /\ g_run_mode \in RunModes
  /\ link \in {"up", "broken"}
  /\ toPrimary \in Seq(Message)

-----------------------------------------------------------------------------
(* The journal queries that pick the action for an rvector.                 *)

SelectedFirst(u, rv, i) ==  \* mutant: the first matching row is the answer
  /\ i \in DOMAIN Ladder[u]
  /\ Ladder[u][i].tlmin <= rv /\ rv <= Ladder[u][i].tlmax
  /\ \A j \in DOMAIN Ladder[u] : j < i => Ladder[u][j].tlmax < rv

(* "? BETWEEN TLMIN AND TLMAX" may return two rows, and sqlite_callback     *)
(* stores each over the one before: the last matching row is the answer.    *)
Selected(u, rv, i) ==
  /\ i \in DOMAIN Ladder[u]
  /\ Ladder[u][i].tlmin <= rv /\ rv <= Ladder[u][i].tlmax
  /\ \A j \in DOMAIN Ladder[u] : i < j => rv < Ladder[u][j].tlmin

HasAction(u, rv) == \E i \in DOMAIN Ladder[u] : Selected(u, rv, i)
SelectedRow(u, rv) ==
  Ladder[u][CHOOSE i \in DOMAIN Ladder[u] : Selected(u, rv, i)]

service_action(u, rv) ==
  IF HasAction(u, rv) THEN SelectedRow(u, rv).type ELSE "invalid"
action_reset_after(u, rv) == HasAction(u, rv) /\ SelectedRow(u, rv).reset

-----------------------------------------------------------------------------
(* systemd and the primary, outside this instance.                          *)

(* D-Bus delivers a state change only to a process that is there to get it. *)
ChangeState(s, st) ==
  /\ unit_state' = [unit_state EXCEPT ![s] = st]
  /\ signals' = IF phase = "down" \/ unit_state[s] = st THEN signals
                ELSE Append(signals, [service |-> s, state |-> st])

SystemdQuiet == Len(signals) + Len(dqueue) + Len(equeue) < MaxPending

ServiceFails(s) ==
  /\ unit_state[s] # "failed"
  /\ SystemdQuiet
  /\ s \in Unit => rvector[s] < MaxRvector /\ Len(timers[s]) < MaxRvector
  /\ ChangeState(s, "failed")
  /\ UNCHANGED <<active_state, dqueue, equeue, rvector, timers, phase, asked, ipc>>

ServiceStarts(s) ==
  /\ unit_state[s] = "other"
  /\ SystemdQuiet
  /\ ChangeState(s, "active")
  /\ UNCHANGED <<active_state, dqueue, equeue, rvector, timers, phase, asked, ipc>>

(* Stopped, or restarted by an operator or by systemd's own policy.         *)
ServiceLeaves(s) ==
  /\ unit_state[s] # "other"
  /\ SystemdQuiet
  /\ ChangeState(s, "other")
  /\ UNCHANGED <<active_state, dqueue, equeue, rvector, timers, phase, asked, ipc>>

PrimaryReads ==
  /\ g_run_mode = "replica" /\ link = "up"
  /\ toPrimary # <<>>
  /\ toPrimary' = Tail(toPrimary)
  /\ UNCHANGED <<systemd, active_state, dqueue, equeue, rvector, timers, phase,
                 asked, g_run_mode, link>>

(* manager_source_callback fails to read and drops its source; nothing ever *)
(* connects again, and what the primary had not read is gone.               *)
PrimaryLost ==
  /\ g_run_mode = "replica" /\ link = "up" /\ phase # "down"
  /\ link' = "broken"
  /\ toPrimary' = <<>>
  /\ UNCHANGED <<systemd, active_state, dqueue, equeue, rvector, timers, phase,
                 asked, g_run_mode>>

-----------------------------------------------------------------------------
(* Replica to primary.                                                      *)

(* rmg_manager_send returns select()'s 0 when the buffer stays full: the    *)
(* message is not written and the status reads RMG_STATUS_OK.               *)
Writable == Len(toPrimary) < SocketBuffer
SendOk == link = "up"
manager_send(type, s) ==
  toPrimary' = IF SendOk /\ Writable
               THEN Append(toPrimary, [type |-> type, service |-> s])
               ELSE toPrimary

-----------------------------------------------------------------------------
(* The monitor entry.                                                       *)

ReportActive(old, new) ==  \* mutant: a crash while starting is not one
  CASE old = "active" /\ new = "failed" -> <<"crashed">>
    [] old # "active" /\ new = "active" -> <<"restarted">>
    [] OTHER -> <<>>

Report(old, new) ==
  CASE old # "failed" /\ new = "failed" -> <<"crashed">>
    [] old # "active" /\ new = "active" -> <<"restarted">>
    [] OTHER -> <<>>

on_properties_changed ==
  /\ phase # "down"
  /\ signals # <<>>
  /\ LET s   == Head(signals).service
         new == Head(signals).state
         report == Report(active_state[s], new)
     IN /\ active_state' = [active_state EXCEPT ![s] = new]
        /\ dqueue' = dqueue \o
             [k \in DOMAIN report |-> [type |-> report[k], service |-> s]]
  /\ signals' = Tail(signals)
  /\ UNCHANGED <<unit_state, equeue, rvector, timers, phase, asked, ipc>>

-----------------------------------------------------------------------------
(* The dispatcher. A primary also tells its replicas of the failure and a   *)
(* replica its primary; the replicas' side is not part of this module.      *)

Marked(u) == [i \in DOMAIN timers[u] |-> [timers[u][i] EXCEPT !.crashed = TRUE]]

TimerOfOldRvector(u, rv) ==  \* mutant: started before the increment is stored
  [rvector |-> rv - 1, left |-> rv * RelaxTime[u], crashed |-> FALSE]

(* rmg_relaxtimer_trigger: rvector * timeout seconds from now.              *)
NewTimer(u, rv) ==
  [rvector |-> rv, left |-> rv * RelaxTime[u], crashed |-> FALSE]

(* The rvector goes back to 0 with the action itself, no timer is needed.   *)
Zeroing(action, reset) ==
  \/ action = "ignoreService"
  \/ reset /\ action \in ServiceLevel \cup {"contextRestart", "platformRestart"}

EventWithoutContext(action, u) ==  \* mutant: the event is copied when pushed
  [type |-> action, service |-> u, context |-> "null"]

(* The event is shared with the executor, not copied: by the time the       *)
(* executor looks, do_process_service_crash_event has set its context name. *)
ExecutorEvent(action, u) ==
  [type |-> action, service |-> u, context |-> "host"]

CrashUncounted(s, f) ==
  /\ s \notin Unit \/ f \in {"lookup", "increment"}
  /\ timers' = IF s \in Unit THEN [timers EXCEPT ![s] = Marked(s)] ELSE timers
  /\ UNCHANGED <<rvector, equeue, toPrimary>>

CrashWithoutAction(s, f) ==
  /\ s \in Unit
  /\ f = "action"
  /\ rvector' = [rvector EXCEPT ![s] = @ + 1]
  /\ timers' = [timers EXCEPT ![s] = Marked(s)]
  /\ UNCHANGED <<equeue, toPrimary>>

PushedAny == ActionType \cup {"invalid"}  \* mutant: where there is no row too
Pushed == ServiceLevel \cup SystemLevel

CrashHandled(s, f) ==
  /\ s \in Unit
  /\ f \in {"none", "flag", "reset", "timer"}
  /\ LET rv     == rvector[s] + 1
         action == service_action(s, rv)
         reset  == action_reset_after(s, rv) /\ f # "flag"
         arm    == /\ action \in ServiceLevel /\ ~reset
                   /\ RelaxTime[s] > 0 /\ f # "timer"
     IN /\ rvector' = [rvector EXCEPT ![s] =
                         IF Zeroing(action, reset) /\ f # "reset" THEN 0 ELSE rv]
        /\ equeue' = IF action \in Pushed
                     THEN Append(equeue, ExecutorEvent(action, s))
                     ELSE equeue
        /\ timers' = [timers EXCEPT ![s] =
                        IF arm THEN Append(Marked(s), NewTimer(s, rv))
                        ELSE Marked(s)]
  /\ IF g_run_mode = "replica" THEN manager_send("serviceFailed", s)
     ELSE UNCHANGED toPrimary

do_process_service_crash_event(s, f) ==
  CrashUncounted(s, f) \/ CrashWithoutAction(s, f) \/ CrashHandled(s, f)

CrashNext(u) == dqueue # <<>> /\ Head(dqueue) = [type |-> "crashed", service |-> u]

DispatcherStep(f) ==
  /\ phase \in {"running", "quitting"}
  /\ dqueue # <<>>
  /\ dqueue' = Tail(dqueue)
  /\ phase' = IF phase = "quitting" THEN "unwinding" ELSE phase
  /\ \/ /\ Head(dqueue).type = "crashed"
        /\ do_process_service_crash_event(Head(dqueue).service, f)
     \/ /\ Head(dqueue).type = "restarted"
        /\ UNCHANGED <<rvector, equeue, timers, toPrimary>>
  /\ UNCHANGED <<systemd, active_state, asked, g_run_mode, link>>

-----------------------------------------------------------------------------
(* The executor.                                                            *)

ExecutorTakesAll(types) ==  \* mutant: what waits behind the event goes with it
  /\ phase = "running"
  /\ equeue # <<>>
  /\ Head(equeue).type \in types
  /\ equeue' = <<>>
  /\ UNCHANGED <<active_state, dqueue, rvector, timers, g_run_mode, link>>

ExecutorTakes(types) ==
  /\ phase = "running"
  /\ equeue # <<>>
  /\ Head(equeue).type \in types
  /\ equeue' = Tail(equeue)
  /\ UNCHANGED <<active_state, dqueue, rvector, timers, g_run_mode, link>>

RestartUnit(s, f) ==
  IF f = "restart" THEN UNCHANGED systemd ELSE ChangeState(s, "other")

do_process_service_restart_event(f) ==
  /\ ExecutorTakes({"resetService"})
  /\ RestartUnit(Head(equeue).service, f)
  /\ UNCHANGED <<phase, asked, toPrimary>>

(* The wipe command is run and its exit code ignored; only a failed lookup  *)
(* of the path keeps the service from being restarted.                      *)
do_process_service_reset_data_event(f) ==
  /\ ExecutorTakes({"resetPublicData", "resetPrivateData"})
  /\ IF f = "path" THEN UNCHANGED systemd
     ELSE RestartUnit(Head(equeue).service, f)
  /\ UNCHANGED <<phase, asked, toPrimary>>

do_process_service_disable_event ==
  /\ ExecutorTakes({"disableService"})
  /\ UNCHANGED <<systemd, phase, asked, toPrimary>>

(* A primary looks up the container, asks for it and goes on; a replica     *)
(* passes the request to its primary and meditates if the send reported     *)
(* success.                                                                 *)
ContextRequest(f) ==
  IF Head(equeue).context = "null" THEN {"platformRestart"}
  ELSE IF f = "path" THEN {} ELSE {"containerShutdown"}

do_process_context_restart_event(f) ==
  /\ ExecutorTakes({"contextRestart"})
  /\ \/ /\ g_run_mode = "primary"
        /\ asked' = asked \cup ContextRequest(f)
        /\ UNCHANGED <<phase, toPrimary>>
     \/ /\ g_run_mode = "replica"
        /\ manager_send("contextRestart", Head(equeue).service)
        /\ phase' = IF SendOk THEN "quitting" ELSE phase
        /\ UNCHANGED asked
  /\ UNCHANGED systemd

(* Platform restart and factory reset meditate whatever became of the       *)
(* command or of the message.                                               *)
SystemRequest(type) ==
  /\ ExecutorTakes({type})
  /\ IF g_run_mode = "primary"
     THEN asked' = asked \cup {type} /\ UNCHANGED toPrimary
     ELSE manager_send(type, Head(equeue).service) /\ UNCHANGED asked
  /\ phase' = "quitting"
  /\ UNCHANGED systemd

do_process_platform_restart_event == SystemRequest("platformRestart")
do_process_factory_reset_event == SystemRequest("factoryReset")

ExecutorStep(f) ==
  \/ do_process_service_restart_event(f)
  \/ do_process_service_reset_data_event(f)
  \/ do_process_service_disable_event
  \/ do_process_context_restart_event(f)
  \/ do_process_platform_restart_event
  \/ do_process_factory_reset_event

-----------------------------------------------------------------------------
(* The relaxation timers.                                                   *)

(* Timers that are due together are dispatched in the order they attached.  *)
Due(u, i) ==
  /\ i \in DOMAIN timers[u]
  /\ timers[u][i].left = 0
  /\ \A j \in DOMAIN timers[u] : j < i => timers[u][j].left > 0

AtLeastCurrent(u, t) == rvector[u] >= t.rvector  \* mutant
StillCurrent(u, t) == rvector[u] = t.rvector

relaxtimer_callback(u, i, f) ==
  /\ phase # "down"
  /\ Due(u, i)
  /\ rvector' = IF /\ StillCurrent(u, timers[u][i])
                   /\ f \notin {"relaxRead", "relaxWrite"}
                THEN [rvector EXCEPT ![u] = 0] ELSE rvector
  /\ timers' = [timers EXCEPT ![u] = RemoveAt(@, i)]
  /\ UNCHANGED <<systemd, active_state, dqueue, equeue, phase, asked, ipc>>

RelaxTimerExpires(u, f) == \E i \in DOMAIN timers[u] : relaxtimer_callback(u, i, f)

(* Time passes; a due timer may wait while the loop is busy elsewhere.      *)
Sooner(t) == [t EXCEPT !.left = IF @ > 0 THEN @ - 1 ELSE 0]

Tick ==
  /\ phase # "down"
  /\ \E u \in Unit : \E i \in DOMAIN timers[u] : timers[u][i].left > 0
  /\ timers' = [u \in Unit |->
                  [i \in DOMAIN timers[u] |-> Sooner(timers[u][i])]]
  /\ UNCHANGED <<systemd, active_state, dqueue, equeue, rvector, phase, asked, ipc>>

-----------------------------------------------------------------------------
(* The process.                                                             *)

ProcessEnds ==
  /\ phase' = "down"
  /\ signals' = <<>> /\ dqueue' = <<>> /\ equeue' = <<>>
  /\ timers' = [u \in Unit |-> <<>>]
  /\ UNCHANGED <<unit_state, active_state, asked, ipc>>

Exits ==
  /\ \/ phase \in {"quitting", "unwinding"}
     \/ phase = "running" /\ ProcessDies
  /\ ProcessEnds
  /\ UNCHANGED rvector

(* The crash handler stores the increment and the reset to 0 with an UPDATE   *)
(* each, and no transaction spans them: killed inside, it leaves the first or *)
(* both, and the event it pushed is gone.                                     *)
KilledInHandler(u) ==
  /\ ProcessDies /\ phase \in {"running", "quitting"}
  /\ CrashNext(u)
  /\ LET rv == rvector[u] + 1
     IN \/ rvector' = [rvector EXCEPT ![u] = rv]
        \/ /\ Zeroing(service_action(u, rv), action_reset_after(u, rv))
           /\ rvector' = [rvector EXCEPT ![u] = 0]
  /\ ProcessEnds

no_relax_timers(f) ==  \* mutant: timers do not come back with the process
  timers' = [u \in Unit |-> <<>>]

(* A fresh timer for every raised rvector, as far as the query gets and but   *)
(* for the units whose trigger fails.                                         *)
monitor_start_relax_timers(f) ==
  LET raised == {u \in Unit : rvector[u] > 0 /\ RelaxTime[u] > 0}
  IN \E started \in SUBSET raised :
       /\ started = raised \/ f \in {"relaxing", "timer"}
       /\ timers' = [u \in Unit |-> IF u \in started
                                    THEN <<NewTimer(u, rvector[u])>> ELSE <<>>]

(* monitor_read_services takes the states systemd lists, then the timers.     *)
Starts(f) ==
  /\ phase = "down"
  /\ phase' = "running"
  /\ active_state' = unit_state
  /\ monitor_start_relax_timers(f)
  /\ link' = "up" /\ toPrimary' = <<>>
  /\ UNCHANGED <<systemd, dqueue, equeue, rvector, asked, g_run_mode>>

(* The platform comes back from the restart the primary asked for.          *)
Reboots ==
  /\ phase = "down"
  /\ "platformRestart" \in asked
  /\ unit_state' = [s \in Service |-> "active"]
  /\ asked' = {}
  /\ UNCHANGED <<signals, active_state, dqueue, equeue, rvector, timers, phase, ipc>>

-----------------------------------------------------------------------------

Init ==
  /\ unit_state = [s \in Service |-> "active"]
  /\ signals = <<>>
  /\ active_state = unit_state
  /\ dqueue = <<>>
  /\ equeue = <<>>
  /\ rvector = [u \in Unit |-> 0]
  /\ timers = [u \in Unit |-> <<>>]
  /\ phase = "running"
  /\ asked = {}
  /\ g_run_mode \in RunModes
  /\ link = "up"
  /\ toPrimary = <<>>

Next ==
  \/ \E s \in Service : ServiceFails(s) \/ ServiceStarts(s) \/ ServiceLeaves(s)
  \/ PrimaryReads
  \/ PrimaryLost
  \/ on_properties_changed
  \/ \E f \in Faults : DispatcherStep(f)
  \/ \E f \in Faults : ExecutorStep(f)
  \/ \E u \in Unit, f \in Faults : RelaxTimerExpires(u, f)
  \/ Tick
  \/ Exits
  \/ \E u \in Unit : KilledInHandler(u)
  \/ \E f \in Faults : Starts(f)
  \/ Reboots

Spec == Init /\ [][Next]_vars

(* The main loop dispatches what is ready, and time goes on. Nothing obliges *)
(* a service to fail or start, or anyone to start this process again.        *)
Fairness ==
  /\ WF_vars(on_properties_changed)
  /\ WF_vars(DispatcherStep("none"))
  /\ WF_vars(ExecutorStep("none"))
  /\ \A u \in Unit : WF_vars(RelaxTimerExpires(u, "none"))
  /\ WF_vars(Tick)
  /\ WF_vars(phase # "running" /\ Exits)

FairSpec == Spec /\ Fairness

-----------------------------------------------------------------------------
(* Properties.                                                              *)

(* A ladder on which only the relaxation timer brings the rvector back to 0. *)
OnlyTimersReset ==
  \A u \in Unit : \A i \in DOMAIN Ladder[u] :
    ~Zeroing(Ladder[u][i].type, Ladder[u][i].reset)

(* The instance keeps the promise of Escalation: every counted failure moves  *)
(* its unit one level and queues the action of that level, the executor takes *)
(* them in order, and a unit is back at level 0 only if it was watched and    *)
(* quiet. Holds on ladders where only timers reset, as long as every crash is *)
(* counted; a fault costs what Missing says and nothing else.                 *)
Missing ==
  {m \in {"action", "watch", "recovery"} :
     CASE m = "action"   -> "action" \in Faults
       [] m = "watch"    -> Faults \cap {"timer", "relaxing"} # {}
       [] m = "recovery" -> Faults \cap {"relaxRead", "relaxWrite"} # {}}
Watched ==
  {u \in Unit : \E i \in DOMAIN timers[u] :
     timers[u][i].rvector = rvector[u] /\ ~timers[u][i].crashed}
Todo == [k \in DOMAIN equeue |->
           [unit |-> equeue[k].service, action |-> equeue[k].type]]
Promise == INSTANCE Escalation WITH
  Missed <- Missing, NoAction <- "invalid",
  Watchable <- {u \in Unit : RelaxTime[u] > 0}, LocalAction <- ServiceLevel,
  ActionAt <- service_action,
  level <- rvector, watched <- Watched, todo <- Todo, up <- (phase # "down")
KeepsPromise == Promise!Spec

(* A handling in which no query and no call fails keeps the promise in full,  *)
(* whatever went missing before and whatever is killed or lost: no action, no *)
(* watch and no recovery (do_process_service_crash_event,                     *)
(* monitor_start_relax_timers, relaxtimer_callback).                          *)
Whole == INSTANCE Escalation WITH
  Missed <- {}, NoAction <- "invalid",
  Watchable <- {u \in Unit : RelaxTime[u] > 0}, LocalAction <- ServiceLevel,
  ActionAt <- service_action,
  level <- rvector, watched <- Watched, todo <- Todo, up <- (phase # "down")
NothingFails ==
  \/ DispatcherStep("none") \/ Starts("none")
  \/ \E u \in Unit : RelaxTimerExpires(u, "none")
MissesNothing == [][NothingFails => [Whole!Next]_(Whole!vars)]_vars

(* A service is considered recovered only if no crash of it was handled       *)
(* since the timer that says so began: comparing the rvectors must be enough  *)
(* to tell (relaxtimer_callback). README.md:22.                               *)
RelaxOnlyIfQuiet ==
  [][\A u \in Unit, f \in Faults : \A i \in DOMAIN timers[u] :
       relaxtimer_callback(u, i, f) /\ rvector'[u] # rvector[u]
         => ~timers[u][i].crashed]_vars

ResetRow(u, i) == Zeroing(Ladder[u][i].type, Ladder[u][i].reset)

(* The handling of a crash of u is cut short after the increment: by a kill,  *)
(* or by a failing query or UPDATE, where the same outcome with none failing  *)
(* does not count as cut short.                                               *)
AfterIncrement == {"action", "flag", "reset"}
CutShort(u) ==
  /\ CrashNext(u)
  /\ KilledInHandler(u) \/ \E f \in Faults \cap AfterIncrement : DispatcherStep(f)
  /\ ~\E f \in Faults \ AfterIncrement : DispatcherStep(f)

(* Whatever crashes, timers, failures and restarts come, a rvector below the  *)
(* level of a reset marked row stays below it, so that no row behind is ever  *)
(* selected, unless the handling of that very crash was cut short after the   *)
(* increment (do_process_service_crash_event).                                *)
BoundedByReset ==
  [][\A u \in Unit : \A i \in DOMAIN Ladder[u] :
       ResetRow(u, i) /\ rvector[u] < Ladder[u][i].tlmin
         => rvector'[u] < Ladder[u][i].tlmin \/ CutShort(u)]_vars

(* The platform is never restarted under a loop that goes on taking actions.  *)
PlatformRestartEndsLoop ==
  [][("platformRestart" \in asked' /\ "platformRestart" \notin asked)
       => phase' = "quitting"]_vars

(* A replica goes into meditation for a context restart only if its primary   *)
(* was really asked ("dispatch the actions to the primary", README.md:14).    *)
MeditateOnlyIfRequested ==
  [][(\E f \in Faults : do_process_context_restart_event(f)) /\ phase' = "quitting"
       => toPrimary' # toPrimary]_vars

(* A raised rvector does not stay: the service crashes again, is considered   *)
(* recovered, or the process goes. Not so for a replica that lost its primary *)
(* and cannot restart its context.                                            *)
RvectorMoves ==
  \A u \in Unit :
    <>[](phase = "running" /\ link = "up" /\ rvector[u] > 0)
      => []<><<rvector'[u] # rvector[u]>>_vars

(* "When the service terminates with failure and a recovery unit is available *)
(* [...] the recovery manager will take the actions" (README.md:6): no        *)
(* service stays failed under an instance that did not find it failed when it *)
(* started, unless the action needs a primary that is gone.                   *)
FailureIsActedOn ==
  \A u \in Unit :
    (phase = "running" /\ unit_state[u] = "failed" /\ active_state[u] # "failed")
      ~> (unit_state[u] # "failed" \/ phase # "running" \/ link = "broken")

=============================================================================
