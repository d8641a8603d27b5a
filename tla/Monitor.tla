------------------------------- MODULE Monitor -------------------------------
(***************************************************************************)
(* Where Recovery's signals come from: how an instance learns which        *)
(* services systemd has and in what state. Entries are made from ListUnits *)
(* and from UnitNew, each with a proxy of its own that is built            *)
(* asynchronously. A proxy tells nothing before it is ready, and only a    *)
(* ready entry is in monitor->services, where the next UnitNew looks.      *)
(*                                                                         *)
(* The bus delivers to one process in order. Calls that block (the manager *)
(* proxy, ListUnits) get their answer ahead of the signals that wait for   *)
(* the main loop.                                                          *)
(***************************************************************************)
EXTENDS Integers, Sequences, SequencesExt, FiniteSetsExt, Orders

CONSTANTS
  Unit,         \* units systemd may load
  Service,      \* those whose name ends in ".service"
  Faults,       \* D-Bus calls that may fail: "manager", "list", "entry"
  Kills,        \* whether the process may stop and start again
  MaxEntries,   \* bound: no unit is loaded once so many entries were made or
                \* messages wait
  MaxPending,   \* bound: systemd stays quiet while so many messages wait
  MaxFailures   \* bound: a service fails so often under one process

ASSUME ServiceAssumption == Service \subseteq Unit /\ IsFiniteSet(Unit)
ASSUME SwitchesType ==
  /\ Faults \subseteq {"manager", "list", "entry"}
  /\ Kills \in BOOLEAN
  /\ MaxEntries \in Nat /\ MaxPending \in Nat /\ MaxFailures \in Nat

VARIABLES
  unit_state,   \* systemd: ActiveState of each unit, or "unloaded"; what a
                \* unit that is no service does is "other" here
  bus,          \* messages to the process not yet dispatched, oldest first
  phase,        \* "running" or "down"
  mqueue,       \* monitor->queue
  proxy,        \* whether monitor->proxy, the executor's and the checker's are set
  relaxing,     \* whether the relaxation timers of the journal were started
  entries,      \* every RmgMEntry of this process, in the order they were made
  failures,     \* history: how often each service failed under this process
  degraded      \* history: whether the manager's proxy or ListUnits failed

systemd == <<unit_state, failures>>
monitor == <<mqueue, proxy, relaxing>>
vars == <<unit_state, bus, phase, mqueue, proxy, relaxing, entries, failures,
          degraded>>

State == {"active", "failed", "other"}
Index == Nat \ {0}

(* "ready" is in monitor->services; "failed" was dropped. stale (history):  *)
(* the unit changed where the entry could not see it. crashes (history):    *)
(* DEVENT_SERVICE_CRASHED events the entry has pushed.                      *)
Entry == [unit : Service, state : State, stale : BOOLEAN, crashes : Nat,
          proxy : {"building", "answered", "ready", "failed"}]
BusMessage ==
  [type : {"UnitNew"}, unit : Unit]
  \cup [type : {"PropertiesChanged"}, entry : Index, state : State]
  \cup [type : {"ProxyReady"}, entry : Index, ok : BOOLEAN]
MonitorEvent == {"BUILD_PROXY", "READ_SERVICES"}

(* Messages are for entries that exist, and one answer waits for each entry *)
(* that was answered.                                                       *)
Answer(i) == {k \in DOMAIN bus : bus[k].type = "ProxyReady" /\ bus[k].entry = i}
TypeOK ==
  /\ unit_state \in [Unit -> State \cup {"unloaded"}]
  /\ bus \in Seq(BusMessage)
  /\ phase \in {"running", "down"}
  /\ mqueue \in Seq(MonitorEvent)
  /\ proxy \in BOOLEAN /\ relaxing \in BOOLEAN /\ degraded \in BOOLEAN
  /\ entries \in Seq(Entry)
  /\ failures \in [Service -> Nat]
  /\ \A k \in DOMAIN bus : bus[k].type # "UnitNew" => bus[k].entry \in DOMAIN entries
  /\ \A i \in DOMAIN entries :
       Cardinality(Answer(i)) = IF entries[i].proxy = "answered" THEN 1 ELSE 0

-----------------------------------------------------------------------------
(* systemd. A match rule exists for an entry from the moment its proxy is   *)
(* being built, for the manager once its proxy is there.                    *)

SystemdQuiet == Len(bus) < MaxPending

Matching(u) == {i \in DOMAIN entries : entries[i].unit = u /\ entries[i].proxy # "failed"}
Announce(u, st) ==
  bus' = bus \o [k \in DOMAIN Ascending(Matching(u)) |->
                   [type |-> "PropertiesChanged", state |-> st,
                    entry |-> Ascending(Matching(u))[k]]]

UnitLoads(u) ==
  /\ unit_state[u] = "unloaded"
  /\ SystemdQuiet
  /\ Len(entries) + Len(bus) < MaxEntries
  /\ unit_state' = [unit_state EXCEPT ![u] = "other"]
  /\ bus' = IF proxy THEN Append(bus, [type |-> "UnitNew", unit |-> u]) ELSE bus
  /\ UNCHANGED <<phase, monitor, entries, failures, degraded>>

(* Nothing in the process listens to UnitRemoved.                           *)
UnitUnloads(u) ==
  /\ unit_state[u] = "other"
  /\ unit_state' = [unit_state EXCEPT ![u] = "unloaded"]
  /\ UNCHANGED <<bus, phase, monitor, entries, failures, degraded>>

UnitChanges(u, st) ==
  /\ unit_state[u] \notin {"unloaded", st}
  /\ SystemdQuiet
  /\ st = "failed" => failures[u] < MaxFailures
  /\ unit_state' = [unit_state EXCEPT ![u] = st]
  /\ failures' = IF st = "failed" /\ phase = "running"
                 THEN [failures EXCEPT ![u] = @ + 1] ELSE failures
  /\ Announce(u, st)
  /\ UNCHANGED <<phase, monitor, entries, degraded>>

(* systemd also announces a unit whose state did not change, with its job   *)
(* for one.                                                                 *)
UnitAnnounced(u) ==
  /\ unit_state[u] # "unloaded"
  /\ Matching(u) # {}
  /\ SystemdQuiet
  /\ Announce(u, unit_state[u])
  /\ UNCHANGED <<systemd, phase, monitor, entries, degraded>>

ProxyAnswered(i, ok) ==
  /\ i \in DOMAIN entries
  /\ entries[i].proxy = "building"
  /\ ok \/ "entry" \in Faults
  /\ bus' = Append(bus, [type |-> "ProxyReady", entry |-> i, ok |-> ok])
  /\ entries' = [entries EXCEPT ![i].proxy = "answered"]
  /\ UNCHANGED <<systemd, phase, monitor, degraded>>

-----------------------------------------------------------------------------
(* The entries.                                                             *)

check_existent(u) ==
  \E i \in DOMAIN entries : entries[i].unit = u /\ entries[i].proxy = "ready"

Added(u) == u \in Service /\ ~check_existent(u)
NewEntry(u, st) ==
  [unit |-> u, state |-> st, crashes |-> 0, proxy |-> "building",
   stale |-> unit_state[u] \notin {st, "unloaded"}]

CrashedWhenFailed(old, new) == new = "failed"  \* mutant: each time it is told
Crashed(old, new) == old # "failed" /\ new = "failed"

StateIfReported(old, new) ==  \* mutant: only a state that is reported is kept
  IF new # "other" THEN new ELSE old
StateAfter(old, new) == new

(* A proxy that is not initialized drops what it is told. What happens to   *)
(* the event an entry pushes is Recovery's.                                 *)
on_properties_changed(i, new) ==
  LET e == entries[i]
  IN entries' = [entries EXCEPT ![i] =
       IF e.proxy = "ready"
       THEN [e EXCEPT !.state = StateAfter(e.state, new), !.stale = FALSE,
                      !.crashes = IF Crashed(e.state, new) THEN @ + 1 ELSE @]
       ELSE [e EXCEPT !.stale = (e.state # new)]]

(* on_manager_signal. A unit is taken to be dead when it is announced.      *)
on_unit_new(u) ==
  entries' = IF Added(u) THEN Append(entries, NewEntry(u, "other")) ELSE entries

callback_lost(i, ok) == entries' = entries  \* mutant: the monitor is not called
proxy_ready_async_cb(i, ok) ==
  entries' = [entries EXCEPT ![i].proxy = IF ok THEN "ready" ELSE "failed"]

(* One message from the bus.                                                *)
BusDispatch ==
  /\ phase = "running"
  /\ bus # <<>>
  /\ bus' = Tail(bus)
  /\ LET m == Head(bus)
     IN \/ m.type = "UnitNew" /\ on_unit_new(m.unit)
        \/ m.type = "PropertiesChanged" /\ on_properties_changed(m.entry, m.state)
        \/ m.type = "ProxyReady" /\ proxy_ready_async_cb(m.entry, m.ok)
  /\ UNCHANGED <<systemd, phase, monitor, degraded>>

-----------------------------------------------------------------------------
(* The monitor's own events.                                                *)

MonitorTakes(type) ==
  /\ phase = "running"
  /\ mqueue # <<>>
  /\ Head(mqueue) = type
  /\ mqueue' = Tail(mqueue)

(* The executor and the checker are handed the proxy in the same dispatch.  *)
monitor_build_proxy(ok) ==
  /\ MonitorTakes("BUILD_PROXY")
  /\ ok \/ "manager" \in Faults
  /\ proxy' = ok
  /\ degraded' = (degraded \/ ~ok)
  /\ UNCHANGED <<systemd, bus, phase, relaxing, entries>>

Loaded == {u \in Unit : unit_state[u] # "unloaded"}
ToAdd == SetToSeq({u \in Loaded : Added(u)})
monitor_read_services(ok) ==
  /\ MonitorTakes("READ_SERVICES")
  /\ ok \/ "list" \in Faults
  /\ entries' = IF proxy /\ ok
                THEN entries \o [k \in DOMAIN ToAdd |->
                                   NewEntry(ToAdd[k], unit_state[ToAdd[k]])]
                ELSE entries
  /\ relaxing' = TRUE
  /\ degraded' = (degraded \/ ~ok)
  /\ UNCHANGED <<systemd, bus, phase, proxy>>

-----------------------------------------------------------------------------
(* The process.                                                             *)

Stop ==
  /\ Kills
  /\ phase = "running"
  /\ phase' = "down"
  /\ bus' = <<>> /\ mqueue' = <<>> /\ entries' = <<>>
  /\ proxy' = FALSE /\ relaxing' = FALSE /\ degraded' = FALSE
  /\ failures' = [u \in Service |-> 0]
  /\ UNCHANGED unit_state

ReadBeforeBuild == <<"READ_SERVICES", "BUILD_PROXY">>  \* mutant
BuildOnly == <<"BUILD_PROXY">>  \* mutant
FirstEvents == <<"BUILD_PROXY", "READ_SERVICES">>

Start ==
  /\ phase = "down"
  /\ phase' = "running"
  /\ mqueue' = FirstEvents
  /\ UNCHANGED <<systemd, bus, proxy, relaxing, entries, degraded>>

-----------------------------------------------------------------------------

Init ==
  /\ unit_state \in [Unit -> State \cup {"unloaded"}]
  /\ \A u \in Unit \ Service : unit_state[u] \in {"other", "unloaded"}
  /\ bus = <<>>
  /\ phase = "running"
  /\ mqueue = FirstEvents
  /\ proxy = FALSE /\ relaxing = FALSE
  /\ entries = <<>>
  /\ failures = [u \in Service |-> 0]
  /\ degraded = FALSE

Next ==
  \/ \E u \in Unit : UnitLoads(u) \/ UnitUnloads(u)
  \/ \E u \in Service : UnitAnnounced(u)
  \/ \E u \in Service, st \in State : UnitChanges(u, st)
  \/ \E i \in DOMAIN entries, ok \in BOOLEAN : ProxyAnswered(i, ok)
  \/ BusDispatch
  \/ \E ok \in BOOLEAN : monitor_build_proxy(ok) \/ monitor_read_services(ok)
  \/ Stop
  \/ Start

Spec == Init /\ [][Next]_vars

(* The loop dispatches what waits, and the bus answers.                     *)
Fairness ==
  /\ WF_vars(BusDispatch)
  /\ WF_vars(\E ok \in BOOLEAN : monitor_build_proxy(ok) \/ monitor_read_services(ok))
  /\ \A i \in 1 .. MaxEntries + Cardinality(Service) :
       WF_vars(\E ok \in BOOLEAN : ProxyAnswered(i, ok))

FairSpec == Spec /\ Fairness

-----------------------------------------------------------------------------
(* Properties.                                                              *)

(* One entry never reports one failure twice, whatever systemd announces    *)
(* and whenever the entry began to look (on_properties_changed).            *)
EachEntryReportsOnce ==
  \A i \in DOMAIN entries : entries[i].crashes <= failures[entries[i].unit]

(* "When a service is failing [...] the rvector is incremented by 1"        *)
(* (README.md:21): there is at most one report for one failure.             *)
Reports(u) ==
  SumFunctionOnSet([i \in DOMAIN entries |-> entries[i].crashes],
                   {i \in DOMAIN entries : entries[i].unit = u})
ReportedOnce == \A u \in Service : Reports(u) <= failures[u]

(* Once an entry has been told everything, it has the state systemd has,    *)
(* but for what happened before its proxy was ready and was not told again. *)
Told(i) ==
  \A k \in DOMAIN bus : bus[k].type = "PropertiesChanged" => bus[k].entry # i
EntryFollowsUnit ==
  \A i \in DOMAIN entries :
    LET e == entries[i]
    IN e.proxy = "ready" /\ ~e.stale /\ Told(i)
         => \/ e.state = unit_state[e.unit]
            \/ e.state = "other" /\ unit_state[e.unit] = "unloaded"

(* No loaded service is overlooked between the list and the signals: the    *)
(* manager is listened to before it is asked (rmg_application_new posts the *)
(* two events in this order), so once both are done and the signals were    *)
(* seen the service has an entry, if neither call failed.                   *)
NoneOverlooked ==
  (phase = "running" /\ mqueue = <<>> /\ ~degraded) =>
    \A s \in Service :
      \/ unit_state[s] = "unloaded"
      \/ \E k \in DOMAIN bus : bus[k].type = "UnitNew" /\ bus[k].unit = s
      \/ \E i \in DOMAIN entries : entries[i].unit = s

(* A service that is there is watched in the end. A failed proxy leaves it  *)
(* unwatched until it is loaded again.                                      *)
ServiceWatched ==
  \A s \in Service :
    (phase = "running" /\ unit_state[s] # "unloaded")
      ~> \/ check_existent(s) \/ degraded
         \/ \E i \in DOMAIN entries : entries[i].unit = s /\ entries[i].proxy = "failed"
         \/ unit_state[s] = "unloaded" \/ phase = "down"

=============================================================================
