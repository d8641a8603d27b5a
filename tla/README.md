# Verification of recoverymanager

TLA+ models of `recoverymanager`, the daemon that watches the services of a
systemd system, counts their failures and takes increasingly destructive
recovery actions. The models are translated from the C code under `source/`;
TLC checks them on small instances and TLAPS proves some of their properties
for every instance. `PROJECT.json` maps every definition to the lines it
stands for. Paths below are relative to the repository.

## The system

One process per context: a *primary* on the host, a *replica* in every
container. Each process is one GLib main loop. There are no threads, so a
source dispatch is atomic; the difficulty is the order in which dispatches
happen, what each left in a queue for another, and what a kill forgets: a kill
may also strike inside a dispatch, between two statements to the journal.

| Component | State | Operations | Talks to |
|---|---|---|---|
| service monitor (`rmg-monitor.c`, `rmg-mentry.c`) | one entry per service with the last active state; the systemd proxy | UnitNew, PropertiesChanged, ListUnits at start, asynchronous proxy creation, relaxation timers at start | systemd over D-Bus; pushes dispatcher events |
| dispatcher (`rmg-dispatcher.c`, `rmg-devent.c`) | event queue, server or manager | handle a crash: count it, pick an action, push it to the executor, start a relaxation timer, tell the other instances; handle events of other instances | journal, executor, server or manager |
| executor (`rmg-executor.c`) | event queue | the seven actions, in a primary and in a replica; friend events; "meditation" (SIGTERM to itself) | systemd, LXC, shell commands, manager |
| relaxation timers (`rmg-relaxtimer.c`) | one timer per service level action, with the rvector it was started with | expire: zero the rvector if it still has that value | journal |
| journal (`rmg-journal.c`) | SQLite: Services (hash, rvector, timeout), Actions (interval of rvectors, type, reset mark), Friends | queries by service and rvector, set rvector, remove and add units | everyone |
| unit ingestion (`rmg-journal.c`, `rmg-jentry.c`) | the unit being parsed | read the directory, parse, compare hashes, replace | journal |
| friends (`rmg-friendtimer.c`, `rmg-executor.c`) | one timer per pending friend action | on a crash in another context, act on a service after a delay | systemd |
| federation (`rmg-server.c`, `rmg-client.c`, `rmg-manager.c`, `rmg-message.c`) | clients of the primary with their context name; a replica's connection | accept, read, send, disconnect | the other instances over a UNIX socket |
| crash monitor (`rmg-crashmonitor.c`) | a D-Bus proxy | NewCrash becomes a dispatcher event | dispatcher |
| integrity checker (`rmg-checker.c`) | one timer | logs the units with `checkstart` | journal |
| start and stop (`rmg-application.c`, `rmg-main.c`, `rmg-sdnotify.c`) | run mode | construct, detect the run mode, run the loop, quit on SIGTERM | all |

A service's **rvector** counts its failures. The unit's actions divide the
rvectors into intervals; the action whose interval holds the rvector is taken.
A relaxation timer of `rvector * relaxtime` seconds zeroes the rvector if it
has not moved. The rvector is in the journal and survives the process; timers,
queues and last known states do not.

What makes each component correct:

- *dispatcher, executor, timers together*: every failure moves its service one
  level, the action of that level is queued and taken in order, a service that
  had a service level action goes back to level 0 only if it stayed
  quiet, across kills and restarts (`Escalation`); a reset mark ends a ladder,
  unless the handling of a crash is cut short; nothing runs on after a platform
  restart.
- *monitor*: every loaded service is watched in the end, its entry has the
  state systemd has, and every transition to `failed` is reported once.
- *ingestion*: a service's rows form an ordered ladder with each action
  repeated as often as the unit says; an unchanged unit keeps its rvector; the
  friends of a service are those of its present unit.
- *friends*: a crash elsewhere leads to one call for each friend row that wants
  it, after the row's delay, and to no other.
- *federation*: requests keep kind and context, name a context that exists,
  survive the requester; news arrive once; the client list matches the connected
  replicas.

Hard behaviours, with the line where each bites, are the `hazards` of
`PROJECT.json`: stale timers that find their rvector again, queries that fail
halfway through a crash, events shared between two queues, kills between two
SQL statements, the two rows that match at an interval boundary, messages sent
just before the sender exits, full sockets, names read longer than they were
sent, stale connections of a restarted
replica, proxies that are not ready when the signal comes, delays that run out
while the loop is elsewhere.

## Modules

| Module | Models | Run through |
|---|---|---|
| `Escalation` | the promise of one instance: levels, scheduled actions, watched units | `Recovery!Promise` |
| `Recovery` | one instance, from the D-Bus signal to the action and back to rvector 0 | `MCRecovery` |
| `Units` | ingestion of unit files into the journal | `MCUnits` |
| `Federation` | a primary, its replicas and the sockets between them | `MCFederation`, `MCReplicas` |
| `Monitor` | how an instance learns which services there are and how they are | `MCMonitor` |
| `Friends` | from the news of a crash elsewhere to the delayed call on a service | `MCFriends` |
| `RecoveryProofs`, `EscalationProofs`, `UnitsProofs`, `FederationProofs`, `MonitorProofs`, `FriendsProofs` | theorems about the modules they are named for; `EscalationProofs` has the refinement | |
| `ClientsProofs` | the theorem on the primary's connections in `Federation` | |
| `SequenceLemmas` | facts the proofs share: sequences, sums over them, induction on a set of numbers | |
| `Orders` | the elements of a finite set of numbers in ascending order, for the order in which GLib and SQLite go through a list | |

How they meet: a report of `Monitor` is a message of `Recovery`'s `signals`;
the ladders of `Recovery` and the table of `Friends` are the rows `Units`
leaves; what `Recovery` sends and `Friends` hears travels through `Federation`.
Each module takes its neighbour's outcome as any value the neighbour can
produce, so what holds in it holds in the composition.

### Recovery

`unit_state` and `signals` are systemd's; `active_state` is the entry's last
known state; `dqueue` and `equeue` are the two `GAsyncQueue`s; `rvector` is the
journal column; `timers[u]` are the attached relaxation timers in attach order.
`g_run_mode` is set when the process starts and stays, as its configuration does.
`phase` is the main loop: `raise(SIGTERM)` inside an executor dispatch makes it
"quitting", an iteration in which the dispatcher may still handle one event
("unwinding" after it), then "down". `link` and `toPrimary` are a replica's
socket.

An action is one dispatch: `on_properties_changed`, `DispatcherStep` (with
`do_process_service_crash_event` whole: hash lookup, increment, the two action
queries, the switch, the timer and the message to the primary), one action for
each executor event, `relaxtimer_callback`. `Exits` and `Starts` are the
process; `Tick` is time. The constant `Faults` names the queries and calls that
may fail: a step takes one fault, "none" included, because an error returns
early from the handler or is logged. A start takes one too: the query for the
raised rvectors ("relaxing") may end after any of them, and a timer ("timer") may
not be started.

Only the crash handler writes to the journal more than once, and what a kill
inside it leaves is `KilledInHandler`: the increment, or the increment and the
reset to 0, the action forgotten with the queue it was pushed to. A kill before
the first or after the last statement, and in any other dispatch, leaves what
`Exits` before or after the dispatch leaves.

Abstractions: a timer's delay is counted in ticks and timers that are due
together fire in attach order, as GLib does for equal deadlines; `delay =
rvector * timeout` does not overflow; substates are dropped, since a change of
substate alone raises no event; the event's context name is a field of the
executor event with the value it has when the executor looks
(`ExecutorEvent`); the crash marks on timers are history.

### Escalation

`level` is the rvector, `todo` the executor's queue, `watched` the units with a
timer that can still find its rvector, and `up` that there is a process. `Missed`
is what the faults at hand may cost and all they may cost: with no fault it is
empty, and every failure has its action and, after a service level action, its
watch. A failing action query may cost an action with its watch, a failing timer
or start query a watch, a failing read or write at an expiry the recovery.
`FailureUnfinished` is the instance that ends while it counts a failure.

### Units

One step per SQL statement, since `rmg_journal_reload_units` opens no
transaction, and one per parsed `<action>`. `Kills` lets the process disappear
between any two, `SqlFails` lets any statement fail; an assertion of
`rmg_journal_add_service` is the state "aborted". A text's hash is the text:
collisions of the hash are left out. Files are opened in any order, as
`g_dir_read_name` gives them. Friend rows follow the same path as action rows,
one INSERT each; a friend is kept whatever its type and action, and one without
a context gets this host's. Paths (beyond being there), arguments, delays and
`checkstart` are copied and never compared, and are left out. Text between
elements is white space to GMarkup: `parser_text_data` takes it for the last
element opened, and the model counts only the text inside an element.

`Recovery` assumes of its ladders what `Units!RowsInOrder` states, which is
proved as `LaddersInOrder`: the two modules meet there.

### Federation

A connection is a record in `backlog` or `clients` with the messages the
primary has not read; `inbox[r]` is the other direction. A socket whose peer
closed can still be drained. A send finds no room, gives up and reports
success, or fails when the other end is gone. `ServiceCrash` stands for
`do_process_service_crash_event`, with any action as the outcome of the ladder.
A quitting loop may dispatch any number of other sources before it exits, more
than the one iteration of the code.

Context names cross a socket as the wire format has them: `rmg_message_write`
sends them without their end, `rmg_message_read` reads them into a block of just
that size, and `g_strdup` then goes on to the next NUL. `ReadAs[n]` is the set of
names that `n` can be read as; it has `n`, and a name that was read can be sent
and read again. `Received` is the step of a name over a socket, in both
directions, the descriptor's included. A name that leaves room in its heap block
has `ReadAs[n] = {n}`; one that fills it (24 characters, for one) picks up foreign
bytes. Names of services and processes suffer the same and are left out, as is a
message that the kernel cuts in two.

`MaxQueue` bounds the two event queues of an instance in the runs: a source that
would push to a full queue is not dispatched until there is room, which leaves
every order of dispatches that never has more waiting.

### Monitor

`entries` are the `RmgMEntry` objects of a process in the order they were made;
one is in `monitor->services` only when its proxy is "ready", and a proxy that
is "building" has a match rule already but drops what it is told. `bus` is the
connection: it delivers in order, one message per dispatch, and the calls that
block (`monitor_build_proxy`, ListUnits) overtake what waits there. `mqueue` is
the monitor's own event queue, filled once by `rmg_application_new`. systemd
loads and unloads units, changes their state and announces it, and also
announces a state that did not change. What it announces while the entry's proxy
is building is lost to the entry (`stale`). That systemd sends signals at all needs
some client to have called its `Subscribe`; the program does not, and the model
assumes that one did. `stale`, `crashes`, `failures` and `degraded` are history.

### Friends

`dqueue` and `equeue` hold the numbers of the crashes the instance heard of,
which the program does not number; `timers` are the friend timers in attach
order with the time they have left, and the loop dispatches those that are due
in that order. `proxy` and `phase` follow the one attempt to build the manager's
proxy, which the executor gets from the monitor. `calls` is what systemd was
asked; `lost` names each call that will not be made because a query failed,
there was no proxy, the action is unknown or the process stopped. A row whose
friend has white space around its name, as in `config/sample.recovery`, is
stored so and matches nothing; the table of the run has one. The query has no
`ORDER BY` and SQLite answers by row number, so `services_for_friend` is the
matching rows in ascending order. What a call does to
the service is systemd's and comes back through `Monitor`.

## Runs

Violation runs check one sentence of the repository's documentation that the
code does not keep; see `findings` for the sentence and the code.

| Run | Question | Instance and why it is enough |
|---|---|---|
| `ladder` | does an instance implement `Escalation`, with nothing missed in a handling where nothing fails, end at a platform restart, and relax only quiet services? | a primary or a replica that may lose its primary; one unit with rows of both levels; rvector past the last row; two events waiting, so that a crash is queued behind an action; queries, timers and calls may fail, at start too; kills between and inside dispatches |
| `live` | is every failure acted on, every raised rvector lowered or moved, and does a reset mark end the ladder unless the handling of a crash is cut short? | a fair replica that may be killed, inside the handler too, and may lose its primary; two marked rows, the first asked for at the boundary rvector two rows match, with rows behind each; reading the mark or storing the reset may fail; a second service without a unit |
| `aba` (violation) | is a service that crashed never taken for quiet? | ladder with a reset mark: two crashes, then a third that meets the first timer |
| `unsent` (violation) | does a replica meditate only if its primary was asked? | full socket of one message |
| `units` | are rows an ordered ladder that repeats actions as the unit says, are friends those of the unit, and does an unchanged unit keep its level? | two files, two services, texts that differ in actions and friends, an unknown action, a retry of 0, a syntax error, a text without paths and one without a service; any statement may fail and any step be the last |
| `partial` (violation) | does a reload leave every action of its unit in the journal? | one file, one kill |
| `federation` | client list, provenance of requests, and delivery of the last request of a replica | two courses (`MCReplicas`): a host and a container, both started twice, so that a stale and a live connection meet, two messages per socket, one crash, one process crash; and a host and two containers, where one fails, asks and may go, has a name that may be read longer than it was sent, and the other is told of it, one message per socket, one event per queue |
| `relabelled` (violation) | does the primary take the action the replica asked for? | one crash |
| `newsloop` (violation) | is a failure heard once? | one crash on the host |
| `monitor` | is every loaded service watched in the end, does its entry follow it, and does no entry report a failure twice? | one service and one unit that is none; two entries for the service, two messages waiting, two failures, every call may fail, kills |
| `doubled` (violation) | is a failure reported once? | the same without faults and kills, one failure |
| `friends` | one call for each row that wants a crash, no other, in the order of delays as far as the loop is in time? | rows for a process and a service elsewhere and at home, an unknown action, a name with white space, rows for one crash with a longer delay listed first and with equal delays; three crashes, failing queries and proxy, kills |

Bounds are named in the modules (`MaxRvector`, `MaxPending`, `MaxFailures`,
`MaxCrashes`, `MaxStarts`, `MaxHeard`, `MaxQueue`, `MaxEntries`, `MaxNews`) and bound
the environment or a history counter: how often services fail and processes start,
not what the code may do next. `MaxQueue` alone makes a source wait. `Federation`
runs stop when the starts are used up, so they do not check for deadlock; nothing
in the code blocks on a peer, sends give up after `select`'s timeout.

With two replicas, or with a misread name, the news of one failure circulates
(`newsloop`), an executor that is slow to be dispatched gets a queue of any length
and the state space is infinite: `MaxQueue` cuts it in the second course of
`federation`; the theorems on `Federation` have no need of it. In the first course
nothing circulates and no queue gets to the bound, and that is the one
`RequestServed` is about: in the second no crash asks for a factory reset.

`MCReplicas` puts two instances of `Federation` side by side, chosen by a variable
that no step changes, because the properties are the same for both.

### Fairness

Weak fairness for each event source of a loop: GLib dispatches every ready
source of the default priority in each iteration, so a source that stays ready
is served. Timers expire and time passes. A quitting loop exits. No fairness is
given to systemd, to services, to kills, or to starts: the service unit in
`config/` has no `Restart=`. Clients of the primary have fairness each, since each
is a source of its own. In `Monitor` the bus answers each request for a proxy,
with an error if it must; in `Friends` the loop serves both queues and the
timers that are due. Liveness is checked in `live` (`RvectorMoves`,
`FailureIsActedOn`), `federation` (`RequestServed`), `monitor`
(`ServiceWatched`) and `friends` (`FriendActs`); `doubled` stops when its one
failure is used up and does not check for deadlock.

## Proofs

| Theorem | States | From |
|---|---|---|
| `RecoveryProofs!TypeCorrect` | `Spec => []TypeOK` | the constants' assumptions |
| `RecoveryProofs!LadderEndsAtReset` | `Spec => BoundedByReset` | the constants' assumptions |
| `RecoveryProofs!RelaxedWhenQuiet` | `Spec => RelaxOnlyIfQuiet` | `OnlyTimersReset`, and `Faults` without "lookup" and "increment" |
| `RecoveryProofs!LoopEndsWithPlatformRestart` | `Spec => PlatformRestartEndsLoop` | the constants' assumptions |
| `EscalationProofs!ImplementsEscalation` | `Spec => KeepsPromise` | `OnlyTimersReset`, and `Faults` without "lookup" and "increment" |
| `UnitsProofs!UnitTypeCorrect` | `Spec => []TypeOK` | the constants' assumptions |
| `UnitsProofs!LaddersInOrder` | `Spec => []RowsInOrder` | the constants' assumptions |
| `UnitsProofs!FriendsReplaced` | `Spec => []FriendsOfUnit` | the constants' assumptions |
| `FederationProofs!TypeCorrect` | `Spec => []TypeOK` | the constants' assumptions |
| `FederationProofs!RequestsHaveCause` | `Spec => []RequestsTraced` | the constants' assumptions |
| `ClientsProofs!ClientsMatch` | `Spec => []ClientsMatchReplicas` | the constants' assumptions |
| `UnitsProofs!RetriesAreKept` | `Spec => []RetriesKept` | the constants' assumptions |
| `UnitsProofs!LevelIsKept` | `Spec => LevelKept` | the constants' assumptions |
| `MonitorProofs!TypeCorrect` | `Spec => []TypeOK` | the constants' assumptions |
| `MonitorProofs!FollowsItsUnit` | `Spec => []EntryFollowsUnit` | the constants' assumptions |
| `MonitorProofs!ReportsOnce` | `Spec => []EachEntryReportsOnce` | the constants' assumptions |
| `MonitorProofs!OverlooksNone` | `Spec => []NoneOverlooked` | the constants' assumptions |
| `FriendsProofs!TypeCorrect` | `Spec => []TypeOK` | the constants' assumptions |
| `FriendsProofs!NoOthers` | `Spec => []NoOtherCalls` | the constants' assumptions |
| `FriendsProofs!CallsOnce` | `Spec => []EachCrashCallsOnce` | the constants' assumptions |
| `FriendsProofs!KeepsDelays` | `Spec => DelaysKept` | the constants' assumptions |

*TypeCorrect* of `Recovery` is inductive as it stands.

*LadderEndsAtReset* follows step by step from `TypeOK`. Only a step that handles a
crash can raise a rvector, by one. If that takes it to the first rvector of a row
that resets, that row is `Selected`, because later rows begin at its end or after
(`LadderOrdered`), so a step without a fault after the increment zeroes the
rvector; a step that does not is a kill in the handler or one of those faults,
and `CutShort`. A fault that happens to leave what no fault would leave does not
count as one. That exception is a real one: `config/sample.recovery:16` has actions
after a reset-marked one ignored, and a kill between the two UPDATEs of
`do_process_service_crash_event` is enough for the next crash to take one.

*RelaxedWhenQuiet* is an action property. It needs `TimersFit`: a timer that
no crash marked holds the current rvector and a marked one holds less, as every
counted crash raises the rvector and only an expiry lowers it, to 0, below
every timer. A timer that finds its own rvector is therefore unmarked. The
premises are the finding `aba` seen from the other side: with a ladder row that
zeroes the rvector, or a crash that is handled and not counted, `TimersFit`
fails.

*UnitTypeCorrect* needs that a reload's pending files exist and that the text
in hand is one (`Typed`), or the file opened would be no text.

*LaddersInOrder*: the rows in the journal are in order because they are copied
in order from a parsed entry that is (`Ordered`): the entry's actions are in
order and below its rvector, and while the rows are being inserted those of
the service end before the next action begins.

*LoopEndsWithPlatformRestart* rests on `ContextNamed`: an event the executor
finds has its service's context, because the dispatcher writes it in the
dispatch that pushed the event.

*ImplementsEscalation* shows that Init is the abstract Init and that every step
is an abstract step or leaves levels, watches, todo and up alone. Two steps are
hard. A counted crash must move its unit one level, queue that level's action
and leave the unit watched only if the new timer was armed: the marks it leaves
on older timers take them out of `Watched` (`CrashRefined`). An expiry that
zeroes the rvector must be one Escalation allows, so its timer must be unmarked:
this is `TimersFit` again, and the rest of the timers must keep the unit's watch
as it was (`ExpiryRefined`). A kill inside the crash handler is the abstract
`FailureUnfinished` or, before the increment, `Stop`; on these ladders there is no
reset to 0 in the handler. A start that gets to some of the raised units only is an abstract
start that misses a watch, which `Escalation` allows only if a query or a timer
can fail at all: what is missed is bounded by `Faults`, for each kind of loss.

*FriendsReplaced*: while a unit is replaced its service has no hash, so nothing
is promised; the hash is stored when the friends of the old unit are gone, and
those that are inserted after come from the parsed entry (`OwnFriends`).

*FederationProofs* has one inductive invariant for both theorems. Its queues and
sockets hold only what is `Backed`: news, or what is `Traced` to a request in
`wanted`, of that type or the context restart `process_message` makes of a
platform restart, in a context that can be read for the requester's. A name can
be read more than once on its way, which is why `ReadAs` is reflexive and
transitive (`ReadAsType`). A replica signs the requests it sends with its own
name, so the events in its executor's queue must be its own
(`ReplicasAskForThemselves`), which in turn needs that a replica hears nothing but
news. The theorems hold for any number of replicas and any `ReadAs`.

*ClientsMatch*: the property counts a replica's open connections in the backlog
and the clients together, and a count is not inductive by itself. The invariant
`Matched` says where they are: a replica whose link is up has exactly one, in
the backlog or among the clients, and any other has none (`LinkHasConnection`);
each is under its replica's name, as read, or still has that replica's descriptor as its
first message, and no other descriptor ever comes (`ConnectionsNamed`); and a
process that is down has neither a link nor connections (`DownHasNone`), or a
replica that starts again could meet its former connection open.
`LiveConnections` then turns the one position into the cardinality.

*RetriesAreKept*: a row does not know which action of its text it comes from, so
the invariant `Sourced` says it: each row of a service, and each action of the
parsed entry, begins one rvector after the retries of the actions before some
action k of the text and ends after k's own, and the entry's rvector is where
the next one starts. With `Ordered` no later row begins inside that interval,
so the row is the last that matches there. That `Spent` never decreases is
an induction over the length of the text.

*LevelIsKept* has to look back to the start of the reload, which is why the model
keeps `before`. While the reload lasts, no file that is the only one of its
service has the hash the reload began with and is also the one in hand past its
comparison (`TextInHand`), so no statement touches a service whose unit did not
change (`LevelSoFar`). A text without a service would be an exception, were it
not that the process aborts on it (`NamelessAborts`).

*MonitorProofs* speaks of one entry at a time. `StepMeans` says that a step is one
of five things to an entry: nothing, news of its unit sent to it, a message to
others taken from the bus, a message to it taken, or its own making. Each
invariant is then shown for these five and not for the actions of `Next`. `Shape`
has the types, one answer for each proxy that was asked for, and that a process
that is down has nothing. *FollowsItsUnit* needs what still waits: the last news
on the bus is what the unit is, and if none waits and none was missed, the entry
is (`Follows`). *ReportsOnce* is a count with no variable for it: `Counted` says
there is a number for each waiting message, how often the unit had failed when it
was sent, and that from the entry's count through the messages to the unit's each
step into "failed" costs at least one, so that an entry never gets ahead. *OverlooksNone*
rests on the order of the first events: `Listening` says that the second is never
taken before the manager is listened to, and from then on each service is
unloaded, announced or known.

*FriendsProofs* follows one crash. `Stages` says that it waits in exactly one of
the two queues and nothing was done for it, or it waits in none and every row
that wants it has exactly one outcome: one call, one timer, or its name in
`lost`; a row that does not want it has none. `EachCrashCallsOnce` and
`NoOtherCalls` are consequences. *KeepsDelays* adds the distances: two timers of
one crash are attached in the table's order, and the one with the shorter delay
never has more time left (`TimersInOrder`). A step that calls for a crash takes a
timer that is due before any attached earlier, so one with no longer a delay that
is still there is due too and attached later.

Three definitions are written for these proofs. `Spent` is a recursive function over
the actions of a text, `Announce` and `services_for_friend` take an ascending
enumeration of a set (`Orders!Ascending`). The library's induction theorems
cannot be instantiated with the provers at hand, so `SequenceLemmas` states
induction for a set of numbers (`InductionOnSet`), from the least element of its
complement; that, `RunningSum...` and `AscendingProperties` are all the proofs
need of recursion. `MonitorProofs` needs that `Unit` is finite.

Every safety property of a passing run is proved but `MissesNothing`, which says of
each handling without a fault what `ImplementsEscalation` says of an instance where
`Faults` is only "none". For two of `Recovery`
(`RelaxOnlyIfQuiet`, `KeepsPromise`) the theorem has premises on the ladders and on
`Faults`; the finding `aba` and the hazards say why. Liveness stays with TLC
(`RvectorMoves`, `FailureIsActedOn`, `RequestServed`, `ServiceWatched`,
`FriendActs`), as TLAPS 1.4.5 proves no `ENABLED` and the provers at hand no
fairness argument. So does what the violation runs refute.

## Not modelled

The checker only logs. The watchdog heartbeat is a timer that writes to
systemd. Options, logging, name tables and packaging hold no state. Of the message
format (`rmg-message.c`) only what it does to context names is modelled; messages
are whole. Overflows of
`rvector * timeout` and hash collisions are left out. The proxy of the crash
monitor is built once in a primary and is taken to be there.

Auto detection of the run mode reads whether the primary's socket file exists
and nothing more (`rmg-application.c:57`). The file outlives its primary, since
server and dispatcher hold a reference on each other and the `unlink` in
`rmg_dispatcher_unref` is never reached; the runtime directory systemd removes
with the service hides that. A model would add one bit and repeat the check, so
the instances of `Federation` are told their mode. Signals that arrive during
construction are left out with it.

## Plan

Done: every module above, their runs, and the theorems listed.

1. Proofs: which premises on `Faults` and the ladders the two conditional
   theorems of `Recovery` could do without; the composition of `Units` with
   `Recovery`, where the rows of a service may change between two starts.
2. `Monitor`: which crashes an entry misses before its proxy is ready, as a
   property of its own.
3. `Federation` with messages that are cut in two by the kernel, header and
   payload read apart (`rmg-message.c`).
4. The run mode of an instance that is started by hand, outside systemd.
