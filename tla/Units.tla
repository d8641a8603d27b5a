-------------------------------- MODULE Units --------------------------------
(***************************************************************************)
(* Ingesting recovery units: at every start the daemon reads the unit      *)
(* files, parses each into a ladder of actions and, when its hash is new,  *)
(* replaces what the journal holds for the service. Each SQL statement is  *)
(* a transaction of its own, so the process can be killed between any two; *)
(* the journal survives, the parse does not.                               *)
(***************************************************************************)
EXTENDS Integers, Sequences, FiniteSets

CONSTANTS
  Service,     \* services units are written for
  File,        \* names in the units directory
  Version,     \* distinct texts of unit files; a text's hash is the text
  Content,     \* Content[v]: what the parser finds in text v
  NoVersion,   \* no file, or no row
  NoService,   \* a text without <service>
  Subject,     \* processes and services of any context, as a text spells them
  Context,     \* host names
  Host,        \* the name of this host
  NoContext,   \* a <friend> without a context
  Kills,       \* whether the process may be killed during a reload
  SqlFails,    \* whether a statement may fail
  MaxRvector   \* bound: failures counted for a service

ActionType ==
  {"ignoreService", "resetService", "resetPublicData", "resetPrivateData",
   "disableService", "contextRestart", "platformRestart", "factoryReset"}
Row == [type : ActionType, tlmin : Nat, tlmax : Nat, reset : BOOLEAN]
(* An <action>: an unknown type name reads "invalid", retry is any number.  *)
Element == [type : ActionType \cup {"invalid"}, retry : Int, reset : BOOLEAN]
(* A <friend>: a type or an action that is missing or misspelt is "unknown".*)
FriendType == {"unknown", "process", "service"}
FriendAction == {"unknown", "start", "stop", "restart", "signal"}
FriendElement == [friend : Subject, context : Context \cup {NoContext},
                  type : FriendType, action : FriendAction]
FriendRow == [friend : Subject, context : Context, type : FriendType,
              action : FriendAction]
(* "paths": the text has both <privatedata> and <publicdata>.               *)
Text == [service : Service \cup {NoService}, actions : Seq(Element),
         friends : Seq(FriendElement), wellformed : BOOLEAN, paths : BOOLEAN]
Entry == [rvector : Nat, actions : Seq(Row), friends : Seq(FriendRow)]

ASSUME ContentType == \A v \in Version : Content[v] \in Text
ASSUME NoneType ==
  /\ NoVersion \notin Version /\ NoService \notin Service
  /\ Host \in Context /\ NoContext \notin Context
ASSUME SwitchesType ==
  Kills \in BOOLEAN /\ SqlFails \in BOOLEAN /\ MaxRvector \in Nat

VARIABLES
  files,     \* files[f]: the text of f
  hash,      \* Services.HASH of each service
  rvector,   \* Services.RVECTOR
  rows,      \* Actions of each service, in rowid order
  friends,   \* Friends of each service, in rowid order
  pc,        \* where the process is
  pending,   \* files this reload has not opened
  text,      \* the text being handled
  entry,     \* jentry: the rvector the next action starts at, and the lists
  next,      \* the next element to parse, or the next list entry to insert
  before     \* history: the journal as the reload could read it

journal == <<hash, rvector, rows, friends>>
vars == <<files, hash, rvector, rows, friends, pc, pending, text, entry, next, before>>

(* "removeFriendsOnly": the DELETE of the actions failed, that of the       *)
(* friends is tried all the same.                                           *)
Pc == {"off", "scan", "parse", "removeService", "removeActions", "removeFriends",
       "removeFriendsOnly", "addService", "addActions", "addFriends", "ready",
       "aborted"}

(* Rows name an action type the executor knows and intervals of rvectors.   *)
TypeOK ==
  /\ files \in [File -> Version \cup {NoVersion}]
  /\ hash \in [Service -> Version \cup {NoVersion}]
  /\ rvector \in [Service -> Nat]
  /\ rows \in [Service -> Seq(Row)]
  /\ friends \in [Service -> Seq(FriendRow)]
  /\ pc \in Pc
  /\ pending \subseteq File
  /\ text \in Version \cup {NoVersion}
  /\ entry \in Entry
  /\ next \in Nat
  /\ before \in [Service -> [hash : Version \cup {NoVersion}, rvector : Nat]]

-----------------------------------------------------------------------------
(* Outside the reload.                                                      *)

EmptyEntry == [rvector |-> 1, actions |-> <<>>, friends |-> <<>>]

EditFile(f, v) ==
  /\ pc \in {"off", "ready"}
  /\ files' = [files EXCEPT ![f] = v]
  /\ UNCHANGED <<journal, pc, pending, text, entry, next, before>>

(* The dispatcher and the relaxation timers, see Recovery.                  *)
CountOrRelax(s) ==
  /\ pc = "ready"
  /\ hash[s] # NoVersion
  /\ rvector' \in {[rvector EXCEPT ![s] = IF @ < MaxRvector THEN @ + 1 ELSE @],
                   [rvector EXCEPT ![s] = 0]}
  /\ UNCHANGED <<files, hash, rows, friends, pc, pending, text, entry, next, before>>

Stop ==
  /\ \/ pc \in {"ready", "aborted"}
     \/ Kills /\ pc # "off"
  /\ pc' = "off"
  /\ pending' = {} /\ text' = NoVersion /\ entry' = EmptyEntry /\ next' = 1
  /\ UNCHANGED <<files, journal, before>>

-----------------------------------------------------------------------------
(* rmg_journal_reload_units.                                                *)

Start ==
  /\ pc = "off"
  /\ pc' = "scan"
  /\ pending' = {f \in File : files[f] # NoVersion}
  /\ before' = [s \in Service |-> [hash |-> hash[s], rvector |-> rvector[s]]]
  /\ UNCHANGED <<files, journal, text, entry, next>>

OpenUnit(f) ==
  /\ pc = "scan"
  /\ f \in pending
  /\ pending' = pending \ {f}
  /\ text' = files[f]
  /\ entry' = EmptyEntry
  /\ next' = 1
  /\ pc' = "parse"
  /\ UNCHANGED <<files, journal, before>>

ReloadDone ==
  /\ pc = "scan"
  /\ pending = {}
  /\ pc' = "ready"
  /\ UNCHANGED <<files, journal, pending, text, entry, next, before>>

unit == Content[text]

StartsAfter(e) == e.rvector + 1  \* mutant: the intervals leave a gap
StartsAt(e) == e.rvector

add_action(e, a) ==
  LET g == StartsAt(e) + a.retry
  IN [e EXCEPT
        !.rvector = g,
        !.actions = Append(@, [type |-> a.type, tlmin |-> StartsAt(e), tlmax |-> g,
                               reset |-> a.reset])]

AcceptedAnyType(a) == a.retry >= 1  \* mutant: unknown types get a row
Accepted(a) == a.retry >= 1 /\ a.type # "invalid"

parser_start_element ==
  /\ pc = "parse"
  /\ next \in DOMAIN unit.actions
  /\ LET a == unit.actions[next]
     IN entry' = IF Accepted(a) THEN add_action(entry, a) ELSE entry
  /\ next' = next + 1
  /\ UNCHANGED <<files, journal, pc, pending, text, before>>

(* The text inside a <friend>; no context means this host. Unlike an        *)
(* action, a friend is kept whatever its type and action.                   *)
Stored(f) ==
  [friend |-> f.friend, type |-> f.type, action |-> f.action,
   context |-> IF f.context = NoContext THEN Host ELSE f.context]

parser_text_data ==
  LET i == next - Len(unit.actions)
  IN /\ pc = "parse"
     /\ i \in DOMAIN unit.friends
     /\ entry' = [entry EXCEPT !.friends = Append(@, Stored(unit.friends[i]))]
     /\ next' = next + 1
     /\ UNCHANGED <<files, journal, pc, pending, text, before>>

AlwaysNew(s, v) == TRUE  \* mutant: every start ingests anew
Differs(s, v) == hash[s] # v

(* A text that does not parse leaves the journal as it was; so does one     *)
(* whose hash the journal already holds for the service. A failed lookup of *)
(* that hash reads 0; without a name the lookup asserts.                    *)
ParseDone(ok) ==
  /\ pc = "parse"
  /\ next > Len(unit.actions) + Len(unit.friends)
  /\ pc' = CASE ~unit.wellformed -> "scan"
             [] unit.wellformed /\ unit.service = NoService -> "aborted"
             [] OTHER -> IF ~ok \/ Differs(unit.service, text)
                         THEN "removeService" ELSE "scan"
  /\ before' = IF ok \/ unit.service = NoService THEN before
               ELSE [before EXCEPT ![unit.service].hash = NoVersion]
  /\ UNCHANGED <<files, journal, pending, text, entry, next>>

(* rmg_journal_remove_service: each DELETE stands for itself. When one      *)
(* fails the file is given up.                                              *)
RemoveService(ok) ==
  /\ pc = "removeService"
  /\ IF ok
     THEN /\ hash' = [hash EXCEPT ![unit.service] = NoVersion]
          /\ rvector' = [rvector EXCEPT ![unit.service] = 0]
          /\ pc' = "removeActions"
     ELSE /\ pc' = "scan"
          /\ UNCHANGED <<hash, rvector>>
  /\ UNCHANGED <<files, rows, friends, pending, text, entry, next, before>>

keep_actions(s) == rows  \* mutant: the rows of the old unit stay
delete_actions(s) == [rows EXCEPT ![s] = <<>>]

RemoveActions(ok) ==
  /\ pc = "removeActions"
  /\ IF ok
     THEN rows' = delete_actions(unit.service) /\ pc' = "removeFriends"
     ELSE pc' = "removeFriendsOnly" /\ UNCHANGED rows
  /\ UNCHANGED <<files, hash, rvector, friends, pending, text, entry, next, before>>

keep_friends(s) == friends  \* mutant: the friends of the old unit stay
delete_friends(s) == [friends EXCEPT ![s] = <<>>]

RemoveFriends(ok) ==
  /\ pc \in {"removeFriends", "removeFriendsOnly"}
  /\ friends' = IF ok THEN delete_friends(unit.service) ELSE friends
  /\ pc' = IF ok /\ pc = "removeFriends" THEN "addService" ELSE "scan"
  /\ UNCHANGED <<files, hash, rvector, rows, pending, text, entry, next, before>>

(* rmg_journal_add_service asserts that both paths are there: a unit        *)
(* without them ends the process, its predecessor already removed.          *)
AddService(ok) ==
  /\ pc = "addService"
  /\ \/ /\ ~unit.paths
        /\ pc' = "aborted"
        /\ UNCHANGED <<journal, next>>
     \/ /\ unit.paths /\ ok
        /\ hash' = [hash EXCEPT ![unit.service] = text]
        /\ rvector' = [rvector EXCEPT ![unit.service] = 0]
        /\ next' = 1
        /\ pc' = "addActions"
        /\ UNCHANGED <<rows, friends>>
     \/ /\ unit.paths /\ ~ok
        /\ pc' = "scan"
        /\ UNCHANGED <<journal, next>>
  /\ UNCHANGED <<files, pending, text, entry, before>>

(* One INSERT per action; one that fails (the random action hash may also   *)
(* be taken) is logged and the next one tried.                              *)
add_action_for_service(ok) ==
  /\ pc = "addActions"
  /\ next \in DOMAIN entry.actions
  /\ rows' = IF ok THEN [rows EXCEPT ![unit.service] = Append(@, entry.actions[next])]
             ELSE rows
  /\ next' = next + 1
  /\ UNCHANGED <<files, hash, rvector, friends, pc, pending, text, entry, before>>

ActionsAdded ==
  /\ pc = "addActions"
  /\ next \notin DOMAIN entry.actions
  /\ pc' = "addFriends"
  /\ next' = 1
  /\ UNCHANGED <<files, journal, pending, text, entry, before>>

add_friend_for_service(ok) ==
  /\ pc = "addFriends"
  /\ next \in DOMAIN entry.friends
  /\ friends' = IF ok
                THEN [friends EXCEPT ![unit.service] = Append(@, entry.friends[next])]
                ELSE friends
  /\ next' = next + 1
  /\ UNCHANGED <<files, hash, rvector, rows, pc, pending, text, entry, before>>

FriendsAdded ==
  /\ pc = "addFriends"
  /\ next \notin DOMAIN entry.friends
  /\ pc' = "scan"
  /\ UNCHANGED <<files, journal, pending, text, entry, next, before>>

-----------------------------------------------------------------------------

Init ==
  /\ files \in [File -> Version \cup {NoVersion}]
  /\ hash = [s \in Service |-> NoVersion]
  /\ rvector = [s \in Service |-> 0]
  /\ rows = [s \in Service |-> <<>>]
  /\ friends = [s \in Service |-> <<>>]
  /\ pc = "off"
  /\ pending = {}
  /\ text = NoVersion
  /\ entry = EmptyEntry
  /\ next = 1
  /\ before = [s \in Service |-> [hash |-> NoVersion, rvector |-> 0]]

Ok == IF SqlFails THEN BOOLEAN ELSE {TRUE}

Next ==
  \/ \E f \in File, v \in Version \cup {NoVersion} : EditFile(f, v)
  \/ \E s \in Service : CountOrRelax(s)
  \/ Stop
  \/ Start
  \/ \E f \in File : OpenUnit(f)
  \/ ReloadDone
  \/ parser_start_element
  \/ parser_text_data
  \/ \E ok \in Ok : ParseDone(ok)
  \/ \E ok \in Ok : RemoveService(ok)
  \/ \E ok \in Ok : RemoveActions(ok)
  \/ \E ok \in Ok : RemoveFriends(ok)
  \/ \E ok \in Ok : AddService(ok)
  \/ \E ok \in Ok : add_action_for_service(ok)
  \/ ActionsAdded
  \/ \E ok \in Ok : add_friend_for_service(ok)
  \/ FriendsAdded

Spec == Init /\ [][Next]_vars

-----------------------------------------------------------------------------
(* Properties.                                                              *)

(* Whatever is killed or fails on the way, the rows a service ever has are  *)
(* in ladder order and overlap at most at an end point, what Recovery takes *)
(* for granted of its ladders.                                              *)
InOrder(ladder) ==
  \A i \in DOMAIN ladder :
    /\ 1 <= ladder[i].tlmin /\ ladder[i].tlmin < ladder[i].tlmax
    /\ \A j \in DOMAIN ladder : i < j => ladder[i].tlmax <= ladder[j].tlmin
RowsInOrder == \A s \in Service : InOrder(rows[s])

(* "The retry attribute defines the number of times the action should be    *)
(* repeated before moving to the next action" (sample.recovery:14): the row *)
(* the queries answer for rvector n, the last that matches, is the action   *)
(* the text has for the n-th failure in a row, if that action has its row:  *)
(* a kill or a failing INSERT may have cost it.                             *)
Retries(a) == IF Accepted(a) THEN a.retry ELSE 0
Spent(v) ==
  LET upto[k \in 0 .. Len(Content[v].actions)] ==
        IF k = 0 THEN 0 ELSE upto[k - 1] + Retries(Content[v].actions[k])
  IN upto
Answers(ladder, n, k) ==
  /\ ladder[k].tlmin <= n /\ n <= ladder[k].tlmax
  /\ \A j \in DOMAIN ladder : j > k => n < ladder[j].tlmin
RetriesKept ==
  \A s \in Service :
    hash[s] # NoVersion =>
      \A i \in DOMAIN rows[s] : \E k \in DOMAIN Content[hash[s]].actions :
        /\ Accepted(Content[hash[s]].actions[k])
        /\ rows[s][i].type = Content[hash[s]].actions[k].type
        /\ \A n \in Spent(hash[s])[k - 1] + 1 .. Spent(hash[s])[k] :
             Answers(rows[s], n, i)

(* A service acts for the friends its present unit names and for no others: *)
(* none of an older unit stays behind when the service has one              *)
(* (rmg_journal_remove_service and add_friend_for_service).                 *)
Declared(v) == {Stored(Content[v].friends[i]) : i \in DOMAIN Content[v].friends}
FriendsOfUnit ==
  \A s \in Service :
    hash[s] # NoVersion =>
      \A i \in DOMAIN friends[s] : friends[s][i] \in Declared(hash[s])

(* "The units are hashed, so the service recovery unit is added or replaced *)
(* if not existent or different" (README.md:18): a reload that finds the    *)
(* unit it found last time does not take the service back down its ladder.  *)
OnlyFileOf(f) ==
  /\ files[f] # NoVersion
  /\ Content[files[f]].wellformed
  /\ \A g \in File \ {f} :
       files[g] # NoVersion => Content[files[g]].service # Content[files[f]].service
LevelKept ==
  [][ReloadDone =>
       \A f \in File :
         LET s == Content[files[f]].service
         IN OnlyFileOf(f) /\ before[s].hash = files[f]
              => hash[s] = files[f] /\ rvector[s] = before[s].rvector]_vars

(* And it leaves the journal with every action of the unit.                 *)
UnitIngested ==
  [][ReloadDone =>
       \A f \in File :
         OnlyFileOf(f) =>
           /\ hash[Content[files[f]].service] = files[f]
           /\ Len(rows[Content[files[f]].service])
                = Cardinality({k \in DOMAIN Content[files[f]].actions :
                                 Accepted(Content[files[f]].actions[k])})]_vars

=============================================================================
