----------------------------- MODULE UnitsProofs -----------------------------
(* Theorems about ingesting recovery units, for every set of files and texts *)
(* and whether or not the process is killed or statements fail on the way.   *)
EXTENDS Units, SequenceLemmas

-----------------------------------------------------------------------------
(* Type correctness.                                                         *)

LEMMA ElementTypes ==
  ASSUME NEW v \in Version, NEW i \in DOMAIN Content[v].actions
  PROVE  Content[v].actions[i] \in Element
  <1>1. Content[v].actions \in Seq(Element)
    BY ContentType DEF Text
  <1> QED
    BY <1>1

LEMMA AddActionTypes ==
  ASSUME TypeOK, NEW a \in Element, Accepted(a)
  PROVE  add_action(entry, a) \in Entry
  <1>1. entry.rvector \in Nat /\ entry.actions \in Seq(Row) /\ entry \in Entry
    BY DEF TypeOK, Entry
  <1>2. a.retry \in Nat /\ a.type \in ActionType /\ a.reset \in BOOLEAN
    BY DEF Accepted, Element
  <1>3. [type |-> a.type, tlmin |-> entry.rvector,
         tlmax |-> entry.rvector + a.retry, reset |-> a.reset] \in Row
    BY <1>1, <1>2 DEF Row
  <1> DEFINE row == [type |-> a.type, tlmin |-> entry.rvector,
                     tlmax |-> entry.rvector + a.retry, reset |-> a.reset]
  <1>4. Append(entry.actions, row) \in Seq(Row) /\ entry.rvector + a.retry \in Nat
    BY <1>1, <1>2, <1>3, AppendProperties
  <1>5. add_action(entry, a) =
          [[entry EXCEPT !.rvector = entry.rvector + a.retry]
             EXCEPT !.actions = Append(entry.actions, row)]
    BY <1>1 DEF add_action, StartsAt, Entry
  <1> HIDE DEF row
  <1> QED
    BY <1>1, <1>4, <1>5 DEF Entry

LEMMA StoredTypes ==
  ASSUME NEW v \in Version, NEW i \in DOMAIN Content[v].friends
  PROVE  Stored(Content[v].friends[i]) \in FriendRow
  <1>1. Content[v].friends \in Seq(FriendElement)
    BY ContentType DEF Text
  <1>2. Content[v].friends[i] \in FriendElement
    BY <1>1
  <1> QED
    BY <1>2, NoneType DEF Stored, FriendElement, FriendRow

LEMMA FriendParseTypes ==
  ASSUME TypeOK, text \in Version, parser_text_data
  PROVE  entry' \in Entry /\ next' \in Nat
  <1>1. entry.friends \in Seq(FriendRow) /\ entry \in Entry /\ next \in Nat
    BY DEF TypeOK, Entry
  <1>2. PICK f \in FriendRow : entry' = [entry EXCEPT !.friends = Append(entry.friends, f)]
    BY StoredTypes DEF parser_text_data, unit
  <1>3. Append(entry.friends, f) \in Seq(FriendRow)
    BY <1>1, AppendProperties
  <1>4. entry' \in Entry
    BY <1>1, <1>2, <1>3 DEF Entry
  <1>5. next' \in Nat
    BY <1>1 DEF parser_text_data
  <1> QED
    BY <1>4, <1>5

(* What the steps of a reload know of the text they handle.                  *)
Handling ==
  {"parse", "removeService", "removeActions", "removeFriends", "removeFriendsOnly",
   "addService", "addActions", "addFriends"}
PendingFiles ==
  /\ \A f \in pending : files[f] # NoVersion
  /\ pc \in {"off", "ready"} => pending = {}
  /\ pc \in Handling => text \in Version
  /\ pc \in Handling \ {"parse"} => unit.service \in Service
Typed == TypeOK /\ PendingFiles

LEMMA TypedInit == Init => Typed
  BY EmptySeq DEF Init, Typed, TypeOK, PendingFiles, Pc, EmptyEntry, Handling, Entry

LEMMA InsertTypes ==
  ASSUME Typed, NEW ok, add_action_for_service(ok)
  PROVE  rows' \in [Service -> Seq(Row)]
  <1>1. next \in DOMAIN entry.actions /\ entry.actions \in Seq(Row)
    BY DEF add_action_for_service, Typed, TypeOK, Entry
  <1>2. entry.actions[next] \in Row
    BY <1>1
  <1>3. unit.service \in Service
    BY DEF add_action_for_service, Typed, PendingFiles, Handling
  <1>4. Append(rows[unit.service], entry.actions[next]) \in Seq(Row)
    BY <1>2, <1>3, AppendProperties DEF Typed, TypeOK
  <1> QED
    BY <1>4 DEF add_action_for_service, Typed, TypeOK

LEMMA InsertFriendTypes ==
  ASSUME Typed, NEW ok, add_friend_for_service(ok)
  PROVE  friends' \in [Service -> Seq(FriendRow)]
  <1>1. next \in DOMAIN entry.friends /\ entry.friends \in Seq(FriendRow)
    BY DEF add_friend_for_service, Typed, TypeOK, Entry
  <1>2. entry.friends[next] \in FriendRow
    BY <1>1
  <1>3. unit.service \in Service
    BY DEF add_friend_for_service, Typed, PendingFiles, Handling
  <1>4. Append(friends[unit.service], entry.friends[next]) \in Seq(FriendRow)
    BY <1>2, <1>3, AppendProperties DEF Typed, TypeOK
  <1> QED
    BY <1>4 DEF add_friend_for_service, Typed, TypeOK

LEMMA CountTypes ==
  ASSUME TypeOK, NEW s \in Service, CountOrRelax(s)
  PROVE  rvector' \in [Service -> Nat]
  <1>1. rvector \in [Service -> Nat] /\ rvector[s] \in Nat
    BY DEF TypeOK
  <1>2. PICK n \in Nat : rvector' = [rvector EXCEPT ![s] = n]
    <2>1. \/ rvector' = [rvector EXCEPT ![s] =
                          IF rvector[s] < MaxRvector THEN rvector[s] + 1 ELSE rvector[s]]
          \/ rvector' = [rvector EXCEPT ![s] = 0]
      BY DEF CountOrRelax
    <2> QED
      BY <1>1, <2>1
  <1> QED
    BY <1>1, <1>2

LEMMA RemoveTypes ==
  ASSUME TypeOK, NEW ok, RemoveService(ok)
  PROVE  hash' \in [Service -> Version \cup {NoVersion}] /\ rvector' \in [Service -> Nat]
  <1>1. /\ hash \in [Service -> Version \cup {NoVersion}]
        /\ rvector \in [Service -> Nat]
    BY DEF TypeOK
  <1>2. \/ /\ hash' = [hash EXCEPT ![unit.service] = NoVersion]
           /\ rvector' = [rvector EXCEPT ![unit.service] = 0]
        \/ hash' = hash /\ rvector' = rvector
    BY DEF RemoveService
  <1> QED
    BY <1>1, <1>2

LEMMA DeleteTypes ==
  ASSUME TypeOK, NEW ok, RemoveActions(ok)
  PROVE  rows' \in [Service -> Seq(Row)]
  <1>1. rows \in [Service -> Seq(Row)] /\ <<>> \in Seq(Row)
    BY EmptySeq DEF TypeOK
  <1>2. rows' = [rows EXCEPT ![unit.service] = <<>>] \/ rows' = rows
    BY DEF RemoveActions, delete_actions
  <1> QED
    BY <1>1, <1>2

LEMMA DeleteFriendTypes ==
  ASSUME TypeOK, NEW ok, RemoveFriends(ok)
  PROVE  friends' \in [Service -> Seq(FriendRow)]
  <1>1. friends \in [Service -> Seq(FriendRow)] /\ <<>> \in Seq(FriendRow)
    BY EmptySeq DEF TypeOK
  <1>2. friends' = [friends EXCEPT ![unit.service] = <<>>] \/ friends' = friends
    BY DEF RemoveFriends, delete_friends
  <1> QED
    BY <1>1, <1>2

LEMMA AddTypes ==
  ASSUME TypeOK, text \in Version, NEW ok, AddService(ok)
  PROVE  hash' \in [Service -> Version \cup {NoVersion}] /\ rvector' \in [Service -> Nat]
  <1>1. /\ hash \in [Service -> Version \cup {NoVersion}]
        /\ rvector \in [Service -> Nat]
    BY DEF TypeOK
  <1>2. \/ /\ hash' = [hash EXCEPT ![unit.service] = text]
           /\ rvector' = [rvector EXCEPT ![unit.service] = 0]
        \/ hash' = hash /\ rvector' = rvector
    BY DEF AddService, journal
  <1> QED
    BY <1>1, <1>2

LEMMA TypedStep ==
  ASSUME Typed, [Next]_vars
  PROVE  Typed'
  <1> USE DEF Typed, TypeOK, PendingFiles, Handling, journal, unit
  <1>1. ASSUME NEW f \in File, NEW v \in Version \cup {NoVersion}, EditFile(f, v)
        PROVE  Typed'
    BY <1>1 DEF EditFile
  <1>2. ASSUME NEW s \in Service, CountOrRelax(s)
        PROVE  Typed'
    <2>1. rvector' \in [Service -> Nat]
      BY <1>2, CountTypes
    <2> QED
      BY <1>2, <2>1 DEF CountOrRelax
  <1>3. CASE Stop
    BY <1>3, EmptySeq DEF Stop, EmptyEntry, Pc, Entry
  <1>4. CASE Start
    BY <1>4 DEF Start, Pc
  <1>5. ASSUME NEW f \in File, OpenUnit(f)
        PROVE  Typed'
    BY <1>5, EmptySeq DEF OpenUnit, EmptyEntry, Pc, Entry
  <1>6. CASE ReloadDone
    BY <1>6 DEF ReloadDone, Pc
  <1>7. CASE parser_start_element
    <2>1. text \in Version /\ next \in DOMAIN Content[text].actions
      BY <1>7 DEF parser_start_element
    <2>2. Content[text].actions[next] \in Element
      BY <2>1, ElementTypes
    <2>3. entry' \in Entry
      BY <1>7, <2>2, AddActionTypes DEF parser_start_element
    <2> QED
      BY <1>7, <2>3 DEF parser_start_element
  <1>8. ASSUME NEW ok \in Ok, ParseDone(ok)
        PROVE  Typed'
    <2>1. text \in Version /\ unit \in Text
      BY <1>8, ContentType DEF ParseDone
    <2>2. /\ pc' \in {"scan", "aborted", "removeService"}
          /\ pc' = "removeService" => unit.service # NoService
      BY <1>8 DEF ParseDone
    <2>3. pc' = "removeService" => unit.service \in Service
      BY <2>1, <2>2 DEF Text
    <2>4. before' \in [Service -> [hash : Version \cup {NoVersion}, rvector : Nat]]
      BY <1>8 DEF ParseDone
    <2> QED
      BY <1>8, <2>1, <2>2, <2>3, <2>4 DEF ParseDone, Pc
  <1>9. ASSUME NEW ok \in Ok, RemoveService(ok)
        PROVE  Typed'
    <2>1. hash' \in [Service -> Version \cup {NoVersion}] /\ rvector' \in [Service -> Nat]
      BY <1>9, RemoveTypes
    <2>2. text \in Version /\ unit.service \in Service /\ pc' \in {"scan", "removeActions"}
      BY <1>9 DEF RemoveService
    <2> QED
      BY <1>9, <2>1, <2>2 DEF RemoveService, Pc
  <1>10. ASSUME NEW ok \in Ok, RemoveActions(ok)
         PROVE  Typed'
    <2>1. rows' \in [Service -> Seq(Row)]
      BY <1>10, DeleteTypes
    <2>2. /\ text \in Version /\ unit.service \in Service
          /\ pc' \in {"removeFriends", "removeFriendsOnly"}
      BY <1>10 DEF RemoveActions
    <2> QED
      BY <1>10, <2>1, <2>2 DEF RemoveActions, Pc
  <1>11. ASSUME NEW ok \in Ok, AddService(ok)
         PROVE  Typed'
    <2>1. text \in Version /\ unit.service \in Service
      BY <1>11 DEF AddService
    <2>2. /\ hash' \in [Service -> Version \cup {NoVersion}]
          /\ rvector' \in [Service -> Nat]
      BY <1>11, <2>1, AddTypes
    <2>3. /\ rows' = rows /\ friends' = friends /\ next' \in Nat
          /\ pc' \in {"aborted", "addActions", "scan"}
      BY <1>11 DEF AddService
    <2> QED
      BY <1>11, <2>1, <2>2, <2>3 DEF AddService, Pc
  <1>12. ASSUME NEW ok \in Ok, add_action_for_service(ok)
         PROVE  Typed'
    <2>1. rows' \in [Service -> Seq(Row)]
      BY <1>12, InsertTypes
    <2> QED
      BY <1>12, <2>1 DEF add_action_for_service
  <1>13. CASE ActionsAdded
    BY <1>13 DEF ActionsAdded, Pc
  <1>14. CASE parser_text_data
    <2>1. text \in Version
      BY <1>14 DEF parser_text_data
    <2>2. entry' \in Entry /\ next' \in Nat
      BY <1>14, <2>1, FriendParseTypes
    <2> QED
      BY <1>14, <2>2 DEF parser_text_data
  <1>15. ASSUME NEW ok \in Ok, RemoveFriends(ok)
         PROVE  Typed'
    <2>1. friends' \in [Service -> Seq(FriendRow)]
      BY <1>15, DeleteFriendTypes
    <2>2. text \in Version /\ unit.service \in Service /\ pc' \in {"scan", "addService"}
      BY <1>15 DEF RemoveFriends
    <2> QED
      BY <1>15, <2>1, <2>2 DEF RemoveFriends, Pc
  <1>16. ASSUME NEW ok \in Ok, add_friend_for_service(ok)
         PROVE  Typed'
    <2>1. friends' \in [Service -> Seq(FriendRow)]
      BY <1>16, InsertFriendTypes
    <2> QED
      BY <1>16, <2>1 DEF add_friend_for_service
  <1>17. CASE FriendsAdded
    BY <1>17 DEF FriendsAdded, Pc
  <1>18. CASE UNCHANGED vars
    BY <1>18 DEF vars
  <1> QED
    BY <1>1, <1>2, <1>3, <1>4, <1>5, <1>6, <1>7, <1>8, <1>9, <1>10, <1>11, <1>12,
       <1>13, <1>14, <1>15, <1>16, <1>17, <1>18
    DEF Next

(* The journal only ever holds rows whose action type is known and whose     *)
(* intervals are made of rvectors, whatever the unit files contain.          *)
THEOREM UnitTypeCorrect == Spec => []TypeOK
  <1>1. Typed => TypeOK
    BY DEF Typed
  <1> QED
    BY TypedInit, TypedStep, <1>1, PTL DEF Spec

-----------------------------------------------------------------------------
(* The order of the rows.                                                    *)

(* The parser keeps its actions in order and below the entry's rvector.      *)
EntryInOrder ==
  /\ 1 <= entry.rvector
  /\ InOrder(entry.actions)
  /\ \A i \in DOMAIN entry.actions : entry.actions[i].tlmax <= entry.rvector
(* The rows of the old unit go before the new service row comes, and what is *)
(* inserted so far lies below what is still to be inserted.                  *)
RowsBelowEntry ==
  /\ pc \in {"removeFriends", "addService"} => rows[unit.service] = <<>>
  /\ pc = "addActions" =>
       \A i \in DOMAIN rows[unit.service], k \in DOMAIN entry.actions :
         next <= k => rows[unit.service][i].tlmax <= entry.actions[k].tlmin
Ordered == RowsInOrder /\ EntryInOrder /\ RowsBelowEntry

(* An ordered ladder stays ordered under a row that lies above it.           *)
LEMMA AppendInOrder ==
  ASSUME NEW ladder \in Seq(Row), InOrder(ladder), NEW row \in Row,
         1 <= row.tlmin, row.tlmin < row.tlmax,
         \A i \in DOMAIN ladder : ladder[i].tlmax <= row.tlmin
  PROVE  InOrder(Append(ladder, row))
  <1> DEFINE n == Len(ladder)
             new == Append(ladder, row)
  <1>1. /\ n \in Nat /\ DOMAIN ladder = 1 .. n /\ DOMAIN new = 1 .. n + 1
        /\ new[n + 1] = row
        /\ \A i \in 1 .. n : new[i] = ladder[i]
    BY LenProperties, AppendProperties
  <1> HIDE DEF n, new
  <1>2. ASSUME NEW i \in 1 .. n + 1
        PROVE  /\ 1 <= new[i].tlmin /\ new[i].tlmin < new[i].tlmax
               /\ \A j \in 1 .. n + 1 : i < j => new[i].tlmax <= new[j].tlmin
    <2>1. CASE i = n + 1
      BY <1>1, <2>1
    <2>2. CASE i \in 1 .. n
      BY <1>1, <2>2 DEF InOrder
    <2> QED
      BY <1>1, <2>1, <2>2
  <1>3. InOrder(new)
    BY <1>1, <1>2 DEF InOrder
  <1> QED
    BY <1>3 DEF new

LEMMA EmptyInOrder == InOrder(<<>>)
  BY DEF InOrder

(* A parsed action starts where the last one ended.                          *)
LEMMA ParseOrdered ==
  ASSUME Typed, EntryInOrder, parser_start_element
  PROVE  EntryInOrder'
  <1> DEFINE a == unit.actions[next]
  <1>1. CASE Accepted(a)
    <2> DEFINE old == entry.actions
               n == Len(old)
               row == [type |-> a.type, tlmin |-> entry.rvector,
                       tlmax |-> entry.rvector + a.retry, reset |-> a.reset]
    <2>1. /\ text \in Version /\ next \in DOMAIN Content[text].actions
          /\ entry.rvector \in Nat /\ old \in Seq(Row) /\ entry \in Entry
      BY DEF parser_start_element, Typed, TypeOK, PendingFiles, Handling, unit, Entry
    <2>2. a.retry \in Nat /\ 1 <= a.retry /\ a.type \in ActionType /\ a.reset \in BOOLEAN
      BY <1>1, <2>1, ElementTypes DEF Accepted, Element, unit
    <2>3. row \in Row /\ row.tlmin = entry.rvector /\ row.tlmax = entry.rvector + a.retry
      BY <2>1, <2>2 DEF Row
    <2>4. entry' = [[entry EXCEPT !.rvector = entry.rvector + a.retry]
                      EXCEPT !.actions = Append(old, row)]
      BY <1>1, <2>1 DEF parser_start_element, add_action, StartsAt, Entry
    <2> HIDE DEF row, old, a
    <2>5. entry'.rvector = entry.rvector + a.retry /\ entry'.actions = Append(old, row)
      BY <2>1, <2>4 DEF Entry
    <2>6. InOrder(entry'.actions)
      <3>1. /\ InOrder(old) /\ 1 <= entry.rvector
            /\ \A i \in DOMAIN old : old[i].tlmax <= entry.rvector
        BY DEF EntryInOrder, old
      <3>2. 1 <= row.tlmin /\ \A i \in DOMAIN old : old[i].tlmax <= row.tlmin
        BY <2>3, <3>1
      <3>3. row.tlmin < row.tlmax
        BY <2>1, <2>2, <2>3
      <3>4. InOrder(Append(old, row))
        BY <2>1, <2>3, <3>1, <3>2, <3>3, AppendInOrder
      <3> QED
        BY <2>5, <3>4
    <2>7. ASSUME NEW i \in DOMAIN entry'.actions
          PROVE  entry'.actions[i].tlmax <= entry'.rvector
      <3>1. /\ n \in Nat /\ DOMAIN old = 1 .. n /\ i \in 1 .. n + 1
            /\ entry'.actions[n + 1] = row
            /\ \A k \in 1 .. n : entry'.actions[k] = old[k] /\ old[k] \in Row
        BY <2>1, <2>3, <2>5, <2>7, LenProperties, AppendProperties
      <3>2. CASE i = n + 1
        BY <2>1, <2>2, <2>3, <2>5, <3>1, <3>2
      <3>3. CASE i \in 1 .. n
        <4>1. old[i].tlmax <= entry.rvector /\ old[i].tlmax \in Nat
          BY <3>1, <3>3 DEF EntryInOrder, old, Row
        <4> QED
          BY <2>1, <2>2, <2>5, <3>1, <3>3, <4>1
      <3> QED
        BY <3>1, <3>2, <3>3
    <2>8. 1 <= entry'.rvector
      BY <2>1, <2>2, <2>5 DEF EntryInOrder
    <2> QED
      BY <2>6, <2>7, <2>8 DEF EntryInOrder
  <1>2. CASE ~Accepted(a)
    BY <1>2 DEF parser_start_element, EntryInOrder, InOrder
  <1> QED
    BY <1>1, <1>2

(* A row is inserted above the rows inserted before it, whichever of those   *)
(* failed, and below the rows that follow it.                                *)
LEMMA InsertOrdered ==
  ASSUME Typed, Ordered, NEW ok, add_action_for_service(ok)
  PROVE  RowsInOrder' /\ RowsBelowEntry'
  <1> DEFINE s == unit.service
             a == entry.actions
  <1>1. /\ s \in Service /\ rows \in [Service -> Seq(Row)] /\ rows[s] \in Seq(Row)
        /\ a \in Seq(Row) /\ next \in DOMAIN a /\ next \in Nat
        /\ pc = "addActions" /\ pc' = pc /\ next' = next + 1
        /\ entry' = entry /\ unit' = unit
    BY DEF add_action_for_service, Typed, TypeOK, PendingFiles, Handling, unit, Entry
  <1>2. /\ InOrder(a) /\ InOrder(rows[s])
        /\ \A i \in DOMAIN rows[s], k \in DOMAIN a :
             next <= k => rows[s][i].tlmax <= a[k].tlmin
    BY <1>1 DEF Ordered, RowsInOrder, EntryInOrder, RowsBelowEntry
  <1>3. /\ DOMAIN a = 1 .. Len(a) /\ Len(a) \in Nat
        /\ \A k \in DOMAIN a : a[k] \in Row /\ a[k].tlmin \in Nat /\ a[k].tlmax \in Nat
    <2>1. \A k \in DOMAIN a : a[k] \in Row
      BY <1>1
    <2> QED
      BY <1>1, <2>1, LenProperties DEF Row
  <1>4. /\ DOMAIN rows[s] = 1 .. Len(rows[s]) /\ Len(rows[s]) \in Nat
        /\ \A i \in DOMAIN rows[s] : rows[s][i] \in Row /\ rows[s][i].tlmax \in Nat
    <2>1. \A i \in DOMAIN rows[s] : rows[s][i] \in Row
      BY <1>1
    <2> QED
      BY <1>1, <2>1, LenProperties DEF Row
  <1> DEFINE more == Append(rows[s], a[next])
  <1>5. InOrder(more)
    <2>1. a[next] \in Row /\ 1 <= a[next].tlmin /\ a[next].tlmin < a[next].tlmax
      BY <1>1, <1>2, <1>3 DEF InOrder
    <2>2. \A i \in DOMAIN rows[s] : rows[s][i].tlmax <= a[next].tlmin
      BY <1>1, <1>2
    <2> QED
      BY <1>1, <1>2, <2>1, <2>2, AppendInOrder
  <1>6. ASSUME NEW i \in DOMAIN more, NEW k \in DOMAIN a, next + 1 <= k
        PROVE  more[i].tlmax <= a[k].tlmin
    <2>1. next < k /\ next <= k
      BY <1>1, <1>3, <1>6
    <2>2. CASE i \in DOMAIN rows[s] /\ more[i] = rows[s][i]
      BY <1>2, <2>1, <2>2
    <2>3. CASE more[i] = a[next]
      BY <1>1, <1>2, <2>1, <2>3 DEF InOrder
    <2>4. (i \in DOMAIN rows[s] /\ more[i] = rows[s][i]) \/ more[i] = a[next]
      <3>1. a[next] \in Row
        BY <1>1, <1>3
      <3>2. i \in 1 .. Len(rows[s]) + 1
        BY <1>1, <1>4, <3>1, AppendProperties
      <3> QED
        BY <1>1, <1>4, <3>1, <3>2, AppendProperties
    <2> QED
      BY <2>2, <2>3, <2>4
  <1>7. rows' = [rows EXCEPT ![s] = more] \/ rows' = rows
    BY DEF add_action_for_service
  <1> HIDE DEF more, s, a
  <1>8. /\ \A t \in Service : t # s => rows'[t] = rows[t]
        /\ rows'[s] = more \/ rows'[s] = rows[s]
    BY <1>1, <1>7
  <1>9. RowsInOrder'
    BY <1>5, <1>8 DEF RowsInOrder, Ordered
  <1>10. ASSUME NEW i \in DOMAIN rows'[s], NEW k \in DOMAIN a, next' <= k
         PROVE  rows'[s][i].tlmax <= a[k].tlmin
    <2>1. next + 1 <= k /\ next <= k
      BY <1>1, <1>3, <1>10
    <2> QED
      BY <1>2, <1>6, <1>8, <2>1
  <1> QED
    BY <1>1, <1>9, <1>10 DEF RowsBelowEntry, s, a

LEMMA OrderedStep ==
  ASSUME Typed, Ordered, [Next]_vars
  PROVE  Ordered'
  <1> USE DEF Ordered, RowsInOrder, RowsBelowEntry, EntryInOrder, unit
  <1>1. CASE /\ UNCHANGED <<rows, entry>>
             /\ pc' \notin {"removeFriends", "addService", "addActions"}
    BY <1>1
  <1>2. CASE UNCHANGED <<rows, entry, pc, text, next>>
    BY <1>2
  <1>3. CASE UNCHANGED rows /\ entry' = EmptyEntry /\ pc' \in {"off", "parse"}
    BY <1>3, EmptyInOrder DEF EmptyEntry
  <1>4. CASE parser_start_element
    <2>1. EntryInOrder'
      BY <1>4, ParseOrdered
    <2>2. rows' = rows /\ pc' = "parse"
      BY <1>4 DEF parser_start_element, journal
    <2> QED
      BY <2>1, <2>2
  <1>5. ASSUME NEW ok, RemoveActions(ok)
        PROVE  Ordered'
    <2>1. CASE UNCHANGED rows /\ pc' = "removeFriendsOnly"
      BY <1>5, <2>1 DEF RemoveActions
    <2>2. CASE rows' = delete_actions(unit.service) /\ pc' = "removeFriends"
      <3>1. \A s \in Service : rows'[s] = IF s = unit.service THEN <<>> ELSE rows[s]
        BY <2>2 DEF delete_actions, Typed, TypeOK
      <3>2. unit.service \in Service /\ text' = text
        BY <1>5 DEF RemoveActions, Typed, PendingFiles, Handling
      <3> QED
        BY <1>5, <2>2, <3>1, <3>2, EmptyInOrder DEF RemoveActions
    <2> QED
      BY <1>5, <2>1, <2>2 DEF RemoveActions
  <1>6. ASSUME NEW ok, AddService(ok)
        PROVE  Ordered'
    <2>1. /\ rows[unit.service] = <<>> /\ UNCHANGED <<rows, entry, text>>
          /\ pc' \in {"aborted", "addActions", "scan"}
      BY <1>6 DEF AddService, journal
    <2>2. DOMAIN rows'[unit'.service] = {}
      BY <2>1
    <2> QED
      BY <2>1, <2>2
  <1>7. ASSUME NEW ok, add_action_for_service(ok)
        PROVE  Ordered'
    BY <1>7, InsertOrdered DEF add_action_for_service
  <1>8. CASE parser_text_data
    <2>1. /\ entry'.rvector = entry.rvector /\ entry'.actions = entry.actions
          /\ rows' = rows /\ pc' = "parse"
      BY <1>8 DEF parser_text_data, journal, Typed, TypeOK, Entry
    <2> QED
      BY <2>1 DEF InOrder
  <1>9. ASSUME NEW ok, RemoveFriends(ok)
        PROVE  Ordered'
    <2>1. /\ UNCHANGED <<rows, entry, text>>
          /\ pc' = "scan" \/ (pc' = "addService" /\ pc = "removeFriends")
      BY <1>9 DEF RemoveFriends
    <2> QED
      BY <2>1
  <1> HIDE DEF Ordered, RowsInOrder, RowsBelowEntry, EntryInOrder, unit
  <1>10. \/ /\ UNCHANGED <<rows, entry>>
            /\ pc' \notin {"removeFriends", "addService", "addActions"}
         \/ UNCHANGED <<rows, entry, pc, text, next>>
         \/ UNCHANGED rows /\ entry' = EmptyEntry /\ pc' \in {"off", "parse"}
         \/ parser_start_element
         \/ parser_text_data
         \/ \E ok \in Ok : RemoveActions(ok) \/ RemoveFriends(ok) \/ AddService(ok)
                            \/ add_action_for_service(ok)
    BY DEF Next, vars, journal, EditFile, CountOrRelax, Stop, Start, OpenUnit, ReloadDone,
           ParseDone, RemoveService, ActionsAdded, add_friend_for_service, FriendsAdded
  <1> QED
    BY <1>1, <1>2, <1>3, <1>4, <1>5, <1>6, <1>7, <1>8, <1>9, <1>10

(* Whatever the unit files contain, wherever the process is killed and       *)
(* whichever statements fail, the ladder the journal holds for a service is  *)
(* in order and two rows share at most an end point: LadderOrdered, which    *)
(* Recovery assumes.                                                         *)
THEOREM LaddersInOrder == Spec => []RowsInOrder
  <1>1. Init => Ordered
    BY EmptyInOrder
    DEF Init, Ordered, RowsInOrder, EntryInOrder, RowsBelowEntry, EmptyEntry
  <1>2. Typed /\ Ordered /\ [Next]_vars => Ordered'
    BY OrderedStep
  <1>3. Ordered => RowsInOrder
    BY DEF Ordered
  <1> QED
    BY TypedInit, TypedStep, <1>1, <1>2, <1>3, PTL DEF Spec

-----------------------------------------------------------------------------
(* The friends.                                                              *)

(* The text in hand is what the parser's friends are from; the service row   *)
(* that carries its hash comes after the old friends went.                   *)
ParsedFriends ==
  pc \in Handling =>
    \A i \in DOMAIN entry.friends : entry.friends[i] \in Declared(text)
HashFollowsText ==
  /\ pc \in {"removeActions", "removeFriends", "removeFriendsOnly", "addService"} =>
       hash[unit.service] = NoVersion
  /\ pc = "addService" => friends[unit.service] = <<>>
  /\ pc \in {"addActions", "addFriends"} => hash[unit.service] = text
OwnFriends == FriendsOfUnit /\ ParsedFriends /\ HashFollowsText

LEMMA ParseKeepsFriends ==
  ASSUME Typed, OwnFriends, parser_text_data
  PROVE  OwnFriends'
  <1> DEFINE f == Stored(unit.friends[next - Len(unit.actions)])
             old == entry.friends
  <1>1. /\ old \in Seq(FriendRow) /\ entry \in Entry /\ text \in Version
        /\ pc = "parse" /\ pc \in Handling
        /\ UNCHANGED <<pc, text, hash, friends>>
        /\ entry' = [entry EXCEPT !.friends = Append(old, f)]
    BY DEF parser_text_data, journal, Typed, TypeOK, PendingFiles, Handling, Entry
  <1>2. f \in Declared(text) /\ f \in FriendRow
    BY <1>1, StoredTypes DEF parser_text_data, Declared, unit
  <1> HIDE DEF f
  <1>3. entry'.friends = Append(old, f)
    BY <1>1 DEF Entry
  <1> HIDE DEF old
  <1>4. ASSUME NEW i \in DOMAIN Append(old, f)
        PROVE  Append(old, f)[i] \in Declared(text)
    <2>1. \A k \in DOMAIN old : old[k] \in Declared(text)
      BY <1>1 DEF OwnFriends, ParsedFriends, old
    <2>2. i \in 1 .. Len(old) + 1 /\ Len(old) \in Nat /\ DOMAIN old = 1 .. Len(old)
      BY <1>1, <1>2, <1>4, LenProperties, AppendProperties
    <2> QED
      BY <1>1, <1>2, <2>1, <2>2, AppendProperties
  <1>5. Declared(text)' = Declared(text)
    BY <1>1 DEF Declared
  <1>6. ParsedFriends'
    BY <1>1, <1>3, <1>4, <1>5 DEF ParsedFriends
  <1>7. FriendsOfUnit' /\ HashFollowsText'
    BY <1>1 DEF OwnFriends, FriendsOfUnit, HashFollowsText
  <1> QED
    BY <1>6, <1>7 DEF OwnFriends

LEMMA InsertKeepsFriends ==
  ASSUME Typed, OwnFriends, NEW ok, add_friend_for_service(ok)
  PROVE  FriendsOfUnit'
  <1> DEFINE s == unit.service
             new == entry.friends[next]
  <1>1. /\ s \in Service /\ friends \in [Service -> Seq(FriendRow)]
        /\ friends[s] \in Seq(FriendRow) /\ entry.friends \in Seq(FriendRow)
        /\ next \in DOMAIN entry.friends /\ pc = "addFriends" /\ hash' = hash
        /\ friends' = [friends EXCEPT ![s] = Append(friends[s], new)] \/ friends' = friends
    BY DEF add_friend_for_service, Typed, TypeOK, PendingFiles, Handling, Entry
  <1>2. new \in FriendRow /\ new \in Declared(hash[s]) /\ hash[s] = text
    <2>1. hash[s] = text /\ pc \in Handling
      BY <1>1 DEF OwnFriends, HashFollowsText, Handling
    <2>2. new \in FriendRow
      BY <1>1
    <2> QED
      BY <1>1, <2>1, <2>2 DEF OwnFriends, ParsedFriends
  <1> HIDE DEF s, new
  <1>3. \A i \in DOMAIN friends[s] : friends[s][i] \in Declared(hash[s])
    <2>1. hash[s] # NoVersion
      BY <1>1, <1>2, NoneType DEF Typed, PendingFiles, Handling
    <2> QED
      BY <1>1, <2>1 DEF OwnFriends, FriendsOfUnit
  <1>4. ASSUME NEW i \in DOMAIN Append(friends[s], new)
        PROVE  Append(friends[s], new)[i] \in Declared(hash[s])
    <2>1. /\ i \in 1 .. Len(friends[s]) + 1 /\ Len(friends[s]) \in Nat
          /\ DOMAIN friends[s] = 1 .. Len(friends[s])
      BY <1>1, <1>2, <1>4, LenProperties, AppendProperties
    <2> QED
      BY <1>1, <1>2, <1>3, <2>1, AppendProperties
  <1>5. ASSUME NEW t \in Service, hash[t] # NoVersion, NEW i \in DOMAIN friends'[t]
        PROVE  friends'[t][i] \in Declared(hash[t])
    <2>1. CASE friends' = friends
      BY <1>5, <2>1 DEF OwnFriends, FriendsOfUnit
    <2>2. CASE friends' = [friends EXCEPT ![s] = Append(friends[s], new)] /\ t # s
      BY <1>1, <1>5, <2>2 DEF OwnFriends, FriendsOfUnit
    <2>3. CASE friends' = [friends EXCEPT ![s] = Append(friends[s], new)] /\ t = s
      BY <1>1, <1>4, <1>5, <2>3
    <2> QED
      BY <1>1, <2>1, <2>2, <2>3
  <1> QED
    BY <1>1, <1>5 DEF FriendsOfUnit, Declared

LEMMA OwnFriendsStep ==
  ASSUME Typed, OwnFriends, [Next]_vars
  PROVE  OwnFriends'
  <1> USE DEF OwnFriends, FriendsOfUnit, ParsedFriends, HashFollowsText, Declared, unit
  <1>1. CASE UNCHANGED <<hash, friends>> /\ pc' \in {"off", "ready", "scan", "aborted"}
    BY <1>1 DEF Handling
  <1>2. CASE UNCHANGED <<hash, friends, pc, text, entry>>
    BY <1>2
  <1>3. ASSUME NEW f \in File, OpenUnit(f)
        PROVE  OwnFriends'
    <2>1. entry'.friends = <<>> /\ pc' = "parse" /\ UNCHANGED <<hash, friends>>
      BY <1>3 DEF OpenUnit, EmptyEntry, journal
    <2> QED
      BY <2>1
  <1>4. CASE parser_start_element
    <2>1. entry'.friends = entry.friends /\ UNCHANGED <<hash, friends, pc, text>>
      BY <1>4 DEF parser_start_element, add_action, journal, Typed, TypeOK, Entry
    <2> QED
      BY <2>1
  <1>5. ASSUME NEW ok, ParseDone(ok)
        PROVE  OwnFriends'
    <2>1. /\ UNCHANGED <<hash, friends, text, entry>> /\ pc \in Handling
          /\ pc' \in {"scan", "aborted", "removeService"}
      BY <1>5 DEF ParseDone, journal, Handling
    <2> QED
      BY <2>1
  <1>6. ASSUME NEW ok, RemoveService(ok)
        PROVE  OwnFriends'
    <2>1. /\ UNCHANGED <<friends, text, entry>> /\ pc \in Handling
          /\ unit.service \in Service /\ hash \in [Service -> Version \cup {NoVersion}]
      BY <1>6 DEF RemoveService, Handling, Typed, TypeOK, PendingFiles
    <2>2. CASE hash' = hash /\ pc' = "scan"
      BY <2>1, <2>2
    <2>3. CASE hash' = [hash EXCEPT ![unit.service] = NoVersion] /\ pc' = "removeActions"
      <3>1. /\ hash'[unit.service] = NoVersion
            /\ \A t \in Service : hash'[t] # NoVersion => hash'[t] = hash[t]
        BY <2>1, <2>3
      <3> QED
        BY <2>1, <2>3, <3>1
    <2> QED
      BY <1>6, <2>2, <2>3 DEF RemoveService
  <1>7. ASSUME NEW ok, RemoveActions(ok)
        PROVE  OwnFriends'
    <2>1. /\ UNCHANGED <<hash, friends, text, entry>>
          /\ pc = "removeActions" /\ pc \in Handling
          /\ pc' \in {"removeFriends", "removeFriendsOnly"}
      BY <1>7 DEF RemoveActions, Handling
    <2> QED
      BY <2>1
  <1>8. ASSUME NEW ok, RemoveFriends(ok)
        PROVE  OwnFriends'
    <2>1. /\ UNCHANGED <<hash, text, entry>> /\ pc \in Handling
          /\ hash[unit.service] = NoVersion /\ unit.service \in Service
          /\ friends \in [Service -> Seq(FriendRow)]
          /\ friends' = delete_friends(unit.service) \/ (friends' = friends /\ pc' = "scan")
          /\ pc' \in {"scan", "addService"}
      BY <1>8 DEF RemoveFriends, Handling, Typed, TypeOK, PendingFiles
    <2>2. /\ friends'[unit.service] = <<>> \/ pc' = "scan"
          /\ \A t \in Service : t # unit.service => friends'[t] = friends[t]
      BY <2>1 DEF delete_friends
    <2> QED
      BY <2>1, <2>2
  <1>9. ASSUME NEW ok, AddService(ok)
        PROVE  OwnFriends'
    <2>1. /\ UNCHANGED <<friends, text, entry>> /\ pc \in Handling
          /\ friends[unit.service] = <<>> /\ unit.service \in Service
          /\ hash \in [Service -> Version \cup {NoVersion}]
          /\ \/ hash' = [hash EXCEPT ![unit.service] = text] /\ pc' = "addActions"
             \/ hash' = hash /\ pc' \in {"scan", "aborted"}
      BY <1>9 DEF AddService, Handling, Typed, TypeOK, PendingFiles, journal
    <2>2. /\ \A t \in Service : t # unit.service => hash'[t] = hash[t]
          /\ DOMAIN friends'[unit.service] = {}
          /\ hash'[unit.service] = text \/ pc' \in {"scan", "aborted"}
      BY <2>1
    <2>3. FriendsOfUnit'
      <3>1. ASSUME NEW s \in Service, hash'[s] # NoVersion, NEW i \in DOMAIN friends'[s]
            PROVE  friends'[s][i] \in Declared(hash'[s])
        <4>1. s # unit.service
          BY <2>2, <3>1
        <4> QED
          BY <2>1, <2>2, <3>1, <4>1
      <3> QED
        BY <3>1
    <2>4. ParsedFriends' /\ HashFollowsText'
      BY <2>1, <2>2
    <2> QED
      BY <2>3, <2>4
  <1>10. CASE ActionsAdded
    <2>1. /\ UNCHANGED <<hash, friends, text, entry>> /\ pc = "addActions"
          /\ pc \in Handling /\ pc' = "addFriends"
      BY <1>10 DEF ActionsAdded, journal, Handling
    <2> QED
      BY <2>1
  <1>11. ASSUME NEW ok, add_friend_for_service(ok)
         PROVE  OwnFriends'
    <2>1. FriendsOfUnit'
      BY <1>11, InsertKeepsFriends
    <2>2. UNCHANGED <<hash, pc, text, entry>> /\ pc = "addFriends"
      BY <1>11 DEF add_friend_for_service
    <2> QED
      BY <2>1, <2>2
  <1> HIDE DEF OwnFriends, FriendsOfUnit, ParsedFriends, HashFollowsText, Declared, unit
  <1>12. CASE parser_text_data
    BY <1>12, ParseKeepsFriends
  <1>13. \/ UNCHANGED <<hash, friends>> /\ pc' \in {"off", "ready", "scan", "aborted"}
         \/ UNCHANGED <<hash, friends, pc, text, entry>>
         \/ \E f \in File : OpenUnit(f)
         \/ parser_start_element \/ parser_text_data \/ ActionsAdded
         \/ \E ok \in Ok : ParseDone(ok) \/ RemoveService(ok) \/ RemoveActions(ok)
                            \/ RemoveFriends(ok) \/ AddService(ok)
                            \/ add_friend_for_service(ok)
    BY DEF Next, vars, journal, EditFile, CountOrRelax, Stop, Start, ReloadDone,
           add_action_for_service, FriendsAdded
  <1> QED
    BY <1>1, <1>2, <1>3, <1>4, <1>5, <1>6, <1>7, <1>8, <1>9, <1>10, <1>11, <1>12, <1>13

(* Wherever a reload is killed and whichever statement fails, a service that *)
(* has a unit in the journal acts only for the friends of that unit.         *)
THEOREM FriendsReplaced == Spec => []FriendsOfUnit
  <1>1. Init => OwnFriends
    BY DEF Init, OwnFriends, FriendsOfUnit, ParsedFriends, HashFollowsText, Handling
  <1>2. Typed /\ OwnFriends /\ [Next]_vars => OwnFriends'
    BY OwnFriendsStep
  <1>3. OwnFriends => FriendsOfUnit
    BY DEF OwnFriends
  <1> QED
    BY TypedInit, TypedStep, <1>1, <1>2, <1>3, PTL DEF Spec

-----------------------------------------------------------------------------
(* The retries.                                                              *)

(* Spent adds up the retries of the actions that get a row.                  *)
LEMMA SpentAddsUp ==
  ASSUME NEW v \in Version
  PROVE  IsRunningSum(Spent(v), [k \in DOMAIN Content[v].actions |->
                                   Retries(Content[v].actions[k])],
                      Len(Content[v].actions))
  <1> DEFINE a == Content[v].actions
             n == Len(a)
             d == [k \in DOMAIN a |-> Retries(a[k])]
             Sum(f) == [k \in 0 .. n |-> IF k = 0 THEN 0 ELSE f[k - 1] + Retries(a[k])]
  <1>1. n \in Nat /\ DOMAIN a = 1 .. n /\ \A k \in 1 .. n : a[k] \in Element
    BY ContentType, ElementTypes, LenProperties DEF Text
  <1>2. \A k \in 1 .. n : d[k] \in Nat /\ d[k] = Retries(a[k])
    BY <1>1 DEF Retries, Accepted, Element
  <1> HIDE DEF d
  <1>3. PICK f : IsRunningSum(f, d, n)
    BY <1>1, <1>2, RunningSumExists
  <1>4. f = Sum(f)
    BY <1>1, <1>2, <1>3 DEF IsRunningSum
  <1>5. Spent(v) = CHOOSE g : g = Sum(g)
    BY DEF Spent
  <1>6. Spent(v) = Sum(Spent(v))
    <2>1. \E g : g = Sum(g)
      BY <1>4
    <2> HIDE DEF Sum
    <2> QED
      BY <2>1, <1>5
  <1>7. Spent(v) = [k \in 0 .. n |-> IF k = 0 THEN 0 ELSE Spent(v)[k - 1] + d[k]]
    <2>1. \A g : g = Sum(g) => g = [k \in 0 .. n |-> IF k = 0 THEN 0 ELSE g[k - 1] + d[k]]
      <3>1. \A k \in 0 .. n : k # 0 => d[k] = Retries(a[k])
        BY <1>1, <1>2
      <3> HIDE DEF a, n
      <3> SUFFICES ASSUME NEW g
                   PROVE  Sum(g) = [k \in 0 .. n |-> IF k = 0 THEN 0 ELSE g[k - 1] + d[k]]
        OBVIOUS
      <3> QED
        BY <3>1
    <2> HIDE DEF Sum
    <2> QED
      BY <1>6, <2>1
  <1>8. IsRunningSum(Spent(v), d, n)
    BY <1>1, <1>2, <1>7, RunningSumIs
  <1> QED
    BY <1>8 DEF d

(* A row stands for an action of its text: it begins after the retries of    *)
(* the actions before that action and ends after its own.                    *)
StandsFor(row, v, k) ==
  /\ Accepted(Content[v].actions[k])
  /\ row.type = Content[v].actions[k].type
  /\ row.tlmin = 1 + Spent(v)[k - 1]
  /\ row.tlmax = 1 + Spent(v)[k]
FromText(row, v) == \E k \in DOMAIN Content[v].actions : StandsFor(row, v, k)
ParsedSoFar ==
  pc = "parse" =>
    \E k \in 0 .. Len(unit.actions) :
      /\ k = next - 1 \/ (k = Len(unit.actions) /\ k < next)
      /\ entry.rvector = 1 + Spent(text)[k]
ActionsFromText ==
  pc \in Handling =>
    \A i \in DOMAIN entry.actions : FromText(entry.actions[i], text)
RowsFromText ==
  \A s \in Service :
    hash[s] # NoVersion => \A i \in DOMAIN rows[s] : FromText(rows[s][i], hash[s])
Sourced == ParsedSoFar /\ ActionsFromText /\ RowsFromText

(* The source of a row does not depend on the state.                         *)
LEMMA AppendFromText ==
  ASSUME NEW q \in Seq(Row), NEW row \in Row, NEW v, FromText(row, v),
         \A i \in DOMAIN q : FromText(q[i], v)
  PROVE  \A i \in DOMAIN Append(q, row) : FromText(Append(q, row)[i], v)
  <1>1. /\ Len(q) \in Nat /\ DOMAIN q = 1 .. Len(q)
        /\ DOMAIN Append(q, row) = 1 .. Len(q) + 1
        /\ Append(q, row)[Len(q) + 1] = row
        /\ \A i \in 1 .. Len(q) : Append(q, row)[i] = q[i]
    BY LenProperties, AppendProperties
  <1> QED
    BY <1>1

LEMMA ParseSourced ==
  ASSUME Typed, Sourced, parser_start_element
  PROVE  Sourced'
  <1> DEFINE a == unit.actions[next]
             n == Len(unit.actions)
             spent == Spent(text)
  <1>1. /\ text \in Version /\ pc = "parse" /\ pc \in Handling
        /\ next \in DOMAIN unit.actions /\ next' = next + 1
        /\ UNCHANGED <<hash, rows, pc, text>>
        /\ entry' = IF Accepted(a) THEN add_action(entry, a) ELSE entry
        /\ entry \in Entry /\ entry.actions \in Seq(Row) /\ entry.rvector \in Nat
    BY DEF parser_start_element, journal, Typed, TypeOK, PendingFiles, Handling, Entry
  <1>2. unit.actions \in Seq(Element)
    BY <1>1, ContentType DEF Text, unit
  <1>3. n \in Nat /\ DOMAIN unit.actions = 1 .. n /\ next \in 1 .. n /\ a \in Element
    BY <1>1, <1>2, LenProperties
  <1>4. /\ spent[next] = spent[next - 1] + Retries(a)
        /\ spent[next - 1] \in Nat /\ spent[next] \in Nat
    <2>1. IsRunningSum(spent, [k \in DOMAIN unit.actions |-> Retries(unit.actions[k])], n)
      BY <1>1, SpentAddsUp DEF unit
    <2>2. /\ next - 1 \in 0 .. n /\ next \in 0 .. n
          /\ [k \in DOMAIN unit.actions |-> Retries(unit.actions[k])][next] = Retries(a)
      BY <1>3
    <2> HIDE DEF spent, n, a
    <2> QED
      BY <1>3, <2>1, <2>2 DEF IsRunningSum
  <1>5. entry.rvector = 1 + spent[next - 1]
    <2>1. PICK k \in 0 .. n : /\ k = next - 1 \/ (k = n /\ k < next)
                              /\ entry.rvector = 1 + spent[k]
      BY <1>1 DEF Sourced, ParsedSoFar
    <2>2. k = next - 1
      BY <1>3, <2>1
    <2> QED
      BY <2>1, <2>2
  <1>6. RowsFromText'
    BY <1>1 DEF Sourced, RowsFromText
  <1>7. entry'.rvector = 1 + spent[next]
    <2>1. CASE Accepted(a)
      <3>1. add_action(entry, a).rvector = entry.rvector + a.retry
        BY <1>1 DEF add_action, StartsAt, Entry
      <3>2. a.retry \in Nat
        BY <1>3, <2>1 DEF Accepted, Element
      <3> QED
        BY <1>1, <1>4, <1>5, <2>1, <3>1, <3>2 DEF Retries
    <2>2. CASE ~Accepted(a)
      BY <1>1, <1>4, <1>5, <2>2 DEF Retries
    <2> QED
      BY <2>1, <2>2
  <1>8. \A i \in DOMAIN entry'.actions : FromText(entry'.actions[i], text)
    <2>1. \A i \in DOMAIN entry.actions : FromText(entry.actions[i], text)
      BY <1>1 DEF Sourced, ActionsFromText
    <2>2. CASE Accepted(a)
      <3> DEFINE row == [type |-> a.type, tlmin |-> entry.rvector,
                         tlmax |-> entry.rvector + a.retry, reset |-> a.reset]
      <3>1. add_action(entry, a).actions = Append(entry.actions, row)
        BY <1>1 DEF add_action, StartsAt, Entry
      <3>2. a.retry \in Nat /\ a.type \in ActionType /\ a.reset \in BOOLEAN
        BY <1>3, <2>2 DEF Accepted, Element
      <3>3. row \in Row
        BY <1>1, <3>2 DEF Row
      <3>4. row.tlmin = 1 + spent[next - 1] /\ row.tlmax = 1 + spent[next]
        BY <1>4, <1>5, <2>2, <3>2 DEF Retries
      <3>5. StandsFor(row, text, next)
        BY <2>2, <3>4 DEF StandsFor, unit
      <3>6. FromText(row, text)
        BY <1>1, <3>5 DEF FromText, unit
      <3> HIDE DEF row
      <3> QED
        BY <1>1, <2>1, <2>2, <3>1, <3>3, <3>6, AppendFromText
    <2>3. CASE ~Accepted(a)
      BY <1>1, <2>1, <2>3
    <2> QED
      BY <2>2, <2>3
  <1>9. ActionsFromText'
    BY <1>1, <1>8 DEF ActionsFromText
  <1>10. ParsedSoFar'
    <2>1. next \in 0 .. n /\ next = next' - 1
      BY <1>1, <1>3
    <2> QED
      BY <1>1, <1>7, <2>1 DEF ParsedSoFar, unit
  <1> QED
    BY <1>6, <1>9, <1>10 DEF Sourced

LEMMA InsertSourced ==
  ASSUME Typed, OwnFriends, Sourced, NEW ok, add_action_for_service(ok)
  PROVE  RowsFromText'
  <1> DEFINE s == unit.service
             new == entry.actions[next]
  <1>1. /\ s \in Service /\ rows \in [Service -> Seq(Row)] /\ rows[s] \in Seq(Row)
        /\ entry.actions \in Seq(Row) /\ next \in DOMAIN entry.actions
        /\ pc = "addActions" /\ pc \in Handling /\ text \in Version /\ hash' = hash
        /\ rows' = [rows EXCEPT ![s] = Append(rows[s], new)] \/ rows' = rows
    BY DEF add_action_for_service, Typed, TypeOK, PendingFiles, Handling, Entry
  <1>2. new \in Row /\ FromText(new, text) /\ hash[s] = text /\ hash[s] # NoVersion
    <2>1. new \in Row
      BY <1>1
    <2> QED
      BY <1>1, <2>1, NoneType
      DEF Sourced, ActionsFromText, OwnFriends, HashFollowsText
  <1> HIDE DEF s, new
  <1>3. \A i \in DOMAIN Append(rows[s], new) : FromText(Append(rows[s], new)[i], hash[s])
    <2>1. \A i \in DOMAIN rows[s] : FromText(rows[s][i], hash[s])
      BY <1>1, <1>2 DEF Sourced, RowsFromText
    <2> QED
      BY <1>1, <1>2, <2>1, AppendFromText
  <1>4. ASSUME NEW t \in Service, hash[t] # NoVersion, NEW i \in DOMAIN rows'[t]
        PROVE  FromText(rows'[t][i], hash[t])
    <2>1. CASE rows' = rows \/ t # s
      BY <1>1, <1>4, <2>1 DEF Sourced, RowsFromText
    <2>2. CASE rows' = [rows EXCEPT ![s] = Append(rows[s], new)] /\ t = s
      BY <1>1, <1>3, <1>4, <2>2
    <2> QED
      BY <1>1, <2>1, <2>2
  <1> QED
    BY <1>1, <1>4 DEF RowsFromText

LEMMA SourcedStep ==
  ASSUME Typed, Ordered, OwnFriends, Sourced, [Next]_vars
  PROVE  Sourced'
  <1> USE DEF Sourced, ParsedSoFar, ActionsFromText, RowsFromText, unit
  <1>1. CASE UNCHANGED <<hash, rows>> /\ pc' \in {"off", "ready", "scan", "aborted"}
    BY <1>1 DEF Handling
  <1>2. CASE UNCHANGED <<hash, rows, pc, text, entry, next>>
    BY <1>2
  <1>3. ASSUME NEW f \in File, OpenUnit(f)
        PROVE  Sourced'
    <2>1. /\ entry'.actions = <<>> /\ entry'.rvector = 1 /\ next' = 1
          /\ pc' = "parse" /\ UNCHANGED <<hash, rows>>
          /\ text' \in Version
      BY <1>3 DEF OpenUnit, EmptyEntry, journal, Typed, TypeOK, PendingFiles
    <2>2. Len(Content[text'].actions) \in Nat /\ Spent(text')[0] = 0
      BY <2>1, ContentType, SpentAddsUp, LenProperties DEF IsRunningSum, Text
    <2>3. /\ 0 \in 0 .. Len(Content[text'].actions) /\ 0 = next' - 1
          /\ entry'.rvector = 1 + Spent(text')[0]
      BY <2>1, <2>2
    <2> QED
      BY <2>1, <2>3
  <1>4. CASE parser_text_data
    <2>1. /\ entry'.actions = entry.actions /\ entry'.rvector = entry.rvector
          /\ UNCHANGED <<hash, rows, text, pc>> /\ pc = "parse" /\ pc \in Handling
          /\ next' = next + 1 /\ next \in Nat /\ text \in Version
          /\ next - Len(unit.actions) \in DOMAIN unit.friends
      BY <1>4 DEF parser_text_data, journal, Typed, TypeOK, PendingFiles, Handling, Entry
    <2>2. /\ Len(unit.actions) \in Nat
          /\ \A i \in DOMAIN unit.friends : i \in Nat /\ 1 <= i
      BY <2>1, ContentType, LenProperties DEF Text
    <2>3. PICK k \in 0 .. Len(unit.actions) :
            /\ k = next - 1 \/ (k = Len(unit.actions) /\ k < next)
            /\ entry.rvector = 1 + Spent(text)[k]
      BY <2>1
    <2>4. k = Len(unit.actions) /\ k < next + 1
      BY <2>1, <2>2, <2>3
    <2> QED
      BY <2>1, <2>3, <2>4
  <1>5. ASSUME NEW ok, ParseDone(ok)
        PROVE  Sourced'
    <2>1. /\ UNCHANGED <<hash, rows, text, entry>> /\ pc \in Handling
          /\ pc' \in {"scan", "aborted", "removeService"}
      BY <1>5 DEF ParseDone, journal, Handling
    <2> QED
      BY <2>1
  <1>6. ASSUME NEW ok, RemoveService(ok)
        PROVE  Sourced'
    <2>1. /\ UNCHANGED <<rows, text, entry>> /\ pc \in Handling
          /\ hash \in [Service -> Version \cup {NoVersion}]
          /\ pc' \in {"scan", "removeActions"}
          /\ hash' = [hash EXCEPT ![unit.service] = NoVersion] \/ hash' = hash
      BY <1>6 DEF RemoveService, Handling, Typed, TypeOK
    <2>2. \A t \in Service : hash'[t] # NoVersion => hash'[t] = hash[t]
      BY <2>1
    <2> QED
      BY <2>1, <2>2
  <1>7. ASSUME NEW ok, RemoveActions(ok)
        PROVE  Sourced'
    <2>1. /\ UNCHANGED <<hash, text, entry>> /\ pc \in Handling
          /\ rows \in [Service -> Seq(Row)]
          /\ pc' \in {"removeFriends", "removeFriendsOnly"}
          /\ rows' = [rows EXCEPT ![unit.service] = <<>>] \/ rows' = rows
      BY <1>7 DEF RemoveActions, delete_actions, Handling, Typed, TypeOK
    <2>2. \A t \in Service : rows'[t] = rows[t] \/ DOMAIN rows'[t] = {}
      BY <2>1
    <2> QED
      BY <2>1, <2>2
  <1>8. ASSUME NEW ok, RemoveFriends(ok)
        PROVE  Sourced'
    <2>1. /\ UNCHANGED <<hash, rows, text, entry>> /\ pc \in Handling
          /\ pc' \in {"scan", "addService"}
      BY <1>8 DEF RemoveFriends, Handling
    <2> QED
      BY <2>1
  <1>9. ASSUME NEW ok, AddService(ok)
        PROVE  Sourced'
    <2>1. /\ UNCHANGED <<rows, text, entry>> /\ pc \in Handling
          /\ hash \in [Service -> Version \cup {NoVersion}]
          /\ pc' \in {"scan", "addActions", "aborted"}
          /\ hash' = [hash EXCEPT ![unit.service] = text] \/ hash' = hash
      BY <1>9 DEF AddService, Handling, Typed, TypeOK, journal
    <2>2. DOMAIN rows[unit.service] = {}
      BY <1>9 DEF AddService, Ordered, RowsBelowEntry
    <2>3. ASSUME NEW t \in Service, hash'[t] # NoVersion, NEW i \in DOMAIN rows[t]
          PROVE  FromText(rows[t][i], hash'[t])
      <3>1. t # unit.service
        BY <2>2, <2>3
      <3>2. hash'[t] = hash[t]
        BY <2>1, <3>1
      <3> QED
        BY <2>3, <3>2
    <2> QED
      BY <2>1, <2>3
  <1>10. CASE ActionsAdded
    <2>1. /\ UNCHANGED <<hash, rows, text, entry>> /\ pc \in Handling
          /\ pc' = "addFriends"
      BY <1>10 DEF ActionsAdded, journal, Handling
    <2> QED
      BY <2>1
  <1>11. ASSUME NEW ok, add_action_for_service(ok)
         PROVE  Sourced'
    <2>1. UNCHANGED <<hash, text, entry, pc>> /\ pc = "addActions"
      BY <1>11 DEF add_action_for_service
    <2>2. RowsFromText'
      BY <1>11, InsertSourced
    <2> QED
      BY <2>1, <2>2
  <1>12. ASSUME NEW ok, add_friend_for_service(ok)
         PROVE  Sourced'
    <2>1. UNCHANGED <<hash, rows, text, entry, pc>> /\ pc = "addFriends"
      BY <1>12 DEF add_friend_for_service
    <2> QED
      BY <2>1
  <1> HIDE DEF Sourced, ParsedSoFar, ActionsFromText, RowsFromText, unit
  <1>13. CASE parser_start_element
    BY <1>13, ParseSourced
  <1>14. \/ UNCHANGED <<hash, rows>> /\ pc' \in {"off", "ready", "scan", "aborted"}
         \/ UNCHANGED <<hash, rows, pc, text, entry, next>>
         \/ \E f \in File : OpenUnit(f)
         \/ parser_start_element \/ parser_text_data \/ ActionsAdded
         \/ \E ok \in Ok : ParseDone(ok) \/ RemoveService(ok) \/ RemoveActions(ok)
                            \/ RemoveFriends(ok) \/ AddService(ok)
                            \/ add_action_for_service(ok) \/ add_friend_for_service(ok)
    BY DEF Next, vars, journal, EditFile, CountOrRelax, Stop, Start, ReloadDone,
           FriendsAdded
  <1> QED
    BY <1>1, <1>2, <1>3, <1>4, <1>5, <1>6, <1>7, <1>8, <1>9, <1>10, <1>11, <1>12,
       <1>13, <1>14

(* Rows in order answer for the retries of the action each stands for.       *)
LEMMA SourcedAnswers ==
  ASSUME Typed, RowsInOrder, RowsFromText
  PROVE  RetriesKept
  <1>1. SUFFICES ASSUME NEW s \in Service, hash[s] # NoVersion, NEW i \in DOMAIN rows[s]
                 PROVE  \E k \in DOMAIN Content[hash[s]].actions :
                          /\ Accepted(Content[hash[s]].actions[k])
                          /\ rows[s][i].type = Content[hash[s]].actions[k].type
                          /\ \A n \in Spent(hash[s])[k - 1] + 1 .. Spent(hash[s])[k] :
                               Answers(rows[s], n, i)
    BY DEF RetriesKept
  <1> DEFINE v == hash[s]
             ladder == rows[s]
  <1>2. v \in Version /\ ladder \in Seq(Row)
    BY <1>1 DEF Typed, TypeOK
  <1>3. PICK k \in DOMAIN Content[v].actions : StandsFor(ladder[i], v, k)
    BY <1>1 DEF RowsFromText, FromText
  <1>4. InOrder(ladder)
    BY DEF RowsInOrder
  <1> HIDE DEF v, ladder
  <1>5. Spent(v)[k] \in Nat /\ Spent(v)[k - 1] \in Nat
    <2>1. Content[v].actions \in Seq(Element)
      BY <1>2, ContentType DEF Text
    <2>2. k \in 0 .. Len(Content[v].actions) /\ k - 1 \in 0 .. Len(Content[v].actions)
      BY <2>1, <1>3, LenProperties
    <2> QED
      BY <1>2, <2>2, SpentAddsUp DEF IsRunningSum
  <1>6. \A j \in DOMAIN ladder : ladder[j].tlmin \in Nat /\ ladder[j].tlmax \in Nat
    <2>1. \A j \in DOMAIN ladder : ladder[j] \in Row
      BY <1>2
    <2> QED
      BY <2>1 DEF Row
  <1>7. \A n \in Spent(v)[k - 1] + 1 .. Spent(v)[k] : Answers(ladder, n, i)
    <2>1. ladder[i].tlmin = 1 + Spent(v)[k - 1] /\ ladder[i].tlmax = 1 + Spent(v)[k]
      BY <1>3 DEF StandsFor
    <2>2. i \in DOMAIN ladder /\ DOMAIN ladder = 1 .. Len(ladder)
      BY <1>1, <1>2, LenProperties DEF ladder
    <2>3. \A j \in DOMAIN ladder : j > i => ladder[i].tlmax <= ladder[j].tlmin
      BY <1>2, <1>4, <2>2, LenProperties DEF InOrder
    <2> QED
      BY <1>5, <1>6, <2>1, <2>2, <2>3 DEF Answers
  <1> QED
    BY <1>3, <1>7 DEF StandsFor, v, ladder

(* The row the queries answer for the n-th failure in a row is that of the   *)
(* action whose retries n is among, if that action has its row, whatever was *)
(* killed or failed on the way (rmg_jentry_add_action,                       *)
(* add_action_for_service).                                                  *)
THEOREM RetriesAreKept == Spec => []RetriesKept
  <1>1. Init => Ordered /\ OwnFriends /\ Sourced
    BY EmptyInOrder
    DEF Init, Ordered, RowsInOrder, EntryInOrder, RowsBelowEntry, EmptyEntry, OwnFriends,
        FriendsOfUnit, ParsedFriends, HashFollowsText, Handling, Sourced, ParsedSoFar,
        ActionsFromText, RowsFromText
  <1>2. Typed /\ Ordered /\ [Next]_vars => Ordered'
    BY OrderedStep
  <1>3. Typed /\ OwnFriends /\ [Next]_vars => OwnFriends'
    BY OwnFriendsStep
  <1>4. Typed /\ Ordered /\ OwnFriends /\ Sourced /\ [Next]_vars => Sourced'
    BY SourcedStep
  <1>5. Typed /\ Ordered /\ Sourced => RetriesKept
    BY SourcedAnswers DEF Ordered, Sourced
  <1> QED
    BY TypedInit, TypedStep, <1>1, <1>2, <1>3, <1>4, <1>5, PTL DEF Spec

-----------------------------------------------------------------------------
(* The level of a service whose unit is what it was.                         *)

ServiceOf(f) == Content[files[f]].service
Reloading == {"scan"} \cup Handling

(* The text in hand is that of a file that is not pending any more. Once the *)
(* removal began it is not the one whose hash the reload began with, unless  *)
(* other files for the service took its place before.                        *)
TextInHand ==
  pc \in Handling =>
    \E f \in File \ pending :
      /\ files[f] = text
      /\ pc # "parse" /\ OnlyFileOf(f) => before[unit.service].hash # text
(* A text without a service ends the process.                                *)
NamelessAborts ==
  pc \in Reloading =>
    \A f \in File \ pending :
      /\ files[f] # NoVersion /\ Content[files[f]].wellformed
      /\ ServiceOf(f) = NoService
      => pc = "parse" /\ text = files[f]
LevelSoFar ==
  pc \in Reloading =>
    \A f \in File :
      /\ OnlyFileOf(f) /\ ServiceOf(f) \in Service
      /\ before[ServiceOf(f)].hash = files[f]
      => /\ hash[ServiceOf(f)] = files[f]
         /\ rvector[ServiceOf(f)] = before[ServiceOf(f)].rvector
Level == TextInHand /\ NamelessAborts /\ LevelSoFar

(* While a unit is replaced, no file that is its service's only one has the  *)
(* hash the reload began with.                                               *)
LEMMA ReplacedWasOther ==
  ASSUME Typed, Level, pc \in Handling \ {"parse"}, NEW f \in File, OnlyFileOf(f),
         ServiceOf(f) \in Service, before[ServiceOf(f)].hash = files[f]
  PROVE  ServiceOf(f) # unit.service
  <1>1. SUFFICES ASSUME ServiceOf(f) = unit.service
                 PROVE  FALSE
    OBVIOUS
  <1>2. PICK g \in File : /\ files[g] = text /\ text \in Version
                          /\ OnlyFileOf(g) => before[unit.service].hash # text
    BY DEF Level, TextInHand, Typed, PendingFiles
  <1>3. g = f
    BY <1>1, <1>2, NoneType DEF OnlyFileOf, ServiceOf, unit
  <1> QED
    BY <1>1, <1>2, <1>3

(* Steps that change the hash or the rvector of the unit in hand alone.      *)
LEMMA ReplaceKeepsLevel ==
  ASSUME Typed, Level, pc \in Handling \ {"parse"},
         UNCHANGED <<files, pending, text, before>>,
         pc' \in Reloading \ {"parse"},
         \A t \in Service : t # unit.service => hash'[t] = hash[t] /\ rvector'[t] = rvector[t]
  PROVE  Level'
  <1>1. TextInHand'
    BY DEF Level, TextInHand, Handling, Reloading, unit, OnlyFileOf
  <1>2. NamelessAborts'
    BY DEF Level, NamelessAborts, Reloading, ServiceOf
  <1>3. LevelSoFar'
    <2>1. SUFFICES ASSUME NEW f \in File, OnlyFileOf(f), ServiceOf(f) \in Service,
                          before[ServiceOf(f)].hash = files[f]
                   PROVE  /\ hash'[ServiceOf(f)] = files[f]
                          /\ rvector'[ServiceOf(f)] = before[ServiceOf(f)].rvector
      BY DEF LevelSoFar, OnlyFileOf, ServiceOf
    <2>2. ServiceOf(f) # unit.service
      BY <2>1, ReplacedWasOther
    <2> QED
      BY <2>1, <2>2 DEF Level, LevelSoFar, Reloading
  <1> QED
    BY <1>1, <1>2, <1>3 DEF Level

LEMMA LevelStep ==
  ASSUME Typed, Level, [Next]_vars
  PROVE  Level'
  <1> USE DEF Reloading, ServiceOf, unit
  <1>1. CASE pc' \in {"off", "ready", "aborted"}
    BY <1>1 DEF Level, TextInHand, NamelessAborts, LevelSoFar, Handling
  <1>2. CASE UNCHANGED <<files, hash, rvector, pending, text, before, pc>>
    BY <1>2 DEF Level, TextInHand, NamelessAborts, LevelSoFar, OnlyFileOf
  <1>3. CASE Start
    <2>1. /\ pc' = "scan" /\ UNCHANGED <<files, hash, rvector>>
          /\ pending' = {f \in File : files[f] # NoVersion}
          /\ before' = [s \in Service |-> [hash |-> hash[s], rvector |-> rvector[s]]]
      BY <1>3 DEF Start, journal
    <2> QED
      BY <2>1 DEF Level, TextInHand, NamelessAborts, LevelSoFar, Handling
  <1>4. ASSUME NEW f \in File, OpenUnit(f)
        PROVE  Level'
    <2>1. /\ pc = "scan" /\ pc' = "parse" /\ UNCHANGED <<files, hash, rvector, before>>
          /\ f \in pending /\ pending' = pending \ {f} /\ text' = files[f]
      BY <1>4 DEF OpenUnit, journal
    <2>2. TextInHand' /\ NamelessAborts'
      BY <2>1 DEF Level, TextInHand, NamelessAborts, Handling
    <2>3. LevelSoFar'
      BY <2>1 DEF Level, LevelSoFar, OnlyFileOf
    <2> QED
      BY <2>2, <2>3 DEF Level
  <1>5. ASSUME NEW ok \in Ok, ParseDone(ok), pc' \in {"scan", "removeService"}
        PROVE  Level'
    <2>1. /\ pc = "parse" /\ pc \in Handling /\ text \in Version
          /\ UNCHANGED <<files, hash, rvector, pending, text>>
          /\ hash \in [Service -> Version \cup {NoVersion}]
          /\ before \in [Service -> [hash : Version \cup {NoVersion}, rvector : Nat]]
      BY <1>5 DEF ParseDone, journal, Typed, TypeOK, PendingFiles, Handling
    <2>2. /\ unit.wellformed => unit.service # NoService
          /\ pc' = "removeService" =>
               unit.service # NoService /\ (~ok \/ hash[unit.service] # text)
          /\ before' = IF ok \/ unit.service = NoService THEN before
                       ELSE [before EXCEPT ![unit.service].hash = NoVersion]
      BY <1>5 DEF ParseDone, Differs
    <2>3. unit.service # NoService => unit.service \in Service
      BY <2>1, ContentType DEF Text
    <2>4. \A s \in Service : /\ before'[s].rvector = before[s].rvector
                             /\ before'[s].hash # NoVersion => before'[s] = before[s]
      BY <2>1, <2>2, <2>3
    <2>5. LevelSoFar'
      BY <2>1, <2>4 DEF Level, LevelSoFar, OnlyFileOf
    <2>6. NamelessAborts'
      BY <2>1, <2>2 DEF Level, NamelessAborts
    <2>7. TextInHand'
      <3>1. PICK g \in File \ pending : files[g] = text
        BY <2>1 DEF Level, TextInHand
      <3>2. CASE pc' = "removeService" /\ ~ok
        <4>1. before'[unit.service].hash = NoVersion
          BY <2>1, <2>2, <2>3, <3>2
        <4> QED
          BY <2>1, <3>1, <4>1, NoneType DEF TextInHand
      <3>3. CASE pc' = "removeService" /\ ok
        <4>1. hash[unit.service] # text /\ before' = before /\ unit.service \in Service
          BY <2>2, <2>3, <3>3
        <4>2. OnlyFileOf(g) => before[unit.service].hash # text
          BY <2>1, <3>1, <4>1 DEF Level, LevelSoFar
        <4> QED
          BY <2>1, <3>1, <4>1, <4>2 DEF TextInHand, OnlyFileOf
      <3> QED
        BY <1>5, <3>2, <3>3 DEF TextInHand, Handling
    <2> QED
      BY <2>5, <2>6, <2>7 DEF Level
  <1>6. ASSUME NEW ok, RemoveService(ok) \/ AddService(ok), pc' # "aborted"
        PROVE  Level'
    <2>1. /\ pc \in Handling \ {"parse"} /\ UNCHANGED <<files, pending, text, before>>
          /\ pc' \in Reloading \ {"parse"}
      BY <1>6 DEF RemoveService, AddService, Handling, journal
    <2>2. /\ hash \in [Service -> Version \cup {NoVersion}]
          /\ rvector \in [Service -> Nat]
      BY DEF Typed, TypeOK
    <2>3. \/ hash' = hash /\ rvector' = rvector
          \/ \E v : /\ hash' = [hash EXCEPT ![unit.service] = v]
                    /\ rvector' = [rvector EXCEPT ![unit.service] = 0]
      BY <1>6 DEF RemoveService, AddService, journal
    <2>4. \A t \in Service :
            t # unit.service => hash'[t] = hash[t] /\ rvector'[t] = rvector[t]
      BY <2>2, <2>3
    <2> QED
      BY <2>1, <2>4, ReplaceKeepsLevel
  <1>7. CASE /\ pc \in Handling \ {"parse"} /\ pc' \in Reloading \ {"parse"}
             /\ UNCHANGED <<files, hash, rvector, pending, text, before>>
    BY <1>7, ReplaceKeepsLevel
  <1>8. \/ pc' \in {"off", "ready", "aborted"}
        \/ UNCHANGED <<files, hash, rvector, pending, text, before, pc>>
        \/ Start
        \/ \E f \in File : OpenUnit(f)
        \/ \E ok \in Ok : \/ ParseDone(ok) /\ pc' \in {"scan", "removeService"}
                          \/ RemoveService(ok) \/ AddService(ok)
        \/ /\ pc \in Handling \ {"parse"} /\ pc' \in Reloading \ {"parse"}
           /\ UNCHANGED <<files, hash, rvector, pending, text, before>>
    <2>1. \A f \in File, v \in Version \cup {NoVersion} : EditFile(f, v) => pc' \in {"off", "ready"}
      BY DEF EditFile
    <2>2. \A ok : ParseDone(ok) => pc' \in {"aborted", "scan", "removeService"}
      BY DEF ParseDone
    <2>3. \A ok : RemoveActions(ok) \/ RemoveFriends(ok) =>
            /\ pc \in Handling \ {"parse"} /\ pc' \in Reloading \ {"parse"}
            /\ UNCHANGED <<files, hash, rvector, pending, text, before>>
      BY DEF RemoveActions, RemoveFriends, Handling
    <2>4. ActionsAdded \/ FriendsAdded =>
            /\ pc \in Handling \ {"parse"} /\ pc' \in Reloading \ {"parse"}
            /\ UNCHANGED <<files, hash, rvector, pending, text, before>>
      BY DEF ActionsAdded, FriendsAdded, Handling, journal
    <2>5. \A s \in Service : CountOrRelax(s) => pc' = "ready"
      BY DEF CountOrRelax
    <2> QED
      BY <2>1, <2>2, <2>3, <2>4, <2>5
      DEF Next, vars, journal, Stop, ReloadDone, parser_start_element, parser_text_data,
          add_action_for_service, add_friend_for_service
  <1> QED
    BY <1>1, <1>2, <1>3, <1>4, <1>5, <1>6, <1>7, <1>8

(* A reload that finds the unit it found last time leaves the service its    *)
(* hash and its rvector (rmg_journal_reload_units, rmg_journal_get_hash).    *)
THEOREM LevelIsKept == Spec => LevelKept
  <1>1. Init => Level
    BY DEF Init, Level, TextInHand, NamelessAborts, LevelSoFar, Handling, Reloading
  <1>2. Typed /\ Level /\ [Next]_vars => Level'
    BY LevelStep
  <1>3. ASSUME Typed, Level, ReloadDone, NEW f \in File, OnlyFileOf(f),
               before[ServiceOf(f)].hash = files[f]
        PROVE  /\ hash[ServiceOf(f)] = files[f]
               /\ rvector[ServiceOf(f)] = before[ServiceOf(f)].rvector
    <2>1. pc = "scan" /\ pending = {}
      BY <1>3 DEF ReloadDone
    <2>2. ServiceOf(f) # NoService
      BY <1>3, <2>1 DEF Level, NamelessAborts, Reloading, OnlyFileOf, ServiceOf
    <2>3. files[f] \in Version
      BY <1>3 DEF OnlyFileOf, Typed, TypeOK
    <2>4. ServiceOf(f) \in Service
      BY <2>2, <2>3, ContentType DEF Text, ServiceOf
    <2> QED
      BY <1>3, <2>1, <2>4 DEF Level, LevelSoFar, Reloading
  <1>4. Typed /\ Level /\ ReloadDone =>
          \A f \in File :
            LET s == Content[files[f]].service
            IN OnlyFileOf(f) /\ before[s].hash = files[f]
                 => hash[s] = files[f] /\ rvector[s] = before[s].rvector
    BY <1>3 DEF ServiceOf
  <1> QED
    BY TypedInit, TypedStep, <1>1, <1>2, <1>4, PTL DEF Spec, LevelKept
=============================================================================
