---------------------------- MODULE MonitorProofs ----------------------------
(* Theorems about how an instance learns of its services, for any number of  *)
(* them, any bounds, and whatever fails or is killed.                        *)
EXTENDS Monitor, SequenceLemmas

-----------------------------------------------------------------------------
(* What the steps do to the bus and to the entries.                          *)

(* TypeOK, but for the count of answers.                                     *)
Typed ==
  /\ unit_state \in [Unit -> State \cup {"unloaded"}]
  /\ bus \in Seq(BusMessage)
  /\ phase \in {"running", "down"}
  /\ mqueue \in Seq(MonitorEvent)
  /\ proxy \in BOOLEAN /\ relaxing \in BOOLEAN /\ degraded \in BOOLEAN
  /\ entries \in Seq(Entry)
  /\ failures \in [Service -> Nat]
  /\ \A k \in DOMAIN bus : bus[k].type # "UnitNew" => bus[k].entry \in DOMAIN entries

(* The messages that wait stay where they are, new ones come behind them.    *)
Extended(q, longer) ==
  /\ longer \in Seq(BusMessage)
  /\ DOMAIN q \subseteq DOMAIN longer
  /\ \A k \in DOMAIN q : longer[k] = q[k]
  /\ \A j \in DOMAIN q, k \in DOMAIN longer \ DOMAIN q : j < k

LEMMA AppendExtends ==
  ASSUME NEW q \in Seq(BusMessage), NEW m \in BusMessage
  PROVE  /\ Extended(q, Append(q, m))
         /\ DOMAIN Append(q, m) = DOMAIN q \cup {Len(q) + 1}
         /\ Append(q, m)[Len(q) + 1] = m /\ Len(q) + 1 \notin DOMAIN q
  <1>1. /\ Len(q) \in Nat /\ DOMAIN q = 1 .. Len(q)
        /\ Append(q, m) \in Seq(BusMessage) /\ DOMAIN Append(q, m) = 1 .. Len(q) + 1
        /\ Append(q, m)[Len(q) + 1] = m
        /\ \A k \in 1 .. Len(q) : Append(q, m)[k] = q[k]
    BY LenProperties, AppendProperties
  <1> HIDE DEF BusMessage
  <1> QED
    BY <1>1 DEF Extended

LEMMA ConcatExtends ==
  ASSUME NEW q \in Seq(BusMessage), NEW block \in Seq(BusMessage)
  PROVE  /\ Extended(q, q \o block)
         /\ \A k \in DOMAIN (q \o block) \ DOMAIN q :
              \E j \in DOMAIN block : (q \o block)[k] = block[j]
         /\ \A j \in DOMAIN block :
              \E k \in DOMAIN (q \o block) \ DOMAIN q : (q \o block)[k] = block[j]
  <1> DEFINE n == Len(q)
             m == Len(block)
             all == q \o block
  <1>1. /\ n \in Nat /\ m \in Nat /\ DOMAIN q = 1 .. n /\ DOMAIN block = 1 .. m
        /\ all \in Seq(BusMessage) /\ DOMAIN all = 1 .. n + m
        /\ \A k \in 1 .. n + m : all[k] = IF k <= n THEN q[k] ELSE block[k - n]
    BY LenProperties, ConcatProperties
  <1> HIDE DEF n, m, all
  <1>2. Extended(q, all)
    BY <1>1 DEF Extended
  <1>3. ASSUME NEW k \in DOMAIN all \ DOMAIN q
        PROVE  \E j \in DOMAIN block : all[k] = block[j]
    <2>1. k - n \in 1 .. m /\ all[k] = block[k - n]
      BY <1>1
    <2> QED
      BY <1>1, <2>1
  <1>4. ASSUME NEW j \in DOMAIN block
        PROVE  \E k \in DOMAIN all \ DOMAIN q : all[k] = block[j]
    <2>1. n + j \in 1 .. n + m /\ ~(n + j <= n) /\ (n + j) - n = j
      BY <1>1
    <2> QED
      BY <1>1, <2>1
  <1> QED
    BY <1>2, <1>3, <1>4 DEF all

(* One message is taken, the others move up.                                 *)
LEMMA TailMoves ==
  ASSUME NEW q \in Seq(BusMessage), q # <<>>
  PROVE  /\ Tail(q) \in Seq(BusMessage)
         /\ Head(q) = q[1] /\ 1 \in DOMAIN q /\ Head(q) \in BusMessage
         /\ \A k \in DOMAIN Tail(q) : /\ k \in Nat /\ 1 < k + 1 /\ k + 1 \in DOMAIN q
                                      /\ Tail(q)[k] = q[k + 1]
         /\ \A k \in DOMAIN q : k = 1 \/ (k - 1 \in DOMAIN Tail(q) /\ k \in Nat)
  <1>1. /\ Len(q) \in Nat /\ Len(q) # 0 /\ DOMAIN q = 1 .. Len(q)
        /\ Tail(q) \in Seq(BusMessage) /\ Len(Tail(q)) = Len(q) - 1
        /\ \A k \in 1 .. Len(q) - 1 : Tail(q)[k] = q[k + 1]
    BY LenProperties, EmptySeq, HeadTailProperties
  <1>2. DOMAIN Tail(q) = 1 .. Len(q) - 1
    BY <1>1, LenProperties
  <1>3. Head(q) = q[1] /\ q[1] \in BusMessage
    BY <1>1, HeadTailProperties
  <1> HIDE DEF BusMessage
  <1> QED
    BY <1>1, <1>2, <1>3

(* An announcement reaches every entry that matches and no other.            *)
LEMMA AnnounceReaches ==
  ASSUME Typed, NEW u \in Service, NEW st \in State, Announce(u, st)
  PROVE  /\ Extended(bus, bus')
         /\ \A k \in DOMAIN bus' \ DOMAIN bus :
              /\ bus'[k].type = "PropertiesChanged" /\ bus'[k].state = st
              /\ bus'[k].entry \in Matching(u)
         /\ \A i \in Matching(u) :
              \E k \in DOMAIN bus' \ DOMAIN bus : bus'[k].entry = i
  <1> DEFINE S == Matching(u)
             order == Ascending(S)
             block == [k \in DOMAIN order |->
                         [type |-> "PropertiesChanged", state |-> st, entry |-> order[k]]]
  <1>1. /\ DOMAIN entries = 1 .. Len(entries) /\ Len(entries) \in Nat
        /\ entries \in Seq(Entry)
    BY LenProperties DEF Typed
  <1>2. S \in SUBSET Nat /\ IsFiniteSet(S) /\ S \subseteq Index
    <2>1. IsFiniteSet(1 .. Len(entries))
      BY <1>1, FS_Interval
    <2>2. S \in SUBSET (1 .. Len(entries))
      BY <1>1 DEF Matching
    <2>3. IsFiniteSet(S)
      BY <2>1, <2>2, FS_Subset
    <2> QED
      BY <1>1, <2>2, <2>3 DEF Index
  <1>3. /\ order \in Seq(S)
        /\ \A x \in S : \E k \in DOMAIN order : order[k] = x
    BY <1>2, AscendingProperties
  <1> HIDE DEF S, order
  <1>4. DOMAIN order = 1 .. Len(order) /\ Len(order) \in Nat
        /\ \A k \in DOMAIN order : order[k] \in S
    BY <1>3, LenProperties
  <1>5. \A k \in DOMAIN order : block[k] \in BusMessage
    BY <1>2, <1>4 DEF BusMessage
  <1>6. block \in Seq(BusMessage) /\ DOMAIN block = DOMAIN order
    <2>1. DOMAIN block = DOMAIN order
      OBVIOUS
    <2> HIDE DEF BusMessage, block
    <2>2. block = [k \in 1 .. Len(order) |-> block[k]]
      BY <1>4, <2>1 DEF block
    <2> QED
      BY <1>4, <1>5, <2>1, <2>2
  <1>7. bus' = bus \o block /\ bus \in Seq(BusMessage)
    BY DEF Announce, Typed, S, order
  <1>8. \A k \in DOMAIN block : /\ block[k].type = "PropertiesChanged"
                                /\ block[k].state = st /\ block[k].entry = order[k]
    BY <1>6
  <1> HIDE DEF block
  <1>9. /\ Extended(bus, bus')
        /\ \A k \in DOMAIN bus' \ DOMAIN bus : \E j \in DOMAIN block : bus'[k] = block[j]
        /\ \A j \in DOMAIN block :
             \E k \in DOMAIN bus' \ DOMAIN bus : bus'[k] = block[j]
    <2>1. /\ Extended(bus, bus \o block)
          /\ \A k \in DOMAIN (bus \o block) \ DOMAIN bus :
               \E j \in DOMAIN block : (bus \o block)[k] = block[j]
          /\ \A j \in DOMAIN block :
               \E k \in DOMAIN (bus \o block) \ DOMAIN bus : (bus \o block)[k] = block[j]
      BY <1>6, <1>7, ConcatExtends
    <2> QED
      BY <1>7, <2>1
  <1>10. ASSUME NEW k \in DOMAIN bus' \ DOMAIN bus
         PROVE  /\ bus'[k].type = "PropertiesChanged" /\ bus'[k].state = st
                /\ bus'[k].entry \in S
    BY <1>4, <1>6, <1>8, <1>9
  <1>11. ASSUME NEW i \in S
         PROVE  \E k \in DOMAIN bus' \ DOMAIN bus : bus'[k].entry = i
    BY <1>3, <1>6, <1>8, <1>9
  <1> QED
    BY <1>9, <1>10, <1>11 DEF S

(* One entry changes.                                                        *)
LEMMA EntryChanges ==
  ASSUME Typed, NEW i \in DOMAIN entries, NEW e \in Entry,
         entries' = [entries EXCEPT ![i] = e]
  PROVE  /\ entries' \in Seq(Entry) /\ DOMAIN entries' = DOMAIN entries
         /\ entries'[i] = e
         /\ \A j \in DOMAIN entries : j # i => entries'[j] = entries[j]
  <1>1. /\ entries \in Seq(Entry) /\ DOMAIN entries = 1 .. Len(entries)
        /\ i \in 1 .. Len(entries)
    BY LenProperties DEF Typed
  <1>2. /\ entries' \in Seq(Entry) /\ Len(entries') = Len(entries)
        /\ \A j \in 1 .. Len(entries) : entries'[j] = IF j = i THEN e ELSE entries[j]
    <2> HIDE DEF Entry
    <2> QED
      BY <1>1, ExceptSeq
  <1>3. DOMAIN entries' = 1 .. Len(entries')
    BY <1>2, LenProperties
  <1> QED
    BY <1>1, <1>2, <1>3

LEMMA ProxyChanges ==
  ASSUME Typed, NEW i \in DOMAIN entries,
         NEW p \in {"building", "answered", "ready", "failed"},
         entries' = [entries EXCEPT ![i].proxy = p]
  PROVE  /\ entries' \in Seq(Entry) /\ DOMAIN entries' = DOMAIN entries
         /\ \A j \in DOMAIN entries : j # i => entries'[j] = entries[j]
         /\ entries'[i].proxy = p
         /\ entries'[i].unit = entries[i].unit /\ entries'[i].state = entries[i].state
         /\ entries'[i].stale = entries[i].stale
         /\ entries'[i].crashes = entries[i].crashes
  <1> DEFINE e == [entries[i] EXCEPT !.proxy = p]
  <1>1. entries[i] \in Entry
    BY DEF Typed
  <1>2. /\ e \in Entry /\ e.proxy = p /\ e.unit = entries[i].unit
        /\ e.state = entries[i].state /\ e.stale = entries[i].stale
        /\ e.crashes = entries[i].crashes
    BY <1>1 DEF Entry
  <1>3. entries' = [entries EXCEPT ![i] = e]
    OBVIOUS
  <1> HIDE DEF e
  <1> QED
    BY <1>2, <1>3, EntryChanges

(* What an entry does with a state it is told.                               *)
HearsOf(old, e, new) ==
  /\ e.unit = old.unit /\ e.proxy = old.proxy
  /\ IF old.proxy = "ready"
     THEN /\ e.state = new /\ e.stale = FALSE
          /\ e.crashes = IF old.state # "failed" /\ new = "failed"
                         THEN old.crashes + 1 ELSE old.crashes
     ELSE e.state = old.state /\ e.crashes = old.crashes /\ (~e.stale => old.state = new)

LEMMA StateChanges ==
  ASSUME Typed, NEW i \in DOMAIN entries, NEW new \in State, on_properties_changed(i, new)
  PROVE  /\ entries' \in Seq(Entry) /\ DOMAIN entries' = DOMAIN entries
         /\ \A j \in DOMAIN entries : j # i => entries'[j] = entries[j]
         /\ HearsOf(entries[i], entries'[i], new)
  <1> DEFINE old == entries[i]
             told == [old EXCEPT !.state = StateAfter(old.state, new), !.stale = FALSE,
                                 !.crashes = IF Crashed(old.state, new)
                                             THEN old.crashes + 1 ELSE old.crashes]
             deaf == [old EXCEPT !.stale = (old.state # new)]
             e == IF old.proxy = "ready" THEN told ELSE deaf
  <1>1. old \in Entry
    BY DEF Typed
  <1>2. /\ told \in Entry /\ told.unit = old.unit /\ told.proxy = old.proxy
        /\ told.state = new /\ told.stale = FALSE
        /\ told.crashes = IF old.state # "failed" /\ new = "failed"
                          THEN old.crashes + 1 ELSE old.crashes
    <2> DEFINE c == IF Crashed(old.state, new) THEN old.crashes + 1 ELSE old.crashes
               plain == [old EXCEPT !.state = new, !.stale = FALSE, !.crashes = c]
    <2>1. c \in Nat
      BY <1>1 DEF Entry
    <2>2. told = plain
      BY <1>1 DEF StateAfter, Entry
    <2>3. c = IF old.state # "failed" /\ new = "failed" THEN old.crashes + 1 ELSE old.crashes
      BY DEF Crashed
    <2> HIDE DEF c, told, old
    <2>4. /\ plain \in Entry /\ plain.unit = old.unit /\ plain.proxy = old.proxy
          /\ plain.state = new /\ plain.stale = FALSE /\ plain.crashes = c
      BY <1>1, <2>1 DEF Entry
    <2> QED
      BY <2>2, <2>3, <2>4
  <1>3. /\ deaf \in Entry /\ deaf.unit = old.unit /\ deaf.proxy = old.proxy
        /\ deaf.state = old.state /\ deaf.crashes = old.crashes
        /\ deaf.stale = (old.state # new)
    BY <1>1 DEF Entry
  <1>4. entries' = [entries EXCEPT ![i] = e]
    BY DEF on_properties_changed
  <1> HIDE DEF told, deaf, old
  <1>5. e \in Entry /\ HearsOf(old, e, new)
    BY <1>2, <1>3 DEF HearsOf
  <1> HIDE DEF e
  <1> QED
    BY <1>4, <1>5, EntryChanges DEF old

(* Entries are only added, for services that have none that is ready, with   *)
(* the state the list has for them or taken to be dead.                      *)
Grown ==
  /\ entries' \in Seq(Entry) /\ DOMAIN entries \subseteq DOMAIN entries'
  /\ \A i \in DOMAIN entries : entries'[i] = entries[i]
  /\ \A i \in DOMAIN entries' \ DOMAIN entries :
       \E u \in Service, st \in State : entries'[i] = NewEntry(u, st)

LEMMA NewEntryType ==
  ASSUME NEW u \in Service, NEW st \in State
  PROVE  /\ NewEntry(u, st) \in Entry
         /\ NewEntry(u, st).unit = u /\ NewEntry(u, st).state = st
         /\ NewEntry(u, st).crashes = 0 /\ NewEntry(u, st).proxy = "building"
         /\ NewEntry(u, st).stale = (unit_state[u] \notin {st, "unloaded"})
  BY DEF NewEntry, Entry

LEMMA UnitNewGrows ==
  ASSUME Typed, NEW u \in Unit, on_unit_new(u)
  PROVE  /\ Grown
         /\ \A i \in DOMAIN entries' \ DOMAIN entries :
              u \in Service /\ entries'[i] = NewEntry(u, "other")
         /\ u \in Service => \E i \in DOMAIN entries' : entries'[i].unit = u
  <1>1. CASE Added(u)
    <2> DEFINE e == NewEntry(u, "other")
    <2>1. u \in Service /\ "other" \in State /\ entries \in Seq(Entry)
      BY <1>1 DEF Added, State, Typed
    <2>2. e \in Entry /\ e.unit = u
      BY <2>1, NewEntryType
    <2>3. entries' = Append(entries, e)
      BY <1>1 DEF on_unit_new
    <2> HIDE DEF e
    <2>4. /\ Len(entries) \in Nat /\ DOMAIN entries = 1 .. Len(entries)
          /\ entries' \in Seq(Entry) /\ DOMAIN entries' = 1 .. Len(entries) + 1
          /\ entries'[Len(entries) + 1] = e
          /\ \A i \in 1 .. Len(entries) : entries'[i] = entries[i]
      BY <2>1, <2>2, <2>3, LenProperties, AppendProperties
    <2> HIDE DEF Entry
    <2>5. \A i \in DOMAIN entries' \ DOMAIN entries : entries'[i] = e
      BY <2>4
    <2> QED
      BY <2>1, <2>2, <2>4, <2>5 DEF Grown, e
  <1>2. CASE ~Added(u)
    BY <1>2 DEF on_unit_new, Grown, Typed, Added, check_existent
  <1> QED
    BY <1>1, <1>2

LEMMA ReadGrows ==
  ASSUME Typed,
         entries' = entries \o [k \in DOMAIN ToAdd |->
                                  NewEntry(ToAdd[k], unit_state[ToAdd[k]])]
  PROVE  /\ Grown
         /\ \A i \in DOMAIN entries' \ DOMAIN entries :
              \E u \in Service : /\ unit_state[u] \in State
                                 /\ entries'[i] = NewEntry(u, unit_state[u])
         /\ \A u \in Loaded : Added(u) => \E i \in DOMAIN entries' : entries'[i].unit = u
  <1> DEFINE S == {u \in Loaded : Added(u)}
             more == [k \in DOMAIN ToAdd |-> NewEntry(ToAdd[k], unit_state[ToAdd[k]])]
  <1>1. IsFiniteSet(S)
    <2>1. S \in SUBSET Unit /\ IsFiniteSet(Unit)
      BY ServiceAssumption DEF Loaded
    <2> HIDE DEF S
    <2> QED
      BY <2>1, FS_Subset
  <1>2. /\ ToAdd \in Seq(S)
        /\ \A x \in S : \E k \in DOMAIN ToAdd : ToAdd[k] = x
    BY <1>1, SetToSeqProperties DEF ToAdd
  <1>3. \A u \in S : u \in Service /\ unit_state[u] \in State
    BY ServiceAssumption DEF Loaded, Added, Typed
  <1> HIDE DEF S
  <1>4. /\ DOMAIN ToAdd = 1 .. Len(ToAdd) /\ Len(ToAdd) \in Nat
        /\ \A k \in DOMAIN ToAdd : ToAdd[k] \in S
    BY <1>2, LenProperties
  <1>5. DOMAIN more = DOMAIN ToAdd
    OBVIOUS
  <1>6. \A k \in DOMAIN more : /\ more[k] = NewEntry(ToAdd[k], unit_state[ToAdd[k]])
                               /\ more[k] \in Entry
    BY <1>3, <1>4, NewEntryType
  <1>7. more \in Seq(Entry)
    <2> HIDE DEF Entry
    <2>1. more = [k \in 1 .. Len(ToAdd) |-> more[k]]
      BY <1>4
    <2> HIDE DEF more
    <2> QED
      BY <1>4, <1>5, <1>6, <2>1
  <1>8. entries' = entries \o more /\ entries \in Seq(Entry)
    BY DEF Typed
  <1> HIDE DEF more, Entry
  <1> DEFINE n == Len(entries)
             m == Len(more)
  <1>9. /\ n \in Nat /\ m \in Nat /\ DOMAIN entries = 1 .. n /\ DOMAIN more = 1 .. m
        /\ entries \o more \in Seq(Entry) /\ DOMAIN (entries \o more) = 1 .. n + m
        /\ \A k \in 1 .. n + m :
             (entries \o more)[k] = IF k <= n THEN entries[k] ELSE more[k - n]
    BY <1>7, <1>8, LenProperties, ConcatProperties
  <1>10. /\ entries' \in Seq(Entry) /\ DOMAIN entries' = 1 .. n + m
         /\ \A k \in 1 .. n + m : entries'[k] = IF k <= n THEN entries[k] ELSE more[k - n]
    BY <1>8, <1>9
  <1> HIDE DEF n, m
  <1>11. ASSUME NEW i \in DOMAIN entries' \ DOMAIN entries
         PROVE  \E u \in Service : /\ unit_state[u] \in State
                                   /\ entries'[i] = NewEntry(u, unit_state[u])
    <2>0. i \in 1 .. n + m /\ ~(i <= n)
      BY <1>9, <1>10
    <2>1. i - n \in 1 .. m /\ entries'[i] = more[i - n]
      BY <1>9, <1>10, <2>0
    <2>2. i - n \in DOMAIN ToAdd /\ i - n \in DOMAIN more
      BY <1>5, <1>9, <2>1
    <2> QED
      BY <1>3, <1>4, <1>6, <2>1, <2>2
  <1>12. ASSUME NEW u \in Loaded, Added(u)
         PROVE  \E i \in DOMAIN entries' : entries'[i].unit = u
    <2>1. u \in S
      BY <1>12 DEF S
    <2>2. PICK k \in DOMAIN ToAdd : ToAdd[k] = u
      BY <1>2, <2>1
    <2>3. more[k].unit = u
      BY <1>3, <1>5, <1>6, <2>1, <2>2, NewEntryType
    <2>4. k \in 1 .. m /\ n + k \in 1 .. n + m /\ ~(n + k <= n) /\ (n + k) - n = k
      <3>1. n \in Nat /\ m \in Nat /\ DOMAIN more = 1 .. m
        BY <1>9
      <3>2. k \in 1 .. m
        BY <1>5, <2>2, <3>1
      <3> QED
        BY <3>1, <3>2
    <2>5. entries'[n + k] = more[k]
      BY <1>10, <2>4
    <2>6. n + k \in DOMAIN entries' /\ entries'[n + k].unit = u
      BY <1>10, <2>3, <2>4, <2>5
    <2> QED
      BY <2>6
  <1>13. Grown
    <2>1. /\ DOMAIN entries \subseteq DOMAIN entries'
          /\ \A i \in DOMAIN entries : entries'[i] = entries[i]
      BY <1>9, <1>10
    <2> QED
      BY <1>10, <1>11, <2>1 DEF Grown
  <1> QED
    BY <1>11, <1>12, <1>13

-----------------------------------------------------------------------------
(* The shape of the state.                                                   *)

(* One answer waits for each entry that was answered, none for the others;   *)
(* an entry reports nothing before it is ready; a process that is down has   *)
(* nothing.                                                                  *)
OneAnswer ==
  \A i \in DOMAIN entries :
    IF entries[i].proxy = "answered" THEN \E k : Answer(i) = {k} ELSE Answer(i) = {}
ReadyReports ==
  \A i \in DOMAIN entries : entries[i].proxy # "ready" => entries[i].crashes = 0
DownIsEmpty ==
  phase = "down" =>
    bus = <<>> /\ entries = <<>> /\ mqueue = <<>> /\ ~proxy /\ ~degraded
Shape == Typed /\ OneAnswer /\ ReadyReports /\ DownIsEmpty

LEMMA ShapeInit == Init => Shape
  <1>1. ASSUME Init
        PROVE  Typed
    <2>1. FirstEvents \in Seq(MonitorEvent)
      BY DEF FirstEvents, MonitorEvent
    <2>2. bus \in Seq(BusMessage) /\ entries \in Seq(Entry)
      BY <1>1, EmptySeq DEF Init
    <2>3. DOMAIN bus = {}
      BY <1>1 DEF Init
    <2> HIDE DEF BusMessage, Entry, MonitorEvent
    <2> QED
      BY <1>1, <2>1, <2>2, <2>3 DEF Init, Typed
  <1>2. ASSUME Init
        PROVE  DOMAIN entries = {} /\ phase = "running"
    BY <1>2 DEF Init
  <1> QED
    BY <1>1, <1>2 DEF Shape, OneAnswer, ReadyReports, DownIsEmpty

(* Messages that are no answers change no entry's answer.                    *)
LEMMA AnswersStay ==
  ASSUME Shape, Extended(bus, bus'),
         \A k \in DOMAIN bus' \ DOMAIN bus : bus'[k].type # "ProxyReady"
  PROVE  \A i \in DOMAIN entries : Answer(i)' = Answer(i)
  BY DEF Extended, Answer

(* Entries that are added and messages that reach old entries only.          *)
LEMMA GrownKeepsShape ==
  ASSUME Shape, Grown, phase' = phase, phase = "running", bus' \in Seq(BusMessage),
         \A k \in DOMAIN bus' : bus'[k].type # "UnitNew" => bus'[k].entry \in DOMAIN entries,
         \A i \in DOMAIN entries : Answer(i)' = Answer(i)
  PROVE  OneAnswer' /\ ReadyReports' /\ DownIsEmpty'
  <1>1. ASSUME NEW i \in DOMAIN entries' \ DOMAIN entries
        PROVE  Answer(i)' = {} /\ entries'[i].proxy = "building" /\ entries'[i].crashes = 0
    BY <1>1, NewEntryType DEF Grown, Answer
  <1>2. OneAnswer'
    <2>1. ASSUME NEW i \in DOMAIN entries'
          PROVE  IF entries'[i].proxy = "answered" THEN \E k : Answer(i)' = {k}
                 ELSE Answer(i)' = {}
      BY <1>1 DEF Shape, OneAnswer, Grown
    <2> QED
      BY <2>1 DEF OneAnswer, Answer
  <1> QED
    BY <1>1, <1>2 DEF Shape, ReadyReports, DownIsEmpty, Grown

(* What a dispatched message does, by its type.                              *)
LEMMA MessageTypes ==
  ASSUME NEW m \in BusMessage
  PROVE  \/ m.type = "UnitNew" /\ m.unit \in Unit
         \/ m.type = "PropertiesChanged" /\ m.entry \in Index /\ m.state \in State
         \/ m.type = "ProxyReady" /\ m.entry \in Index /\ m.ok \in BOOLEAN
  BY DEF BusMessage

LEMMA DispatchKeepsShape ==
  ASSUME Shape, BusDispatch
  PROVE  Shape'
  <1> DEFINE m == Head(bus)
  <1>1. /\ bus \in Seq(BusMessage) /\ bus # <<>> /\ bus' = Tail(bus) /\ phase = "running"
        /\ UNCHANGED <<unit_state, failures, phase, mqueue, proxy, relaxing, degraded>>
    BY DEF BusDispatch, Shape, Typed, systemd, monitor
  <1>2. /\ bus' \in Seq(BusMessage) /\ m = bus[1] /\ 1 \in DOMAIN bus /\ m \in BusMessage
        /\ \A k \in DOMAIN bus' : k \in Nat /\ k + 1 \in DOMAIN bus /\ bus'[k] = bus[k + 1]
        /\ \A k \in DOMAIN bus : k = 1 \/ (k - 1 \in DOMAIN bus' /\ k \in Nat)
    <2> HIDE DEF BusMessage
    <2> QED
      BY <1>1, TailMoves
  <1> HIDE DEF m
  <1>3. \A k \in DOMAIN bus' : bus'[k].type # "UnitNew" => bus'[k].entry \in DOMAIN entries
    BY <1>2 DEF Shape, Typed
  <1>4. DownIsEmpty'
    BY <1>1 DEF DownIsEmpty
  <1>5. ASSUME NEW i \in DOMAIN entries, 1 \notin Answer(i)
        PROVE  /\ Answer(i) = {} => Answer(i)' = {}
               /\ \A k : Answer(i) = {k} => Answer(i)' = {k - 1}
    <2>1. \A k \in DOMAIN bus' : k \in Answer(i)' <=> k + 1 \in Answer(i)
      BY <1>2 DEF Answer
    <2>2. \A k \in Answer(i) : k \in Nat /\ k - 1 \in DOMAIN bus'
      BY <1>2, <1>5 DEF Answer
    <2>3. Answer(i)' \subseteq DOMAIN bus' /\ \A k \in DOMAIN bus' : k \in Nat
      BY <1>2 DEF Answer
    <2>4. Answer(i) = {} => Answer(i)' = {}
      BY <2>1, <2>3
    <2>5. ASSUME NEW k, Answer(i) = {k}
          PROVE  Answer(i)' = {k - 1}
      <3>1. k \in Nat /\ k - 1 \in DOMAIN bus' /\ (k - 1) + 1 = k
        BY <2>2, <2>5
      <3>2. \A j \in Answer(i)' : j \in Nat /\ j + 1 = k
        BY <2>1, <2>3, <2>5
      <3>3. k - 1 \in Answer(i)'
        BY <2>1, <2>5, <3>1
      <3> QED
        BY <3>1, <3>2, <3>3
    <2> QED
      BY <2>4, <2>5
  <1>6. CASE m.type = "UnitNew" /\ on_unit_new(m.unit)
    <2>1. m.unit \in Unit
      BY <1>2, <1>6, MessageTypes
    <2>2. Grown
      BY <1>6, <2>1, UnitNewGrows DEF Shape
    <2>3. Typed'
      BY <1>1, <1>2, <1>3, <2>2 DEF Shape, Typed, Grown
    <2>4. OneAnswer'
      <3>1. ASSUME NEW i \in DOMAIN entries
            PROVE  IF entries'[i].proxy = "answered" THEN \E k : Answer(i)' = {k}
                   ELSE Answer(i)' = {}
        <4>1. 1 \notin Answer(i)
          BY <1>2, <1>6 DEF Answer
        <4>2. entries'[i] = entries[i]
          BY <2>2 DEF Grown
        <4> QED
          BY <1>5, <4>1, <4>2 DEF Shape, OneAnswer
      <3>2. ASSUME NEW i \in DOMAIN entries' \ DOMAIN entries
            PROVE  entries'[i].proxy = "building" /\ Answer(i)' = {}
        <4>1. entries'[i].proxy = "building"
          BY <2>2, NewEntryType DEF Grown
        <4>2. \A k \in DOMAIN bus' : bus'[k].type = "ProxyReady" => bus'[k].entry # i
          BY <1>3
        <4> QED
          BY <4>1, <4>2 DEF Answer
      <3> QED
        BY <3>1, <3>2, <2>2 DEF OneAnswer, Grown, Answer
    <2>5. ReadyReports'
      BY <2>2, NewEntryType DEF Shape, ReadyReports, Grown
    <2> QED
      BY <1>4, <2>3, <2>4, <2>5 DEF Shape
  <1>7. CASE m.type = "PropertiesChanged" /\ on_properties_changed(m.entry, m.state)
    <2> DEFINE i == m.entry
    <2>1. i \in DOMAIN entries /\ m.state \in State
      BY <1>2, <1>7, MessageTypes DEF Shape, Typed
    <2>2. /\ entries' \in Seq(Entry) /\ DOMAIN entries' = DOMAIN entries
          /\ \A j \in DOMAIN entries : j # i => entries'[j] = entries[j]
          /\ HearsOf(entries[i], entries'[i], m.state)
      BY <1>7, <2>1, StateChanges DEF Shape
    <2> HIDE DEF i
    <2>3. Typed'
      BY <1>1, <1>2, <1>3, <2>2 DEF Shape, Typed
    <2>4. \A j \in DOMAIN entries : entries'[j].proxy = entries[j].proxy
      BY <2>1, <2>2 DEF HearsOf
    <2>5. OneAnswer'
      <3>1. \A j \in DOMAIN entries : 1 \notin Answer(j)
        BY <1>2, <1>7 DEF Answer
      <3>2. ASSUME NEW j \in DOMAIN entries
            PROVE  IF entries'[j].proxy = "answered" THEN \E k : Answer(j)' = {k}
                   ELSE Answer(j)' = {}
        BY <1>5, <2>4, <3>1 DEF Shape, OneAnswer
      <3> QED
        BY <2>2, <3>2 DEF OneAnswer, Answer
    <2>6. ReadyReports'
      BY <2>1, <2>2 DEF Shape, ReadyReports, HearsOf
    <2> QED
      BY <1>4, <2>3, <2>5, <2>6 DEF Shape
  <1>8. CASE m.type = "ProxyReady" /\ proxy_ready_async_cb(m.entry, m.ok)
    <2> DEFINE p == IF m.ok THEN "ready" ELSE "failed"
    <2>0. m.entry \in DOMAIN entries
      BY <1>2, <1>8 DEF Shape, Typed
    <2>1. PICK i \in DOMAIN entries : i = m.entry
      BY <2>0
    <2>2. /\ entries' \in Seq(Entry) /\ DOMAIN entries' = DOMAIN entries
          /\ \A j \in DOMAIN entries : j # i => entries'[j] = entries[j]
          /\ entries'[i].proxy = p /\ entries'[i].crashes = entries[i].crashes
      <3>1. p \in {"building", "answered", "ready", "failed"}
        OBVIOUS
      <3>2. entries' = [entries EXCEPT ![i].proxy = p]
        BY <1>8, <2>1 DEF proxy_ready_async_cb
      <3> HIDE DEF p
      <3> QED
        BY <2>1, <3>1, <3>2, ProxyChanges DEF Shape
    <2>3. Answer(i) = {1} /\ entries[i].proxy = "answered"
      <3>1. 1 \in Answer(i)
        BY <1>2, <1>8, <2>1 DEF Answer
      <3> QED
        BY <2>1, <3>1 DEF Shape, OneAnswer
    <2>4. Answer(i)' = {}
      <3>1. \A k \in DOMAIN bus' : k + 1 # 1
        BY <1>2
      <3>2. \A k \in DOMAIN bus' : k \in Answer(i)' => k + 1 \in Answer(i)
        BY <1>2 DEF Answer
      <3>3. Answer(i)' \subseteq DOMAIN bus'
        BY DEF Answer
      <3> QED
        BY <2>3, <3>1, <3>2, <3>3
    <2>5. \A j \in DOMAIN entries : j # i => 1 \notin Answer(j)
      BY <1>2, <2>1 DEF Answer
    <2>6. OneAnswer'
      <3>1. ASSUME NEW j \in DOMAIN entries
            PROVE  IF entries'[j].proxy = "answered" THEN \E k : Answer(j)' = {k}
                   ELSE Answer(j)' = {}
        <4>1. CASE j = i
          <5>1. entries'[j].proxy # "answered" /\ Answer(j)' = {}
            BY <2>2, <2>4, <4>1
          <5> QED
            BY <5>1
        <4>2. CASE j # i
          BY <1>5, <2>2, <2>5, <4>2 DEF Shape, OneAnswer
        <4> QED
          BY <4>1, <4>2
      <3> QED
        BY <2>2, <3>1 DEF OneAnswer, Answer
    <2>7. Typed'
      BY <1>1, <1>2, <1>3, <2>2 DEF Shape, Typed
    <2>8. ReadyReports'
      BY <2>1, <2>2, <2>3 DEF Shape, ReadyReports
    <2> QED
      BY <1>4, <2>6, <2>7, <2>8 DEF Shape
  <1> QED
    BY <1>6, <1>7, <1>8 DEF BusDispatch, m

(* An announcement, by which nothing else but the unit's state may change.   *)
LEMMA AnnounceKeepsShape ==
  ASSUME Shape, NEW u \in Service, NEW st \in State, Announce(u, st),
         unit_state' \in [Unit -> State \cup {"unloaded"}], failures' \in [Service -> Nat],
         phase' = phase, mqueue' = mqueue, proxy' = proxy, relaxing' = relaxing,
         entries' = entries, degraded' = degraded
  PROVE  Shape'
  <1>1. /\ Extended(bus, bus')
        /\ \A k \in DOMAIN bus' \ DOMAIN bus :
             bus'[k].type = "PropertiesChanged" /\ bus'[k].entry \in Matching(u)
    BY AnnounceReaches DEF Shape
  <1>2. /\ bus' \in Seq(BusMessage)
        /\ \A k \in DOMAIN bus' : bus'[k].type # "UnitNew" => bus'[k].entry \in DOMAIN entries
    BY <1>1 DEF Extended, Matching, Shape, Typed
  <1>3. Typed'
    BY <1>2 DEF Shape, Typed
  <1>4. \A i \in DOMAIN entries : Answer(i)' = Answer(i)
    BY <1>1, AnswersStay
  <1>5. OneAnswer'
    BY <1>4 DEF Shape, OneAnswer, Answer
  <1>6. ASSUME phase = "down"
        PROVE  bus' = <<>>
    <2>1. DOMAIN entries = {} /\ DOMAIN bus = {}
      BY <1>6 DEF Shape, DownIsEmpty
    <2>2. DOMAIN bus' = {}
      BY <1>1, <2>1 DEF Matching
    <2>3. DOMAIN bus' = 1 .. Len(bus') /\ Len(bus') \in Nat
      BY <1>2, LenProperties
    <2>4. Len(bus') = 0
      BY <2>2, <2>3
    <2> HIDE DEF BusMessage
    <2> QED
      BY <1>2, <2>4, EmptySeq
  <1>7. DownIsEmpty'
    BY <1>6 DEF Shape, DownIsEmpty
  <1> QED
    BY <1>3, <1>5, <1>7 DEF Shape, ReadyReports

(* A message to which no other matches is appended.                          *)
LEMMA UnitLoadsKeepsShape ==
  ASSUME Shape, NEW u \in Unit, UnitLoads(u)
  PROVE  Shape'
  <1> DEFINE m == [type |-> "UnitNew", unit |-> u]
  <1>1. m \in BusMessage /\ m.type = "UnitNew"
    BY DEF BusMessage
  <1>2. /\ unit_state' \in [Unit -> State \cup {"unloaded"}]
        /\ UNCHANGED <<failures, phase, mqueue, proxy, relaxing, entries, degraded>>
        /\ bus' = IF proxy THEN Append(bus, m) ELSE bus
    BY DEF UnitLoads, monitor, Shape, Typed, State
  <1> HIDE DEF m
  <1>3. CASE ~proxy
    <2>1. UNCHANGED <<bus, entries, phase, mqueue, proxy, degraded>>
      BY <1>2, <1>3
    <2>2. Typed'
      BY <1>2, <2>1 DEF Shape, Typed
    <2> QED
      BY <2>1, <2>2 DEF Shape, OneAnswer, Answer, ReadyReports, DownIsEmpty
  <1>4. CASE proxy
    <2>1. /\ Extended(bus, bus')
          /\ \A k \in DOMAIN bus' \ DOMAIN bus : bus'[k].type = "UnitNew"
      <3>1. bus \in Seq(BusMessage) /\ bus' = Append(bus, m)
        BY <1>2, <1>4 DEF Shape, Typed
      <3> QED
        BY <1>1, <3>1, AppendExtends
    <2>2. /\ bus' \in Seq(BusMessage)
          /\ \A k \in DOMAIN bus' : bus'[k].type # "UnitNew" => bus'[k].entry \in DOMAIN entries
      BY <2>1 DEF Extended, Shape, Typed
    <2>3. Typed'
      BY <1>2, <2>2 DEF Shape, Typed
    <2>4. \A i \in DOMAIN entries : Answer(i)' = Answer(i)
      BY <2>1, AnswersStay
    <2>5. OneAnswer'
      BY <1>2, <2>4 DEF Shape, OneAnswer, Answer
    <2>6. phase # "down"
      BY <1>4 DEF Shape, DownIsEmpty
    <2> QED
      BY <1>2, <2>3, <2>5, <2>6 DEF Shape, ReadyReports, DownIsEmpty
  <1> QED
    BY <1>3, <1>4

LEMMA ProxyAnsweredKeepsShape ==
  ASSUME Shape, NEW i \in DOMAIN entries, NEW ok \in BOOLEAN, ProxyAnswered(i, ok)
  PROVE  Shape'
  <1> DEFINE m == [type |-> "ProxyReady", entry |-> i, ok |-> ok]
  <1>1. m \in BusMessage /\ m.type = "ProxyReady" /\ m.entry = i
    <2>1. i \in Index
      BY LenProperties DEF Shape, Typed, Index
    <2> QED
      BY <2>1 DEF BusMessage
  <1>2. /\ UNCHANGED <<unit_state, failures, phase, mqueue, proxy, relaxing, degraded>>
        /\ bus' = Append(bus, m) /\ bus \in Seq(BusMessage)
        /\ entries[i].proxy = "building"
    BY DEF ProxyAnswered, systemd, monitor, Shape, Typed
  <1>3. /\ entries' \in Seq(Entry) /\ DOMAIN entries' = DOMAIN entries
        /\ \A j \in DOMAIN entries : j # i => entries'[j] = entries[j]
        /\ entries'[i].proxy = "answered" /\ entries'[i].crashes = entries[i].crashes
    BY ProxyChanges DEF ProxyAnswered, Shape
  <1> HIDE DEF m
  <1>4. /\ Extended(bus, bus')
        /\ DOMAIN bus' = DOMAIN bus \cup {Len(bus) + 1}
        /\ bus'[Len(bus) + 1] = m /\ Len(bus) + 1 \notin DOMAIN bus
    BY <1>1, <1>2, AppendExtends
  <1>5. /\ bus' \in Seq(BusMessage)
        /\ \A k \in DOMAIN bus' : bus'[k].type # "UnitNew" => bus'[k].entry \in DOMAIN entries
    BY <1>1, <1>4 DEF Extended, Shape, Typed
  <1>6. Typed'
    BY <1>2, <1>3, <1>5 DEF Shape, Typed
  <1>7. Answer(i)' = {Len(bus) + 1}
    <2>1. Answer(i) = {}
      BY <1>2 DEF Shape, OneAnswer
    <2> QED
      BY <1>1, <1>4, <2>1 DEF Answer, Extended
  <1>8. \A j \in DOMAIN entries : j # i => Answer(j)' = Answer(j)
    BY <1>1, <1>4 DEF Answer, Extended
  <1>9. OneAnswer'
    <2>1. ASSUME NEW j \in DOMAIN entries
          PROVE  IF entries'[j].proxy = "answered" THEN \E k : Answer(j)' = {k}
                 ELSE Answer(j)' = {}
      <3>1. CASE j = i
        <4>1. entries'[j].proxy = "answered" /\ Answer(j)' = {Len(bus) + 1}
          BY <1>3, <1>7, <3>1
        <4> QED
          BY <4>1
      <3>2. CASE j # i
        BY <1>3, <1>8, <3>2 DEF Shape, OneAnswer
      <3> QED
        BY <3>1, <3>2
    <2> QED
      BY <1>3, <2>1 DEF OneAnswer, Answer
  <1>10. ReadyReports'
    BY <1>2, <1>3 DEF Shape, ReadyReports
  <1>11. phase # "down"
    BY DEF Shape, DownIsEmpty
  <1> QED
    BY <1>2, <1>6, <1>9, <1>10, <1>11 DEF Shape, DownIsEmpty

(* The monitor's queue and the shape of the state survive its own events.    *)
LEMMA MonitorTakesOne ==
  ASSUME Typed, NEW type, MonitorTakes(type)
  PROVE  phase = "running" /\ phase' = phase => mqueue' \in Seq(MonitorEvent)
  <1>1. mqueue \in Seq(MonitorEvent) /\ mqueue # <<>> /\ mqueue' = Tail(mqueue)
    BY DEF Typed, MonitorTakes
  <1> QED
    BY <1>1, HeadTailProperties

LEMMA MonitorKeepsShape ==
  ASSUME Shape, NEW ok \in BOOLEAN, monitor_build_proxy(ok) \/ monitor_read_services(ok)
  PROVE  Shape'
  <1>1. phase = "running" /\ UNCHANGED <<unit_state, failures, bus, phase>>
    BY DEF monitor_build_proxy, monitor_read_services, systemd, MonitorTakes
  <1>2. mqueue' \in Seq(MonitorEvent) /\ proxy' \in BOOLEAN /\ relaxing' \in BOOLEAN
        /\ degraded' \in BOOLEAN
    <2>1. mqueue' \in Seq(MonitorEvent)
      BY <1>1, MonitorTakesOne DEF Shape, monitor_build_proxy, monitor_read_services
    <2> QED
      BY <2>1 DEF Shape, Typed, monitor_build_proxy, monitor_read_services
  <1>3. CASE UNCHANGED entries
    <2>1. Typed'
      BY <1>1, <1>2, <1>3 DEF Shape, Typed
    <2> QED
      BY <1>1, <1>3, <2>1 DEF Shape, OneAnswer, Answer, ReadyReports, DownIsEmpty
  <1>4. CASE entries' = entries \o [k \in DOMAIN ToAdd |->
                                      NewEntry(ToAdd[k], unit_state[ToAdd[k]])]
    <2>1. Grown
      BY <1>4, ReadGrows DEF Shape
    <2>2. Typed'
      BY <1>1, <1>2, <2>1 DEF Shape, Typed, Grown
    <2>3. OneAnswer' /\ ReadyReports' /\ DownIsEmpty'
      <3>1. /\ bus' \in Seq(BusMessage)
            /\ \A k \in DOMAIN bus' : bus'[k].type # "UnitNew" => bus'[k].entry \in DOMAIN entries
            /\ \A i \in DOMAIN entries : Answer(i)' = Answer(i)
        BY <1>1 DEF Shape, Typed, Answer
      <3>2. phase' = phase /\ phase = "running"
        BY <1>1
      <3> QED
        BY <2>1, <3>1, <3>2, GrownKeepsShape
    <2> QED
      BY <2>2, <2>3 DEF Shape
  <1> QED
    BY <1>3, <1>4 DEF monitor_build_proxy, monitor_read_services

LEMMA ShapeStep == Shape /\ [Next]_vars => Shape'
  <1> SUFFICES ASSUME Shape, [Next]_vars
               PROVE  Shape'
    OBVIOUS
  <1>1. ASSUME NEW u \in Unit, UnitLoads(u)
        PROVE  Shape'
    BY <1>1, UnitLoadsKeepsShape
  <1>2. ASSUME NEW u \in Unit, UnitUnloads(u)
        PROVE  Shape'
    <2>1. /\ unit_state' \in [Unit -> State \cup {"unloaded"}]
          /\ UNCHANGED <<bus, phase, mqueue, proxy, relaxing, entries, failures, degraded>>
      BY <1>2 DEF UnitUnloads, monitor, Shape, Typed
    <2>2. Typed'
      BY <2>1 DEF Shape, Typed
    <2> QED
      BY <2>1, <2>2 DEF Shape, OneAnswer, Answer, ReadyReports, DownIsEmpty
  <1>3. ASSUME NEW u \in Service, UnitAnnounced(u)
        PROVE  Shape'
    <2>1. unit_state[u] \in State
      BY <1>3, ServiceAssumption DEF UnitAnnounced, Shape, Typed
    <2> QED
      BY <1>3, <2>1, AnnounceKeepsShape
      DEF UnitAnnounced, systemd, monitor, Shape, Typed
  <1>4. ASSUME NEW u \in Service, NEW st \in State, UnitChanges(u, st)
        PROVE  Shape'
    <2>1. /\ unit_state' \in [Unit -> State \cup {"unloaded"}]
          /\ failures' \in [Service -> Nat]
          /\ phase' = phase /\ mqueue' = mqueue /\ proxy' = proxy /\ relaxing' = relaxing
          /\ entries' = entries /\ degraded' = degraded
          /\ Announce(u, st)
      <3>1. unit_state' = [unit_state EXCEPT ![u] = st]
            /\ unit_state \in [Unit -> State \cup {"unloaded"}]
        BY <1>4 DEF UnitChanges, Shape, Typed
      <3>2. unit_state' \in [Unit -> State \cup {"unloaded"}]
        BY <3>1
      <3>3. failures' \in [Service -> Nat]
        <4>1. failures \in [Service -> Nat]
          BY DEF Shape, Typed
        <4>2. failures' \in {failures, [failures EXCEPT ![u] = @ + 1]}
          BY <1>4 DEF UnitChanges
        <4> QED
          BY <4>1, <4>2
      <3> QED
        BY <1>4, <3>2, <3>3 DEF UnitChanges, monitor
    <2> QED
      BY <2>1, AnnounceKeepsShape
  <1>5. ASSUME NEW i \in DOMAIN entries, NEW ok \in BOOLEAN, ProxyAnswered(i, ok)
        PROVE  Shape'
    BY <1>5, ProxyAnsweredKeepsShape
  <1>6. CASE BusDispatch
    BY <1>6, DispatchKeepsShape
  <1>7. ASSUME NEW ok \in BOOLEAN, monitor_build_proxy(ok) \/ monitor_read_services(ok)
        PROVE  Shape'
    BY <1>7, MonitorKeepsShape
  <1>8. CASE Stop
    <2>1. /\ bus' = <<>> /\ mqueue' = <<>> /\ entries' = <<>> /\ ~proxy' /\ ~degraded'
          /\ DOMAIN bus' = {} /\ DOMAIN entries' = {}
      BY <1>8 DEF Stop
    <2>2. Typed'
      <3>1. /\ bus' \in Seq(BusMessage) /\ entries' \in Seq(Entry)
            /\ mqueue' \in Seq(MonitorEvent)
        BY <2>1, EmptySeq
      <3> HIDE DEF BusMessage, Entry, MonitorEvent
      <3> QED
        BY <1>8, <2>1, <3>1 DEF Stop, Shape, Typed
    <2> QED
      BY <2>1, <2>2 DEF Shape, OneAnswer, ReadyReports, DownIsEmpty
  <1>9. CASE Start
    <2>1. FirstEvents \in Seq(MonitorEvent)
      BY DEF FirstEvents, MonitorEvent
    <2>2. /\ UNCHANGED <<unit_state, failures, bus, proxy, relaxing, entries, degraded>>
          /\ phase' = "running" /\ mqueue' = FirstEvents
      BY <1>9 DEF Start, systemd
    <2>3. Typed'
      BY <2>1, <2>2 DEF Shape, Typed
    <2> QED
      BY <2>2, <2>3 DEF Shape, OneAnswer, Answer, ReadyReports, DownIsEmpty
  <1>10. CASE UNCHANGED vars
    <2>1. Typed'
      BY <1>10 DEF vars, Shape, Typed
    <2> QED
      BY <1>10, <2>1 DEF vars, Shape, OneAnswer, Answer, ReadyReports, DownIsEmpty
  <1> QED
    BY <1>1, <1>2, <1>3, <1>4, <1>5, <1>6, <1>7, <1>8, <1>9, <1>10 DEF Next

(* Whatever fails and whenever the process is killed, every message is for   *)
(* an entry that exists and exactly one answer waits for an entry that was   *)
(* answered (proxy_ready_async_cb).                                          *)
THEOREM TypeCorrect == Spec => []TypeOK
  <1>1. Shape => TypeOK
    <2>1. ASSUME Shape, NEW i \in DOMAIN entries
          PROVE  Cardinality(Answer(i)) = IF entries[i].proxy = "answered" THEN 1 ELSE 0
      BY <2>1, FS_EmptySet, FS_Singleton DEF Shape, OneAnswer
    <2> QED
      BY <2>1 DEF Shape, Typed, TypeOK
  <1> QED
    BY ShapeInit, ShapeStep, <1>1, PTL DEF Spec

-----------------------------------------------------------------------------
(* What a step may mean to one entry that was not dropped.                   *)

(* The states that wait for entry i.                                         *)
News(i) == {k \in DOMAIN bus : bus[k].type = "PropertiesChanged" /\ bus[k].entry = i}

SameEntry(i) ==
  /\ i \in DOMAIN entries /\ entries[i].proxy # "failed"
  /\ entries'[i].unit = entries[i].unit /\ entries'[i].state = entries[i].state
  /\ entries'[i].stale = entries[i].stale /\ entries'[i].crashes = entries[i].crashes

(* Nothing: its unit is loaded or unloaded at most.                          *)
Rests(i) ==
  /\ SameEntry(i)
  /\ News(i)' = News(i) /\ \A k \in News(i) : bus'[k] = bus[k]
  /\ failures'[entries[i].unit] = failures[entries[i].unit]
  /\ \/ unit_state'[entries[i].unit] = unit_state[entries[i].unit]
     \/ /\ unit_state[entries[i].unit] \in {"other", "unloaded"}
        /\ unit_state'[entries[i].unit] \in {"other", "unloaded"}

(* A message is taken from the bus.                                          *)
MovesUp(i) ==
  /\ UNCHANGED <<unit_state, failures>>
  /\ \A k \in News(i)' : /\ k \in Nat /\ 1 < k + 1 /\ k + 1 \in News(i)
                         /\ bus'[k] = bus[k + 1]
  /\ \A k \in News(i) : k \in Nat /\ (k = 1 \/ k - 1 \in News(i)')
OthersMessage(i) == SameEntry(i) /\ MovesUp(i) /\ 1 \notin News(i)
ItsMessage(i) ==
  /\ i \in DOMAIN entries /\ entries[i].proxy # "failed"
  /\ MovesUp(i) /\ 1 \in News(i) /\ HearsOf(entries[i], entries'[i], bus[1].state)

(* Its unit is announced, for the first time in this state or again.         *)
IsTold(i) ==
  /\ SameEntry(i)
  /\ Extended(bus, bus')
  /\ \E k \in News(i)' : k \notin DOMAIN bus
  /\ \A k \in News(i)' \ DOMAIN bus : bus'[k].state = unit_state'[entries[i].unit]
  /\ unit_state'[entries[i].unit] \in State
  /\ \/ /\ unit_state'[entries[i].unit] = unit_state[entries[i].unit]
        /\ failures'[entries[i].unit] = failures[entries[i].unit]
     \/ /\ unit_state'[entries[i].unit] # unit_state[entries[i].unit]
        /\ failures'[entries[i].unit] = IF unit_state'[entries[i].unit] = "failed"
                                        THEN failures[entries[i].unit] + 1
                                        ELSE failures[entries[i].unit]

(* It is made, with the state that was listed or after it was loaded.        *)
IsMade(i) ==
  /\ i \notin DOMAIN entries /\ News(i)' = {}
  /\ UNCHANGED <<unit_state, failures>>
  /\ \E u \in Service, st \in State :
       /\ entries'[i] = NewEntry(u, st)
       /\ \/ st = unit_state[u]
          \/ /\ st = "other"
             /\ \E k \in DOMAIN bus : bus[k].type = "UnitNew" /\ bus[k].unit = u

LEMMA EntryTyped ==
  ASSUME Shape, NEW i \in DOMAIN entries
  PROVE  /\ entries[i] \in Entry /\ entries[i].unit \in Service /\ entries[i].unit \in Unit
         /\ entries[i].state \in State /\ entries[i].crashes \in Nat
         /\ entries[i].stale \in BOOLEAN
  <1>1. entries \in Seq(Entry)
    BY DEF Shape, Typed
  <1>2. entries[i] \in Entry
    <2> HIDE DEF Entry
    <2> QED
      BY <1>1, LenProperties
  <1> QED
    BY <1>2, ServiceAssumption DEF Entry

(* A step by which nothing changes for the entries that are there.           *)
LEMMA QuietRests ==
  ASSUME Shape, NEW i \in DOMAIN entries, entries[i].proxy # "failed",
         entries' = entries, unit_state' = unit_state, failures' = failures,
         bus' = bus
  PROVE  Rests(i)
  BY DEF Rests, SameEntry, News

LEMMA AnnounceMeans ==
  ASSUME Shape, NEW u \in Service, NEW st \in State, Announce(u, st),
         NEW i \in DOMAIN entries, entries[i].proxy # "failed",
         entries' = entries, unit_state' = [unit_state EXCEPT ![u] = st],
         \/ st = unit_state[u] /\ failures' = failures
         \/ /\ st # unit_state[u]
            /\ failures' = IF st = "failed" THEN [failures EXCEPT ![u] = @ + 1] ELSE failures
  PROVE  Rests(i) \/ IsTold(i)
  <1>1. /\ Extended(bus, bus')
        /\ \A k \in DOMAIN bus' \ DOMAIN bus :
             /\ bus'[k].type = "PropertiesChanged" /\ bus'[k].state = st
             /\ bus'[k].entry \in Matching(u)
        /\ \A j \in Matching(u) : \E k \in DOMAIN bus' \ DOMAIN bus : bus'[k].entry = j
    BY AnnounceReaches DEF Shape
  <1>2. /\ unit_state \in [Unit -> State \cup {"unloaded"}] /\ failures \in [Service -> Nat]
        /\ entries[i].unit \in Service /\ entries[i].unit \in Unit /\ u \in Unit
    BY ServiceAssumption, EntryTyped DEF Shape, Typed
  <1>3. SameEntry(i)
    BY DEF SameEntry
  <1>4. CASE entries[i].unit = u
    <2>1. i \in Matching(u)
      BY <1>4 DEF Matching
    <2>2. \E k \in News(i)' : k \notin DOMAIN bus
      BY <1>1, <2>1 DEF News
    <2>3. unit_state'[u] = st
      BY <1>2
    <2>4. \A k \in News(i)' \ DOMAIN bus : bus'[k].state = st
      BY <1>1 DEF News
    <2>5. \/ /\ unit_state'[u] = unit_state[u] /\ failures'[u] = failures[u]
          \/ /\ unit_state'[u] # unit_state[u]
             /\ failures'[u] = IF unit_state'[u] = "failed" THEN failures[u] + 1
                               ELSE failures[u]
      BY <1>2, <2>3
    <2> QED
      BY <1>1, <1>3, <1>4, <2>2, <2>3, <2>4, <2>5 DEF IsTold
  <1>5. CASE entries[i].unit # u
    <2>1. i \notin Matching(u)
      BY <1>5 DEF Matching
    <2>2. News(i)' = News(i) /\ \A k \in News(i) : bus'[k] = bus[k]
      BY <1>1, <2>1 DEF News, Extended
    <2>3. /\ unit_state'[entries[i].unit] = unit_state[entries[i].unit]
          /\ failures'[entries[i].unit] = failures[entries[i].unit]
      BY <1>2, <1>5
    <2> QED
      BY <1>3, <2>2, <2>3 DEF Rests
  <1> QED
    BY <1>4, <1>5

(* A message that announces nothing to an entry leaves them at rest.         *)
LEMMA AppendMeans ==
  ASSUME Shape, NEW m \in BusMessage, m.type # "PropertiesChanged",
         bus' = Append(bus, m), NEW i
  PROVE  News(i)' = News(i) /\ \A k \in News(i) : bus'[k] = bus[k]
  <1>1. /\ Extended(bus, bus')
        /\ DOMAIN bus' = DOMAIN bus \cup {Len(bus) + 1}
        /\ bus'[Len(bus) + 1] = m /\ Len(bus) + 1 \notin DOMAIN bus
    BY AppendExtends DEF Shape, Typed
  <1> HIDE DEF BusMessage
  <1> QED
    BY <1>1 DEF News, Extended

LEMMA DispatchMeans ==
  ASSUME Shape, BusDispatch, NEW i \in DOMAIN entries', entries'[i].proxy # "failed"
  PROVE  OthersMessage(i) \/ ItsMessage(i) \/ IsMade(i)
  <1> DEFINE m == Head(bus)
  <1>1. /\ bus \in Seq(BusMessage) /\ bus # <<>> /\ bus' = Tail(bus)
        /\ UNCHANGED <<unit_state, failures>>
    BY DEF BusDispatch, Shape, Typed, systemd
  <1>2. /\ m = bus[1] /\ 1 \in DOMAIN bus /\ m \in BusMessage
        /\ \A k \in DOMAIN bus' : /\ k \in Nat /\ 1 < k + 1 /\ k + 1 \in DOMAIN bus
                                 /\ bus'[k] = bus[k + 1]
        /\ \A k \in DOMAIN bus : k = 1 \/ (k - 1 \in DOMAIN bus' /\ k \in Nat)
    <2> HIDE DEF BusMessage
    <2> QED
      BY <1>1, TailMoves
  <1> HIDE DEF m
  <1>3. MovesUp(i)
    <2>1. \A k \in News(i)' : /\ k \in Nat /\ 1 < k + 1 /\ k + 1 \in News(i)
                              /\ bus'[k] = bus[k + 1]
      BY <1>2 DEF News
    <2>2. ASSUME NEW k \in News(i)
          PROVE  k \in Nat /\ (k = 1 \/ k - 1 \in News(i)')
      <3>1. CASE k = 1
        BY <3>1
      <3>2. CASE k # 1
        <4>1. k - 1 \in DOMAIN bus' /\ k \in Nat
          BY <1>2, <2>2, <3>2 DEF News
        <4>2. bus'[k - 1] = bus[k]
          BY <1>2, <4>1
        <4> QED
          BY <2>2, <4>1, <4>2 DEF News
      <3> QED
        BY <3>1, <3>2
    <2> QED
      BY <1>1, <2>1, <2>2 DEF MovesUp
  <1>4. CASE m.type = "UnitNew" /\ on_unit_new(m.unit)
    <2>1. m.unit \in Unit
      BY <1>2, <1>4, MessageTypes
    <2>2. /\ Grown
          /\ \A j \in DOMAIN entries' \ DOMAIN entries :
               m.unit \in Service /\ entries'[j] = NewEntry(m.unit, "other")
      BY <1>4, <2>1, UnitNewGrows DEF Shape
    <2>3. CASE i \in DOMAIN entries
      <3>1. entries'[i] = entries[i] /\ 1 \notin News(i)
        BY <1>2, <1>4, <2>2, <2>3 DEF News, Grown
      <3> QED
        BY <1>3, <2>3, <3>1 DEF OthersMessage, SameEntry
    <2>4. CASE i \notin DOMAIN entries
      <3>1. ASSUME NEW k \in DOMAIN bus', bus'[k].type = "PropertiesChanged"
            PROVE  bus'[k].entry # i
        <4>1. k + 1 \in DOMAIN bus /\ bus'[k] = bus[k + 1]
          BY <1>2
        <4> QED
          BY <2>4, <3>1, <4>1 DEF Shape, Typed
      <3>2. News(i)' = {}
        BY <3>1 DEF News
      <3>3. m.unit \in Service /\ "other" \in State /\ entries'[i] = NewEntry(m.unit, "other")
        BY <2>2, <2>4 DEF State
      <3> QED
        BY <1>1, <1>2, <1>4, <2>4, <3>2, <3>3 DEF IsMade
    <2> QED
      BY <2>3, <2>4
  <1>5. CASE m.type = "PropertiesChanged" /\ on_properties_changed(m.entry, m.state)
    <2>0. m.entry \in DOMAIN entries /\ m.state \in State
      BY <1>2, <1>5, MessageTypes DEF Shape, Typed
    <2>1. PICK h \in DOMAIN entries : h = m.entry
      BY <2>0
    <2>2. /\ DOMAIN entries' = DOMAIN entries
          /\ \A j \in DOMAIN entries : j # h => entries'[j] = entries[j]
          /\ HearsOf(entries[h], entries'[h], m.state)
      BY <1>5, <2>0, <2>1, StateChanges DEF Shape
    <2>3. CASE i = h
      <3>1. 1 \in News(i)
        BY <1>2, <1>5, <2>1, <2>3 DEF News
      <3>2. HearsOf(entries[i], entries'[i], bus[1].state)
        BY <1>2, <2>2, <2>3
      <3> QED
        BY <1>3, <2>2, <3>1, <3>2 DEF ItsMessage, HearsOf
    <2>4. CASE i # h
      <3>1. 1 \notin News(i) /\ entries'[i] = entries[i] /\ i \in DOMAIN entries
        BY <1>2, <2>1, <2>2, <2>4 DEF News
      <3> QED
        BY <1>3, <3>1 DEF OthersMessage, SameEntry
    <2> QED
      BY <2>3, <2>4
  <1>6. CASE m.type = "ProxyReady" /\ proxy_ready_async_cb(m.entry, m.ok)
    <2>0. m.entry \in DOMAIN entries
      BY <1>2, <1>6 DEF Shape, Typed
    <2>1. PICK h \in DOMAIN entries : h = m.entry
      BY <2>0
    <2>2. /\ DOMAIN entries' = DOMAIN entries
          /\ \A j \in DOMAIN entries : j # h => entries'[j] = entries[j]
          /\ entries'[h].unit = entries[h].unit /\ entries'[h].state = entries[h].state
          /\ entries'[h].stale = entries[h].stale
          /\ entries'[h].crashes = entries[h].crashes
      <3> DEFINE p == IF m.ok THEN "ready" ELSE "failed"
      <3>1. p \in {"building", "answered", "ready", "failed"}
        OBVIOUS
      <3>2. entries' = [entries EXCEPT ![h].proxy = p]
        BY <1>6, <2>1 DEF proxy_ready_async_cb
      <3> HIDE DEF p
      <3> QED
        BY <3>1, <3>2, ProxyChanges DEF Shape
    <2>3. entries[h].proxy = "answered"
      <3>1. 1 \in Answer(h)
        BY <1>2, <1>6, <2>1 DEF Answer
      <3> QED
        BY <3>1 DEF Shape, OneAnswer
    <2>4. 1 \notin News(i)
      BY <1>2, <1>6 DEF News
    <2>5. SameEntry(i)
      BY <2>2, <2>3 DEF SameEntry
    <2> QED
      BY <1>3, <2>4, <2>5 DEF OthersMessage
  <1> QED
    BY <1>4, <1>5, <1>6 DEF BusDispatch, m

LEMMA StepMeans ==
  ASSUME Shape, [Next]_vars, NEW i \in DOMAIN entries', entries'[i].proxy # "failed"
  PROVE  Rests(i) \/ IsTold(i) \/ OthersMessage(i) \/ ItsMessage(i) \/ IsMade(i)
  <1>1. ASSUME NEW u \in Unit, UnitLoads(u)
        PROVE  Rests(i)
    <2> DEFINE m == [type |-> "UnitNew", unit |-> u]
    <2>1. m \in BusMessage /\ m.type # "PropertiesChanged"
      BY DEF BusMessage
    <2>2. bus' = Append(bus, m) \/ bus' = bus
      BY <1>1 DEF UnitLoads
    <2>3. /\ entries' = entries /\ failures' = failures
          /\ unit_state[u] = "unloaded" /\ unit_state' = [unit_state EXCEPT ![u] = "other"]
          /\ unit_state \in [Unit -> State \cup {"unloaded"}]
      BY <1>1 DEF UnitLoads, Shape, Typed
    <2> HIDE DEF m
    <2>4. News(i)' = News(i) /\ \A k \in News(i) : bus'[k] = bus[k]
      <3>1. CASE bus' = bus
        BY <3>1 DEF News
      <3>2. CASE bus' = Append(bus, m)
        BY <2>1, <3>2, AppendMeans
      <3> QED
        BY <2>2, <3>1, <3>2
    <2>5. entries[i].unit \in Unit
      BY <2>3, EntryTyped
    <2>6. SameEntry(i)
      BY <2>3 DEF SameEntry
    <2> QED
      BY <2>3, <2>4, <2>5, <2>6 DEF Rests
  <1>2. ASSUME NEW u \in Unit, UnitUnloads(u)
        PROVE  Rests(i)
    <2>1. /\ entries' = entries /\ failures' = failures /\ bus' = bus
          /\ unit_state[u] = "other" /\ unit_state' = [unit_state EXCEPT ![u] = "unloaded"]
          /\ unit_state \in [Unit -> State \cup {"unloaded"}]
      BY <1>2 DEF UnitUnloads, Shape, Typed
    <2>2. entries[i].unit \in Unit
      BY <2>1, EntryTyped
    <2>3. SameEntry(i) /\ News(i)' = News(i)
      BY <2>1 DEF SameEntry, News
    <2> QED
      BY <2>1, <2>2, <2>3 DEF Rests
  <1>3. ASSUME NEW u \in Service, UnitAnnounced(u)
        PROVE  Rests(i) \/ IsTold(i)
    <2>1. /\ u \in Unit /\ unit_state[u] \in State /\ Announce(u, unit_state[u])
          /\ entries' = entries /\ failures' = failures
          /\ unit_state' = [unit_state EXCEPT ![u] = unit_state[u]]
      BY <1>3, ServiceAssumption DEF UnitAnnounced, systemd, Shape, Typed
    <2> QED
      BY <2>1, AnnounceMeans
  <1>4. ASSUME NEW u \in Service, NEW st \in State, UnitChanges(u, st)
        PROVE  Rests(i) \/ IsTold(i)
    <2>1. /\ Announce(u, st) /\ entries' = entries /\ st # unit_state[u]
          /\ unit_state' = [unit_state EXCEPT ![u] = st]
      BY <1>4 DEF UnitChanges
    <2>2. phase = "running"
      BY <2>1 DEF Shape, Typed, DownIsEmpty
    <2>3. failures' = IF st = "failed" THEN [failures EXCEPT ![u] = @ + 1] ELSE failures
      BY <1>4, <2>2 DEF UnitChanges
    <2> QED
      BY <2>1, <2>3, AnnounceMeans
  <1>5. ASSUME NEW h \in DOMAIN entries, NEW ok \in BOOLEAN, ProxyAnswered(h, ok)
        PROVE  Rests(i)
    <2> DEFINE m == [type |-> "ProxyReady", entry |-> h, ok |-> ok]
    <2>1. m \in BusMessage /\ m.type # "PropertiesChanged"
      <3>1. h \in Index
        BY LenProperties DEF Shape, Typed, Index
      <3> QED
        BY <3>1 DEF BusMessage
    <2>2. /\ bus' = Append(bus, m) /\ unit_state' = unit_state /\ failures' = failures
          /\ entries[h].proxy = "building"
      BY <1>5 DEF ProxyAnswered, systemd
    <2>3. /\ DOMAIN entries' = DOMAIN entries
          /\ \A j \in DOMAIN entries : j # h => entries'[j] = entries[j]
          /\ entries'[h].unit = entries[h].unit /\ entries'[h].state = entries[h].state
          /\ entries'[h].stale = entries[h].stale
          /\ entries'[h].crashes = entries[h].crashes
      BY <1>5, ProxyChanges DEF ProxyAnswered, Shape
    <2> HIDE DEF m
    <2>4. News(i)' = News(i) /\ \A k \in News(i) : bus'[k] = bus[k]
      BY <2>1, <2>2, AppendMeans
    <2>5. SameEntry(i)
      BY <2>2, <2>3 DEF SameEntry
    <2> QED
      BY <2>2, <2>4, <2>5 DEF Rests
  <1>6. CASE BusDispatch
    BY <1>6, DispatchMeans
  <1>7. ASSUME NEW ok \in BOOLEAN, monitor_build_proxy(ok) \/ monitor_read_services(ok)
        PROVE  Rests(i) \/ IsMade(i)
    <2>1. unit_state' = unit_state /\ failures' = failures /\ bus' = bus
      BY <1>7 DEF monitor_build_proxy, monitor_read_services, systemd
    <2>2. CASE entries' = entries
      BY <2>1, <2>2, QuietRests
    <2>3. CASE entries' = entries \o [k \in DOMAIN ToAdd |->
                                        NewEntry(ToAdd[k], unit_state[ToAdd[k]])]
      <3>1. /\ Grown
            /\ \A j \in DOMAIN entries' \ DOMAIN entries :
                 \E u \in Service : /\ unit_state[u] \in State
                                    /\ entries'[j] = NewEntry(u, unit_state[u])
        BY <2>3, ReadGrows DEF Shape
      <3>2. CASE i \in DOMAIN entries
        <4>1. entries'[i] = entries[i] /\ News(i)' = News(i)
          BY <2>1, <3>1, <3>2 DEF Grown, News
        <4>2. SameEntry(i)
          BY <3>2, <4>1 DEF SameEntry
        <4> QED
          BY <2>1, <4>1, <4>2 DEF Rests
      <3>3. CASE i \notin DOMAIN entries
        <4>1. \A k \in DOMAIN bus : bus[k].type = "PropertiesChanged" => bus[k].entry # i
          BY <3>3 DEF Shape, Typed
        <4>2. News(i)' = {}
          BY <2>1, <4>1 DEF News
        <4>3. PICK u \in Service : /\ unit_state[u] \in State
                                   /\ entries'[i] = NewEntry(u, unit_state[u])
          BY <3>1, <3>3
        <4> QED
          BY <2>1, <3>3, <4>2, <4>3 DEF IsMade
      <3> QED
        BY <3>2, <3>3
    <2> QED
      BY <1>7, <2>2, <2>3 DEF monitor_build_proxy, monitor_read_services
  <1>8. CASE Stop
    BY <1>8 DEF Stop
  <1>9. CASE Start
    <2>1. /\ entries' = entries /\ unit_state' = unit_state /\ failures' = failures
          /\ bus' = bus
      BY <1>9 DEF Start, systemd
    <2> QED
      BY <2>1, QuietRests
  <1>10. CASE UNCHANGED vars
    <2>1. /\ entries' = entries /\ unit_state' = unit_state /\ failures' = failures
          /\ bus' = bus
      BY <1>10 DEF vars
    <2> QED
      BY <2>1, QuietRests
  <1> QED
    BY <1>1, <1>2, <1>3, <1>4, <1>5, <1>6, <1>7, <1>8, <1>9, <1>10 DEF Next

-----------------------------------------------------------------------------
(* An entry follows its unit.                                                *)

Agrees(st, now) == st = now \/ (st = "other" /\ now = "unloaded")

(* The last state that waits for an entry is the unit's, and so is the one   *)
(* it has when none waits and it missed none.                                *)
LastNews(i, k) == k \in News(i) /\ \A j \in News(i) : j <= k
FollowsUnit(i) ==
  /\ \A k \in News(i) : LastNews(i, k) => Agrees(bus[k].state, unit_state[entries[i].unit])
  /\ News(i) = {} /\ ~entries[i].stale
       => Agrees(entries[i].state, unit_state[entries[i].unit])
Follows == \A i \in DOMAIN entries : entries[i].proxy # "failed" => FollowsUnit(i)

LEMMA NewsTyped ==
  ASSUME Shape, NEW i, NEW k \in News(i)
  PROVE  k \in Nat /\ k \in DOMAIN bus /\ bus[k].state \in State
  <1>1. bus \in Seq(BusMessage) /\ k \in DOMAIN bus /\ bus[k].type = "PropertiesChanged"
    BY DEF Shape, Typed, News
  <1>2. k \in Nat /\ bus[k] \in BusMessage
    <2> HIDE DEF BusMessage
    <2> QED
      BY <1>1, LenProperties
  <1> QED
    BY <1>1, <1>2, MessageTypes

(* What agreed agrees when the unit is loaded or unloaded.                   *)
LEMMA AgreesStill ==
  ASSUME NEW st \in State, NEW old, NEW new, Agrees(st, old),
         \/ new = old
         \/ old \in {"other", "unloaded"} /\ new \in {"other", "unloaded"}
  PROVE  Agrees(st, new)
  BY DEF Agrees, State

LEMMA RestsFollows ==
  ASSUME Shape, NEW i, Rests(i), FollowsUnit(i)
  PROVE  FollowsUnit(i)'
  <1>1. /\ entries[i].state \in State /\ i \in DOMAIN entries
        /\ \A k \in News(i) : bus[k].state \in State
    BY EntryTyped, NewsTyped DEF Rests, SameEntry
  <1> DEFINE old == unit_state[entries[i].unit]
             new == unit_state'[entries'[i].unit]
  <1>2. entries'[i].unit = entries[i].unit
    BY DEF Rests, SameEntry
  <1>3. \A st \in State : Agrees(st, old) => Agrees(st, new)
    BY <1>2, AgreesStill DEF Rests
  <1>4. ASSUME NEW k \in News(i)', LastNews(i, k)'
        PROVE  Agrees(bus'[k].state, new)
    <2>1. k \in News(i) /\ LastNews(i, k) /\ bus'[k] = bus[k]
      BY <1>4 DEF Rests, LastNews
    <2>2. Agrees(bus[k].state, old) /\ bus[k].state \in State
      BY <1>1, <2>1 DEF FollowsUnit
    <2> QED
      BY <1>3, <2>1, <2>2
  <1>5. ASSUME News(i)' = {}, ~entries'[i].stale
        PROVE  Agrees(entries'[i].state, new)
    <2>1. Agrees(entries[i].state, old) /\ entries'[i].state = entries[i].state
      BY <1>5 DEF Rests, SameEntry, FollowsUnit
    <2> QED
      BY <1>1, <1>3, <2>1
  <1> QED
    BY <1>4, <1>5 DEF FollowsUnit

LEMMA IsToldFollows ==
  ASSUME Shape, NEW i, IsTold(i)
  PROVE  FollowsUnit(i)'
  <1>1. PICK new \in News(i)' : new \notin DOMAIN bus
    BY DEF IsTold
  <1>2. News(i)' \subseteq DOMAIN bus' /\ DOMAIN bus' \subseteq Nat
    BY LenProperties DEF News, IsTold, Extended
  <1>3. ASSUME NEW k \in News(i)', LastNews(i, k)'
        PROVE  bus'[k].state = unit_state'[entries'[i].unit]
    <2>1. new <= k
      BY <1>1, <1>3 DEF LastNews
    <2>2. k \notin DOMAIN bus
      <3>1. CASE k \in DOMAIN bus
        <4>1. k < new /\ k \in Nat /\ new \in Nat
          BY <1>1, <1>2, <3>1 DEF IsTold, Extended
        <4> QED
          BY <2>1, <4>1
      <3> QED
        BY <3>1
    <2> QED
      BY <2>2, <1>3 DEF IsTold, SameEntry
  <1> QED
    BY <1>1, <1>3 DEF FollowsUnit, Agrees

(* The last state that waits is still the last when one is taken.            *)
LEMMA LastMovesUp ==
  ASSUME NEW i, MovesUp(i), NEW k \in News(i)', LastNews(i, k)'
  PROVE  LastNews(i, k + 1) /\ bus'[k] = bus[k + 1] /\ k + 1 \in News(i)
  <1>1. k \in Nat /\ k + 1 \in News(i) /\ bus'[k] = bus[k + 1]
    BY DEF MovesUp
  <1>2. ASSUME NEW j \in News(i)
        PROVE  j <= k + 1
    <2>1. j \in Nat /\ (j = 1 \/ j - 1 \in News(i)')
      BY <1>2 DEF MovesUp
    <2>2. ASSUME j - 1 \in News(i)'
          PROVE  j - 1 <= k
      BY <2>2 DEF LastNews
    <2> QED
      BY <1>1, <2>1, <2>2
  <1> QED
    BY <1>1, <1>2 DEF LastNews

LEMMA OthersMessageFollows ==
  ASSUME Shape, NEW i, OthersMessage(i), FollowsUnit(i)
  PROVE  FollowsUnit(i)'
  <1>1. MovesUp(i) /\ SameEntry(i) /\ 1 \notin News(i) /\ unit_state' = unit_state
    BY DEF OthersMessage, MovesUp
  <1>2. ASSUME NEW k \in News(i)', LastNews(i, k)'
        PROVE  Agrees(bus'[k].state, unit_state'[entries'[i].unit])
    <2>1. LastNews(i, k + 1) /\ bus'[k] = bus[k + 1] /\ k + 1 \in News(i)
      BY <1>1, <1>2, LastMovesUp
    <2> QED
      BY <1>1, <2>1 DEF FollowsUnit, Agrees, SameEntry
  <1>3. ASSUME News(i)' = {}
        PROVE  News(i) = {}
    BY <1>1, <1>3 DEF MovesUp
  <1> QED
    BY <1>1, <1>2, <1>3 DEF FollowsUnit, Agrees, SameEntry

LEMMA ItsMessageFollows ==
  ASSUME Shape, NEW i, ItsMessage(i), FollowsUnit(i)
  PROVE  FollowsUnit(i)'
  <1>1. /\ MovesUp(i) /\ 1 \in News(i) /\ unit_state' = unit_state
        /\ HearsOf(entries[i], entries'[i], bus[1].state)
    BY DEF ItsMessage, MovesUp
  <1>2. ASSUME NEW k \in News(i)', LastNews(i, k)'
        PROVE  Agrees(bus'[k].state, unit_state'[entries'[i].unit])
    <2>1. LastNews(i, k + 1) /\ bus'[k] = bus[k + 1] /\ k + 1 \in News(i)
      BY <1>1, <1>2, LastMovesUp
    <2> QED
      BY <1>1, <2>1 DEF FollowsUnit, Agrees, HearsOf
  <1>3. ASSUME News(i)' = {}, ~entries'[i].stale
        PROVE  Agrees(entries'[i].state, unit_state'[entries'[i].unit])
    <2>1. \A j \in News(i) : j = 1
      BY <1>1, <1>3 DEF MovesUp
    <2>2. LastNews(i, 1)
      BY <1>1, <2>1 DEF LastNews
    <2>3. Agrees(bus[1].state, unit_state[entries[i].unit])
      BY <1>1, <2>2 DEF FollowsUnit
    <2>4. entries'[i].state = bus[1].state /\ entries'[i].unit = entries[i].unit
      BY <1>1, <1>3 DEF HearsOf
    <2> QED
      BY <1>1, <2>3, <2>4 DEF Agrees
  <1> QED
    BY <1>2, <1>3 DEF FollowsUnit, Agrees

LEMMA IsMadeFollows ==
  ASSUME Shape, NEW i, IsMade(i)
  PROVE  FollowsUnit(i)'
  <1>1. News(i)' = {} /\ unit_state' = unit_state
    BY DEF IsMade
  <1>2. PICK u \in Service, st \in State :
          /\ entries'[i] = NewEntry(u, st)
          /\ st = unit_state[u] \/ st = "other"
    BY DEF IsMade
  <1>3. /\ entries'[i].unit = u /\ entries'[i].state = st
        /\ entries'[i].stale = (unit_state[u] \notin {st, "unloaded"})
    BY <1>2, NewEntryType
  <1>4. ~entries'[i].stale => Agrees(entries'[i].state, unit_state'[entries'[i].unit])
    BY <1>1, <1>2, <1>3 DEF Agrees
  <1> QED
    BY <1>1, <1>4 DEF FollowsUnit, Agrees

LEMMA FollowsStep == Shape /\ Follows /\ [Next]_vars => Follows'
  <1> SUFFICES ASSUME Shape, Follows, [Next]_vars,
                      NEW i \in DOMAIN entries', entries'[i].proxy # "failed"
               PROVE  FollowsUnit(i)'
    BY DEF Follows, FollowsUnit, LastNews, News
  <1>1. CASE Rests(i)
    BY <1>1, RestsFollows DEF Follows, Rests, SameEntry
  <1>2. CASE IsTold(i)
    BY <1>2, IsToldFollows
  <1>3. CASE OthersMessage(i)
    BY <1>3, OthersMessageFollows DEF Follows, OthersMessage, SameEntry
  <1>4. CASE ItsMessage(i)
    BY <1>4, ItsMessageFollows DEF Follows, ItsMessage
  <1>5. CASE IsMade(i)
    BY <1>5, IsMadeFollows
  <1> QED
    BY <1>1, <1>2, <1>3, <1>4, <1>5, StepMeans

(* An entry that was told everything and missed nothing before it was ready  *)
(* has the state of its unit (on_properties_changed).                        *)
THEOREM FollowsItsUnit == Spec => []EntryFollowsUnit
  <1>1. Init => Follows
    <2>1. Init => DOMAIN entries = {}
      BY DEF Init
    <2> QED
      BY <2>1 DEF Follows
  <1>2. Shape /\ Follows => EntryFollowsUnit
    <2> SUFFICES ASSUME Shape, Follows, NEW i \in DOMAIN entries,
                        entries[i].proxy = "ready", ~entries[i].stale, Told(i)
                 PROVE  Agrees(entries[i].state, unit_state[entries[i].unit])
      BY DEF EntryFollowsUnit, Agrees
    <2>1. News(i) = {}
      BY DEF News, Told
    <2> QED
      BY <2>1 DEF Follows, FollowsUnit
  <1> QED
    BY ShapeInit, ShapeStep, FollowsStep, <1>1, <1>2, PTL DEF Spec

-----------------------------------------------------------------------------
(* An entry reports a failure once.                                          *)

(* n tells for each message that waits for an entry how often its unit had   *)
(* failed when it was sent. From the state the entry has to the unit's, each *)
(* step from a state to "failed" is one of the failures that were counted    *)
(* and are not reported.                                                     *)
Precedes(c, st, d, new) == c <= d /\ (st # "failed" /\ new = "failed" => c + 1 <= d)
CountsFrom(i, n) ==
  /\ \A k \in News(i) :
       /\ n[k] \in Nat
       /\ Precedes(entries[i].crashes, entries[i].state, n[k], bus[k].state)
       /\ Precedes(n[k], bus[k].state, failures[entries[i].unit],
                   unit_state[entries[i].unit])
  /\ \A j, k \in News(i) : j < k => Precedes(n[j], bus[j].state, n[k], bus[k].state)
  /\ Precedes(entries[i].crashes, entries[i].state, failures[entries[i].unit],
              unit_state[entries[i].unit])
CountsUnit(i) == \E n : CountsFrom(i, n)

(* A unit whose loading is not known yet failed since then if it has failed. *)
LoadsCounted ==
  \A k \in DOMAIN bus :
    (bus[k].type = "UnitNew" /\ bus[k].unit \in Service /\ unit_state[bus[k].unit] = "failed")
      => failures[bus[k].unit] >= 1
Counted ==
  /\ LoadsCounted
  /\ \A i \in DOMAIN entries : entries[i].proxy # "failed" => CountsUnit(i)

LEMMA FailuresTyped ==
  ASSUME Shape, NEW u \in Service
  PROVE  failures[u] \in Nat
  BY DEF Shape, Typed

LEMMA RestsCounts ==
  ASSUME Shape, NEW i, Rests(i), CountsUnit(i)
  PROVE  CountsUnit(i)'
  <1>1. PICK n : CountsFrom(i, n)
    BY DEF CountsUnit
  <1>2. \A c, st, d : Precedes(c, st, d, unit_state[entries[i].unit])
                        => Precedes(c, st, d, unit_state'[entries'[i].unit])
    BY DEF Rests, SameEntry, Precedes
  <1>3. CountsFrom(i, n)'
    <2>1. ASSUME NEW k \in News(i)'
          PROVE  /\ n[k] \in Nat
                 /\ Precedes(entries'[i].crashes, entries'[i].state, n[k], bus'[k].state)
                 /\ Precedes(n[k], bus'[k].state, failures'[entries'[i].unit],
                             unit_state'[entries'[i].unit])
      <3>1. k \in News(i) /\ bus'[k] = bus[k]
        BY <2>1 DEF Rests
      <3> QED
        BY <1>1, <1>2, <3>1 DEF CountsFrom, Rests, SameEntry
    <2>2. \A j, k \in News(i)' : j < k => Precedes(n[j], bus'[j].state, n[k], bus'[k].state)
      BY <1>1 DEF CountsFrom, Rests
    <2>3. Precedes(entries'[i].crashes, entries'[i].state, failures'[entries'[i].unit],
                   unit_state'[entries'[i].unit])
      BY <1>1, <1>2 DEF CountsFrom, Rests, SameEntry
    <2> QED
      BY <2>1, <2>2, <2>3 DEF CountsFrom
  <1> QED
    BY <1>3 DEF CountsUnit

LEMMA IsToldCounts ==
  ASSUME Shape, NEW i, IsTold(i), CountsUnit(i)
  PROVE  CountsUnit(i)'
  <1>1. PICK n : CountsFrom(i, n)
    BY DEF CountsUnit
  <1> DEFINE u == entries[i].unit
  <1>0. PICK m :
          m = [k \in DOMAIN bus' |-> IF k \in DOMAIN bus THEN n[k] ELSE failures'[u]]
    OBVIOUS
  <1>2. /\ SameEntry(i) /\ entries[i].crashes \in Nat /\ entries'[i].unit = u
        /\ failures[u] \in Nat
    BY EntryTyped, FailuresTyped DEF IsTold, SameEntry
  <1>3. /\ failures'[u] \in Nat /\ failures[u] <= failures'[u]
        /\ unit_state'[u] = "failed" =>
             unit_state[u] = "failed" \/ failures[u] + 1 <= failures'[u]
    BY <1>2 DEF IsTold
  <1>4. \A c \in Nat : \A st : Precedes(c, st, failures[u], unit_state[u])
                                 => Precedes(c, st, failures'[u], unit_state'[u])
    BY <1>2, <1>3 DEF Precedes
  <1>5. ASSUME NEW k \in News(i)'
        PROVE  \/ k \in News(i) /\ bus'[k] = bus[k] /\ m[k] = n[k] /\ k \in DOMAIN bus
               \/ /\ k \notin DOMAIN bus /\ bus'[k].state = unit_state'[u]
                  /\ m[k] = failures'[u]
    BY <1>0, <1>5 DEF IsTold, Extended, News
  <1>6. Precedes(entries[i].crashes, entries[i].state, failures'[u], unit_state'[u])
    BY <1>1, <1>2, <1>4 DEF CountsFrom
  <1>7. Precedes(failures'[u], unit_state'[u], failures'[u], unit_state'[u])
    BY <1>3 DEF Precedes
  <1>8. ASSUME NEW k \in News(i)'
        PROVE  /\ m[k] \in Nat
               /\ Precedes(entries[i].crashes, entries[i].state, m[k], bus'[k].state)
               /\ Precedes(m[k], bus'[k].state, failures'[u], unit_state'[u])
    <2>1. CASE k \in News(i) /\ bus'[k] = bus[k] /\ m[k] = n[k]
      BY <1>1, <1>4, <2>1 DEF CountsFrom
    <2>2. CASE bus'[k].state = unit_state'[u] /\ m[k] = failures'[u]
      BY <1>3, <1>6, <1>7, <2>2
    <2> QED
      BY <1>5, <2>1, <2>2
  <1>9. ASSUME NEW j \in News(i)', NEW k \in News(i)', j < k
        PROVE  Precedes(m[j], bus'[j].state, m[k], bus'[k].state)
    <2>1. CASE k \notin DOMAIN bus
      BY <1>5, <1>8, <2>1
    <2>2. CASE k \in DOMAIN bus
      <3>1. j \in DOMAIN bus
        <4>1. j \in Nat /\ k \in Nat
          BY LenProperties DEF IsTold, Extended, News
        <4>2. j \in DOMAIN bus'
          BY DEF News
        <4>3. j \notin DOMAIN bus => k < j
          BY <2>2, <4>2 DEF IsTold, Extended
        <4> QED
          BY <1>9, <4>1, <4>3
      <3>2. /\ j \in News(i) /\ bus'[j] = bus[j] /\ m[j] = n[j]
            /\ k \in News(i) /\ bus'[k] = bus[k] /\ m[k] = n[k]
        BY <1>5, <2>2, <3>1
      <3> QED
        BY <1>1, <1>9, <3>2 DEF CountsFrom
    <2> QED
      BY <2>1, <2>2
  <1>10. CountsFrom(i, m)'
    <2>1. /\ entries'[i].crashes = entries[i].crashes
          /\ entries'[i].state = entries[i].state
      BY <1>2 DEF SameEntry
    <2> QED
      BY <1>2, <1>6, <1>8, <1>9, <2>1 DEF CountsFrom
  <1> QED
    BY <1>10 DEF CountsUnit

LEMMA OthersMessageCounts ==
  ASSUME Shape, NEW i, OthersMessage(i), CountsUnit(i)
  PROVE  CountsUnit(i)'
  <1>1. PICK n : CountsFrom(i, n)
    BY DEF CountsUnit
  <1>2. PICK m : m = [k \in DOMAIN bus' |-> n[k + 1]]
    OBVIOUS
  <1>3. /\ SameEntry(i) /\ unit_state' = unit_state /\ failures' = failures
        /\ \A k \in News(i)' : /\ k \in Nat /\ k + 1 \in News(i) /\ bus'[k] = bus[k + 1]
                               /\ m[k] = n[k + 1]
    BY <1>2 DEF OthersMessage, MovesUp, News
  <1>4. CountsFrom(i, m)'
    <2>1. ASSUME NEW k \in News(i)'
          PROVE  /\ m[k] \in Nat
                 /\ Precedes(entries'[i].crashes, entries'[i].state, m[k], bus'[k].state)
                 /\ Precedes(m[k], bus'[k].state, failures'[entries'[i].unit],
                             unit_state'[entries'[i].unit])
      BY <1>1, <1>3, <2>1 DEF CountsFrom, SameEntry
    <2>2. ASSUME NEW j \in News(i)', NEW k \in News(i)', j < k
          PROVE  Precedes(m[j], bus'[j].state, m[k], bus'[k].state)
      <3>1. j + 1 < k + 1
        BY <1>3, <2>2
      <3> QED
        BY <1>1, <1>3, <2>2, <3>1 DEF CountsFrom
    <2>3. Precedes(entries'[i].crashes, entries'[i].state, failures'[entries'[i].unit],
                   unit_state'[entries'[i].unit])
      BY <1>1, <1>3 DEF CountsFrom, SameEntry
    <2> QED
      BY <2>1, <2>2, <2>3 DEF CountsFrom
  <1> QED
    BY <1>4 DEF CountsUnit

LEMMA ItsMessageCounts ==
  ASSUME Shape, NEW i, ItsMessage(i), CountsUnit(i)
  PROVE  CountsUnit(i)'
  <1>1. PICK n : CountsFrom(i, n)
    BY DEF CountsUnit
  <1>2. PICK m : m = [k \in DOMAIN bus' |-> n[k + 1]]
    OBVIOUS
  <1>3. /\ HearsOf(entries[i], entries'[i], bus[1].state)
        /\ unit_state' = unit_state /\ failures' = failures /\ 1 \in News(i)
        /\ \A k \in News(i)' : /\ k \in Nat /\ k + 1 \in News(i) /\ bus'[k] = bus[k + 1]
                               /\ m[k] = n[k + 1] /\ 1 < k + 1
    <2>1. \A k \in News(i)' : k \in DOMAIN bus'
      BY DEF News
    <2> QED
      BY <1>2, <2>1 DEF ItsMessage, MovesUp
  <1> DEFINE u == entries[i].unit
             c == entries[i].crashes
  <1>4. c \in Nat /\ n[1] \in Nat /\ failures[u] \in Nat
    BY <1>1, <1>3, EntryTyped, FailuresTyped DEF ItsMessage, CountsFrom
  <1>5. /\ Precedes(c, entries[i].state, n[1], bus[1].state)
        /\ Precedes(n[1], bus[1].state, failures[u], unit_state[u])
        /\ \A k \in News(i)' : Precedes(n[1], bus[1].state, n[k + 1], bus[k + 1].state)
    BY <1>1, <1>3 DEF CountsFrom
  <1>6. \A d \in Nat : \A st : /\ Precedes(c, entries[i].state, d, st)
                               /\ Precedes(n[1], bus[1].state, d, st)
                               => Precedes(entries'[i].crashes, entries'[i].state, d, st)
    BY <1>3, <1>4, <1>5 DEF HearsOf, Precedes
  <1>7. entries'[i].unit = u
    BY <1>3 DEF HearsOf
  <1>8. CountsFrom(i, m)'
    <2>1. ASSUME NEW k \in News(i)'
          PROVE  /\ m[k] \in Nat
                 /\ Precedes(entries'[i].crashes, entries'[i].state, m[k], bus'[k].state)
                 /\ Precedes(m[k], bus'[k].state, failures'[entries'[i].unit],
                             unit_state'[entries'[i].unit])
      <3>1. /\ n[k + 1] \in Nat
            /\ Precedes(c, entries[i].state, n[k + 1], bus[k + 1].state)
            /\ Precedes(n[k + 1], bus[k + 1].state, failures[u], unit_state[u])
        BY <1>1, <1>3, <2>1 DEF CountsFrom
      <3> QED
        BY <1>3, <1>5, <1>6, <1>7, <2>1, <3>1
    <2>2. ASSUME NEW j \in News(i)', NEW k \in News(i)', j < k
          PROVE  Precedes(m[j], bus'[j].state, m[k], bus'[k].state)
      <3>1. j + 1 < k + 1
        BY <1>3, <2>2
      <3> QED
        BY <1>1, <1>3, <2>2, <3>1 DEF CountsFrom
    <2>3. Precedes(entries'[i].crashes, entries'[i].state, failures'[entries'[i].unit],
                   unit_state'[entries'[i].unit])
      BY <1>1, <1>3, <1>4, <1>5, <1>6, <1>7 DEF CountsFrom
    <2> QED
      BY <2>1, <2>2, <2>3 DEF CountsFrom
  <1> QED
    BY <1>8 DEF CountsUnit

LEMMA IsMadeCounts ==
  ASSUME Shape, LoadsCounted, NEW i, IsMade(i)
  PROVE  CountsUnit(i)'
  <1>1. News(i)' = {} /\ unit_state' = unit_state /\ failures' = failures
    BY DEF IsMade
  <1>2. PICK u \in Service, st \in State :
          /\ entries'[i] = NewEntry(u, st)
          /\ \/ st = unit_state[u]
             \/ /\ st = "other"
                /\ \E k \in DOMAIN bus : bus[k].type = "UnitNew" /\ bus[k].unit = u
    BY DEF IsMade
  <1>3. entries'[i].unit = u /\ entries'[i].state = st /\ entries'[i].crashes = 0
    BY <1>2, NewEntryType
  <1>4. failures[u] \in Nat
    BY FailuresTyped
  <1>5. st # "failed" /\ unit_state[u] = "failed" => failures[u] >= 1
    BY <1>2 DEF LoadsCounted
  <1>6. Precedes(entries'[i].crashes, entries'[i].state, failures'[entries'[i].unit],
                 unit_state'[entries'[i].unit])
    BY <1>1, <1>3, <1>4, <1>5 DEF Precedes
  <1>7. CountsFrom(i, <<>>)'
    BY <1>1, <1>6 DEF CountsFrom
  <1> QED
    BY <1>7 DEF CountsUnit

LEMMA LoadsCountedStep == Shape /\ LoadsCounted /\ [Next]_vars => LoadsCounted'
  <1> SUFFICES ASSUME Shape, LoadsCounted, [Next]_vars,
                      NEW k \in DOMAIN bus', bus'[k].type = "UnitNew",
                      bus'[k].unit \in Service, unit_state'[bus'[k].unit] = "failed"
               PROVE  failures'[bus'[k].unit] >= 1
    BY DEF LoadsCounted
  <1>1. /\ bus \in Seq(BusMessage) /\ failures \in [Service -> Nat]
        /\ unit_state \in [Unit -> State \cup {"unloaded"}]
    BY DEF Shape, Typed
  <1>2. PICK w \in Service : w = bus'[k].unit
    OBVIOUS
  <1>3. w \in Unit /\ unit_state'[w] = "failed"
    BY <1>2, ServiceAssumption
  <1>4. ASSUME NEW u \in Unit, UnitLoads(u) \/ UnitUnloads(u)
        PROVE  failures'[w] >= 1
    <2>1. /\ unit_state' = [unit_state EXCEPT ![u] = "other"]
             \/ unit_state' = [unit_state EXCEPT ![u] = "unloaded"]
          /\ failures' = failures
      BY <1>4 DEF UnitLoads, UnitUnloads
    <2>2. w # u /\ unit_state[w] = "failed"
      BY <1>1, <1>3, <2>1
    <2>3. k \in DOMAIN bus /\ bus'[k] = bus[k]
      <3> DEFINE m == [type |-> "UnitNew", unit |-> u]
      <3>1. m \in BusMessage /\ m.unit = u
        BY DEF BusMessage
      <3>2. bus' = bus \/ bus' = Append(bus, m)
        BY <1>4 DEF UnitLoads, UnitUnloads
      <3> HIDE DEF m
      <3>3. CASE bus' = Append(bus, m)
        <4>1. /\ Extended(bus, bus') /\ DOMAIN bus' = DOMAIN bus \cup {Len(bus) + 1}
              /\ bus'[Len(bus) + 1] = m
          BY <1>1, <3>1, <3>3, AppendExtends
        <4> QED
          BY <1>2, <2>2, <3>1, <4>1 DEF Extended
      <3> QED
        BY <3>2, <3>3
    <2> QED
      BY <1>2, <2>1, <2>2, <2>3 DEF LoadsCounted
  <1>5. ASSUME NEW u \in Service, NEW st \in State, Announce(u, st),
               unit_state' = [unit_state EXCEPT ![u] = st],
               \/ st = unit_state[u] /\ failures' = failures
               \/ failures' = IF st = "failed" /\ phase = "running"
                              THEN [failures EXCEPT ![u] = @ + 1] ELSE failures
        PROVE  failures'[w] >= 1
    <2>1. k \in DOMAIN bus /\ bus'[k] = bus[k]
      BY <1>5, AnnounceReaches DEF Shape, Extended
    <2>2. phase = "running"
      BY <2>1 DEF Shape, Typed, DownIsEmpty
    <2>3. CASE w = u /\ failures' = [failures EXCEPT ![u] = @ + 1]
      BY <1>1, <2>3
    <2>4. CASE unit_state[w] = "failed" /\ failures' = failures
      BY <1>2, <2>1, <2>4 DEF LoadsCounted
    <2>5. CASE w # u
      <3>1. unit_state[w] = "failed" /\ failures'[w] = failures[w]
        BY <1>1, <1>3, <1>5, <2>5
      <3> QED
        BY <1>2, <2>1, <3>1 DEF LoadsCounted
    <2>6. ASSUME w = u
          PROVE  st = "failed"
      BY <1>1, <1>3, <1>5, <2>6
    <2> QED
      BY <1>5, <2>2, <2>3, <2>4, <2>5, <2>6
  <1>6. ASSUME NEW u \in Service, UnitAnnounced(u)
        PROVE  failures'[w] >= 1
    <2>1. /\ unit_state[u] \in State /\ Announce(u, unit_state[u]) /\ failures' = failures
          /\ unit_state' = [unit_state EXCEPT ![u] = unit_state[u]]
      BY <1>1, <1>6, ServiceAssumption DEF UnitAnnounced, systemd
    <2> QED
      BY <1>5, <2>1
  <1>7. ASSUME NEW u \in Service, NEW st \in State, UnitChanges(u, st)
        PROVE  failures'[w] >= 1
    <2>1. /\ Announce(u, st) /\ unit_state' = [unit_state EXCEPT ![u] = st]
          /\ failures' = IF st = "failed" /\ phase = "running"
                         THEN [failures EXCEPT ![u] = @ + 1] ELSE failures
      BY <1>7 DEF UnitChanges
    <2> QED
      BY <1>5, <2>1
  <1>8. ASSUME NEW i \in DOMAIN entries, NEW ok \in BOOLEAN, ProxyAnswered(i, ok)
        PROVE  failures'[w] >= 1
    <2> DEFINE m == [type |-> "ProxyReady", entry |-> i, ok |-> ok]
    <2>1. m \in BusMessage /\ m.type # "UnitNew"
      <3>1. i \in Index
        BY LenProperties DEF Shape, Typed, Index
      <3> QED
        BY <3>1 DEF BusMessage
    <2>2. /\ bus' = Append(bus, m) /\ unit_state' = unit_state /\ failures' = failures
      BY <1>8 DEF ProxyAnswered, systemd
    <2> HIDE DEF m
    <2>3. /\ Extended(bus, bus') /\ DOMAIN bus' = DOMAIN bus \cup {Len(bus) + 1}
          /\ bus'[Len(bus) + 1] = m
      BY <1>1, <2>1, <2>2, AppendExtends
    <2>4. k \in DOMAIN bus /\ bus'[k] = bus[k]
      BY <2>1, <2>3 DEF Extended
    <2> QED
      BY <1>2, <1>3, <2>2, <2>4 DEF LoadsCounted
  <1>9. CASE BusDispatch
    <2>1. /\ bus # <<>> /\ bus' = Tail(bus)
          /\ unit_state' = unit_state /\ failures' = failures
      BY <1>9 DEF BusDispatch, systemd
    <2>2. k + 1 \in DOMAIN bus /\ bus'[k] = bus[k + 1]
      <3> HIDE DEF BusMessage
      <3> QED
        BY <1>1, <2>1, TailMoves
    <2> QED
      BY <1>2, <1>3, <2>1, <2>2 DEF LoadsCounted
  <1>10. CASE bus' = bus /\ unit_state' = unit_state /\ failures' = failures
    BY <1>2, <1>3, <1>10 DEF LoadsCounted
  <1>11. CASE Stop
    BY <1>11 DEF Stop
  <1>12. ASSUME NEW ok \in BOOLEAN, monitor_build_proxy(ok) \/ monitor_read_services(ok)
         PROVE  failures'[w] >= 1
    BY <1>2, <1>10, <1>12 DEF monitor_build_proxy, monitor_read_services, systemd
  <1>13. CASE Start
    BY <1>10, <1>13 DEF Start, systemd
  <1>14. CASE UNCHANGED vars
    BY <1>10, <1>14 DEF vars
  <1>15. failures'[w] >= 1
    BY <1>2, <1>4, <1>6, <1>7, <1>8, <1>9, <1>11, <1>12, <1>13, <1>14 DEF Next
  <1> QED
    BY <1>2, <1>15

LEMMA CountedStep == Shape /\ Counted /\ [Next]_vars => Counted'
  <1> SUFFICES ASSUME Shape, Counted, [Next]_vars
               PROVE  Counted'
    OBVIOUS
  <1>1. ASSUME NEW i \in DOMAIN entries', entries'[i].proxy # "failed"
        PROVE  CountsUnit(i)'
    <2>1. CASE Rests(i)
      BY <2>1, RestsCounts DEF Counted, Rests, SameEntry
    <2>2. CASE IsTold(i)
      BY <2>2, IsToldCounts DEF Counted, IsTold, SameEntry
    <2>3. CASE OthersMessage(i)
      BY <2>3, OthersMessageCounts DEF Counted, OthersMessage, SameEntry
    <2>4. CASE ItsMessage(i)
      BY <2>4, ItsMessageCounts DEF Counted, ItsMessage
    <2>5. CASE IsMade(i)
      BY <2>5, IsMadeCounts DEF Counted
    <2> QED
      BY <1>1, <2>1, <2>2, <2>3, <2>4, <2>5, StepMeans
  <1> QED
    BY <1>1, LoadsCountedStep DEF Counted, CountsUnit, CountsFrom, News

(* However a unit is announced, and whenever an entry began to look, the     *)
(* entry reports no failure twice (on_properties_changed).                   *)
THEOREM ReportsOnce == Spec => []EachEntryReportsOnce
  <1>1. Init => Counted
    <2>1. Init => DOMAIN entries = {} /\ DOMAIN bus = {}
      BY DEF Init
    <2> QED
      BY <2>1 DEF Counted, LoadsCounted
  <1>2. Shape /\ Counted => EachEntryReportsOnce
    <2> SUFFICES ASSUME Shape, Counted, NEW i \in DOMAIN entries
                 PROVE  entries[i].crashes <= failures[entries[i].unit]
      BY DEF EachEntryReportsOnce
    <2>1. entries[i].unit \in Service /\ failures[entries[i].unit] \in Nat
      BY EntryTyped, FailuresTyped
    <2>2. CASE entries[i].proxy = "failed"
      BY <2>1, <2>2 DEF Shape, ReadyReports
    <2>3. CASE entries[i].proxy # "failed"
      BY <2>3 DEF Counted, CountsUnit, CountsFrom, Precedes
    <2> QED
      BY <2>2, <2>3
  <1> QED
    BY ShapeInit, ShapeStep, CountedStep, <1>1, <1>2, PTL DEF Spec

-----------------------------------------------------------------------------
(* No service is overlooked.                                                 *)

(* The manager is listened to before it is asked, and once it was asked each *)
(* service is unloaded, announced or known.                                  *)
Seen(s) ==
  \/ unit_state[s] = "unloaded"
  \/ \E k \in DOMAIN bus : bus[k].type = "UnitNew" /\ bus[k].unit = s
  \/ \E i \in DOMAIN entries : entries[i].unit = s
ReadOnly == <<"READ_SERVICES">>
Listening ==
  phase = "running" =>
    /\ mqueue \in {FirstEvents, ReadOnly, <<>>}
    /\ mqueue # FirstEvents /\ ~degraded => proxy
    /\ mqueue = <<>> /\ ~degraded => \A s \in Service : Seen(s)

LEMMA FirstTaken ==
  /\ Head(FirstEvents) = "BUILD_PROXY" /\ Tail(FirstEvents) = ReadOnly
  /\ Head(ReadOnly) = "READ_SERVICES" /\ Tail(ReadOnly) = <<>>
  /\ FirstEvents # ReadOnly /\ FirstEvents # <<>> /\ ReadOnly # <<>>
  BY DEF FirstEvents, ReadOnly

(* What is seen is not lost sight of while entries and the bus only grow.    *)
LEMMA SeenStays ==
  ASSUME Shape, NEW s \in Service, Seen(s), Grown \/ entries' = entries,
         unit_state[s] = "unloaded" => unit_state'[s] = "unloaded",
         Extended(bus, bus') \/ bus' = bus
  PROVE  Seen(s)'
  <1>1. CASE unit_state[s] = "unloaded"
    BY <1>1 DEF Seen
  <1>2. CASE \E k \in DOMAIN bus : bus[k].type = "UnitNew" /\ bus[k].unit = s
    BY <1>2 DEF Seen, Extended
  <1>3. CASE \E i \in DOMAIN entries : entries[i].unit = s
    BY <1>3 DEF Seen, Grown
  <1> QED
    BY <1>1, <1>2, <1>3 DEF Seen

LEMMA DispatchSees ==
  ASSUME Shape, BusDispatch, NEW s \in Service, Seen(s)
  PROVE  Seen(s)'
  <1> DEFINE m == Head(bus)
  <1>1. /\ bus \in Seq(BusMessage) /\ bus # <<>> /\ bus' = Tail(bus)
        /\ unit_state' = unit_state
    BY DEF BusDispatch, Shape, Typed, systemd
  <1>2. /\ m = bus[1] /\ 1 \in DOMAIN bus /\ m \in BusMessage
        /\ \A k \in DOMAIN bus' : k \in Nat /\ k + 1 \in DOMAIN bus /\ bus'[k] = bus[k + 1]
        /\ \A k \in DOMAIN bus : k = 1 \/ (k - 1 \in DOMAIN bus' /\ k \in Nat)
    <2> HIDE DEF BusMessage
    <2> QED
      BY <1>1, TailMoves
  <1> HIDE DEF m
  <1>3. ASSUME NEW i \in DOMAIN entries, entries[i].unit = s
        PROVE  \E j \in DOMAIN entries' : entries'[j].unit = s
    <2>1. CASE m.type = "UnitNew" /\ on_unit_new(m.unit)
      <3>1. m.unit \in Unit
        BY <1>2, <2>1, MessageTypes
      <3>2. Grown
        BY <2>1, <3>1, UnitNewGrows DEF Shape
      <3> QED
        BY <1>3, <3>2 DEF Grown
    <2>2. CASE m.type = "PropertiesChanged" /\ on_properties_changed(m.entry, m.state)
      <3>0. m.entry \in DOMAIN entries /\ m.state \in State
        BY <1>2, <2>2, MessageTypes DEF Shape, Typed
      <3>1. PICK h \in DOMAIN entries : h = m.entry
        BY <3>0
      <3>2. /\ DOMAIN entries' = DOMAIN entries
            /\ \A j \in DOMAIN entries : j # h => entries'[j] = entries[j]
            /\ HearsOf(entries[h], entries'[h], m.state)
        BY <2>2, <3>0, <3>1, StateChanges DEF Shape
      <3>3. entries'[i].unit = s
        BY <1>3, <3>2 DEF HearsOf
      <3> QED
        BY <3>2, <3>3
    <2>3. CASE m.type = "ProxyReady" /\ proxy_ready_async_cb(m.entry, m.ok)
      <3>0. m.entry \in DOMAIN entries
        BY <1>2, <2>3 DEF Shape, Typed
      <3>1. PICK h \in DOMAIN entries : h = m.entry
        BY <3>0
      <3> DEFINE p == IF m.ok THEN "ready" ELSE "failed"
      <3>2. p \in {"building", "answered", "ready", "failed"}
        OBVIOUS
      <3>3. entries' = [entries EXCEPT ![h].proxy = p]
        BY <2>3, <3>1 DEF proxy_ready_async_cb
      <3> HIDE DEF p
      <3>4. /\ DOMAIN entries' = DOMAIN entries
            /\ \A j \in DOMAIN entries : j # h => entries'[j] = entries[j]
            /\ entries'[h].unit = entries[h].unit
        BY <3>2, <3>3, ProxyChanges DEF Shape
      <3>5. entries'[i].unit = s
        BY <1>3, <3>4
      <3> QED
        BY <3>4, <3>5
    <2> QED
      BY <2>1, <2>2, <2>3 DEF BusDispatch, m
  <1>4. ASSUME NEW k \in DOMAIN bus, bus[k].type = "UnitNew", bus[k].unit = s
        PROVE  Seen(s)'
    <2>1. CASE k = 1
      <3>1. m.type = "UnitNew" /\ m.unit = s /\ on_unit_new(s)
        BY <1>2, <1>4, <2>1 DEF BusDispatch, m
      <3>2. s \in Unit
        BY ServiceAssumption
      <3>3. \E i \in DOMAIN entries' : entries'[i].unit = s
        BY <3>1, <3>2, UnitNewGrows DEF Shape
      <3> QED
        BY <3>3 DEF Seen
    <2>2. CASE k # 1
      <3>1. k - 1 \in DOMAIN bus' /\ bus'[k - 1] = bus[k]
        <4>1. k - 1 \in DOMAIN bus' /\ k \in Nat
          BY <1>2, <2>2
        <4> QED
          BY <1>2, <4>1
      <3> QED
        BY <1>4, <3>1 DEF Seen
    <2> QED
      BY <2>1, <2>2
  <1> QED
    BY <1>1, <1>3, <1>4 DEF Seen

LEMMA ListeningStep == Shape /\ Listening /\ [Next]_vars => Listening'
  <1> SUFFICES ASSUME Shape, Listening, [Next]_vars, phase' = "running"
               PROVE  /\ mqueue' \in {FirstEvents, ReadOnly, <<>>}
                      /\ mqueue' # FirstEvents /\ ~degraded' => proxy'
                      /\ mqueue' = <<>> /\ ~degraded' => \A s \in Service : Seen(s)'
    BY DEF Listening, Seen
  <1> DEFINE Goal == /\ mqueue' \in {FirstEvents, ReadOnly, <<>>}
                     /\ mqueue' # FirstEvents /\ ~degraded' => proxy'
                     /\ mqueue' = <<>> /\ ~degraded' => \A s \in Service : Seen(s)'
  <1>1. ASSUME phase = "running", mqueue' = mqueue, degraded' = degraded, proxy' = proxy,
               ASSUME mqueue = <<>>, ~degraded, proxy, NEW s \in Service, Seen(s)
               PROVE  Seen(s)'
        PROVE  Goal
    <2>1. /\ mqueue \in {FirstEvents, ReadOnly, <<>>}
          /\ mqueue # FirstEvents /\ ~degraded => proxy
          /\ mqueue = <<>> /\ ~degraded => \A s \in Service : Seen(s)
      BY <1>1 DEF Listening
    <2>2. ASSUME mqueue = <<>>, ~degraded
          PROVE  \A s \in Service : Seen(s)'
      BY <1>1, <2>1, <2>2, FirstTaken
    <2> QED
      BY <1>1, <2>1, <2>2
  <1>2. ASSUME NEW u \in Unit, UnitLoads(u)
        PROVE  Goal
    <2>1. /\ phase' = phase /\ mqueue' = mqueue /\ degraded' = degraded /\ proxy' = proxy
          /\ entries' = entries
      BY <1>2 DEF UnitLoads, monitor
    <2>2. ASSUME proxy, NEW s \in Service, Seen(s)
          PROVE  Seen(s)'
      <3> DEFINE m == [type |-> "UnitNew", unit |-> u]
      <3>1. m \in BusMessage /\ m.type = "UnitNew" /\ m.unit = u
        BY DEF BusMessage
      <3>2. /\ bus' = Append(bus, m) /\ bus \in Seq(BusMessage)
            /\ unit_state' = [unit_state EXCEPT ![u] = "other"]
            /\ unit_state \in [Unit -> State \cup {"unloaded"}]
        BY <1>2, <2>2 DEF UnitLoads, Shape, Typed
      <3> HIDE DEF m
      <3>3. /\ Extended(bus, bus') /\ DOMAIN bus' = DOMAIN bus \cup {Len(bus) + 1}
            /\ bus'[Len(bus) + 1] = m
        BY <3>1, <3>2, AppendExtends
      <3>4. CASE s = u
        BY <3>1, <3>3, <3>4 DEF Seen
      <3>5. CASE s # u
        <4>1. s \in Unit /\ unit_state'[s] = unit_state[s]
          BY <3>2, <3>5, ServiceAssumption
        <4> QED
          BY <2>1, <2>2, <3>3, <4>1, SeenStays
      <3> QED
        BY <3>4, <3>5
    <2> QED
      BY <1>1, <2>1, <2>2
  <1>3. ASSUME NEW u \in Unit, UnitUnloads(u)
        PROVE  Goal
    <2>1. /\ phase' = phase /\ mqueue' = mqueue /\ degraded' = degraded /\ proxy' = proxy
          /\ entries' = entries /\ bus' = bus
          /\ unit_state' = [unit_state EXCEPT ![u] = "unloaded"]
          /\ unit_state \in [Unit -> State \cup {"unloaded"}]
      BY <1>3 DEF UnitUnloads, monitor, Shape, Typed
    <2>2. ASSUME NEW s \in Service, Seen(s)
          PROVE  Seen(s)'
      <3>1. unit_state[s] = "unloaded" => unit_state'[s] = "unloaded"
        BY <2>1, ServiceAssumption
      <3> QED
        BY <2>1, <2>2, <3>1, SeenStays
    <2> QED
      BY <1>1, <2>1, <2>2
  <1>4. ASSUME NEW u \in Service, NEW st \in State, Announce(u, st),
               unit_state[u] # "unloaded", unit_state' = [unit_state EXCEPT ![u] = st],
               UNCHANGED <<phase, mqueue, proxy, degraded, entries>>
        PROVE  Goal
    <2>1. Extended(bus, bus')
      BY <1>4, AnnounceReaches DEF Shape
    <2>2. ASSUME NEW s \in Service, Seen(s)
          PROVE  Seen(s)'
      <3>1. unit_state[s] = "unloaded" => unit_state'[s] = "unloaded"
        BY <1>4, ServiceAssumption DEF Shape, Typed
      <3> QED
        BY <1>4, <2>1, <2>2, <3>1, SeenStays
    <2> QED
      BY <1>1, <1>4, <2>2
  <1>5. ASSUME NEW u \in Service, UnitAnnounced(u)
        PROVE  Goal
    <2>1. /\ unit_state[u] \in State /\ Announce(u, unit_state[u])
          /\ unit_state[u] # "unloaded"
          /\ unit_state' = [unit_state EXCEPT ![u] = unit_state[u]]
          /\ UNCHANGED <<phase, mqueue, proxy, degraded, entries>>
      BY <1>5, ServiceAssumption DEF UnitAnnounced, systemd, monitor, Shape, Typed
    <2> QED
      BY <1>4, <2>1
  <1>6. ASSUME NEW u \in Service, NEW st \in State, UnitChanges(u, st)
        PROVE  Goal
    <2>1. /\ Announce(u, st) /\ unit_state[u] # "unloaded"
          /\ unit_state' = [unit_state EXCEPT ![u] = st]
          /\ UNCHANGED <<phase, mqueue, proxy, degraded, entries>>
      BY <1>6 DEF UnitChanges, monitor
    <2> QED
      BY <1>4, <2>1
  <1>7. ASSUME NEW h \in DOMAIN entries, NEW ok \in BOOLEAN, ProxyAnswered(h, ok)
        PROVE  Goal
    <2> DEFINE m == [type |-> "ProxyReady", entry |-> h, ok |-> ok]
    <2>1. m \in BusMessage
      <3>1. h \in Index
        BY LenProperties DEF Shape, Typed, Index
      <3> QED
        BY <3>1 DEF BusMessage
    <2>2. /\ bus' = Append(bus, m) /\ bus \in Seq(BusMessage) /\ unit_state' = unit_state
          /\ UNCHANGED <<phase, mqueue, proxy, degraded>>
      BY <1>7 DEF ProxyAnswered, systemd, monitor, Shape, Typed
    <2> HIDE DEF m
    <2>3. Extended(bus, bus')
      BY <2>1, <2>2, AppendExtends
    <2>4. \A j \in DOMAIN entries : j \in DOMAIN entries' /\ entries'[j].unit = entries[j].unit
      BY <1>7, ProxyChanges DEF ProxyAnswered, Shape
    <2>5. ASSUME NEW s \in Service, Seen(s)
          PROVE  Seen(s)'
      BY <2>2, <2>3, <2>4, <2>5 DEF Seen, Extended
    <2> QED
      BY <1>1, <2>2, <2>5
  <1>8. CASE BusDispatch
    <2>1. UNCHANGED <<phase, mqueue, proxy, degraded>>
      BY <1>8 DEF BusDispatch, monitor
    <2> QED
      BY <1>1, <1>8, <2>1, DispatchSees
  <1>9. ASSUME NEW ok \in BOOLEAN, monitor_build_proxy(ok)
        PROVE  Goal
    <2>1. /\ mqueue # <<>> /\ Head(mqueue) = "BUILD_PROXY" /\ mqueue' = Tail(mqueue)
          /\ phase = "running" /\ proxy' = ok /\ degraded' = (degraded \/ ~ok)
      BY <1>9 DEF monitor_build_proxy, MonitorTakes
    <2>2. mqueue' = ReadOnly
      BY <2>1, FirstTaken DEF Listening
    <2> QED
      BY <2>1, <2>2, FirstTaken
  <1>10. ASSUME NEW ok \in BOOLEAN, monitor_read_services(ok)
         PROVE  Goal
    <2>1. /\ mqueue # <<>> /\ Head(mqueue) = "READ_SERVICES" /\ mqueue' = Tail(mqueue)
          /\ phase = "running" /\ degraded' = (degraded \/ ~ok)
          /\ unit_state' = unit_state /\ bus' = bus /\ proxy' = proxy
      BY <1>10 DEF monitor_read_services, MonitorTakes, systemd
    <2>2. mqueue = ReadOnly /\ mqueue' = <<>> /\ (~degraded => proxy)
      BY <2>1, FirstTaken DEF Listening
    <2>3. ASSUME ~degraded', NEW s \in Service
          PROVE  Seen(s)'
      <3>1. proxy /\ ok
        BY <2>1, <2>2, <2>3
      <3>2. entries' = entries \o [k \in DOMAIN ToAdd |->
                                     NewEntry(ToAdd[k], unit_state[ToAdd[k]])]
        BY <1>10, <3>1 DEF monitor_read_services
      <3>3. /\ Grown
            /\ \A u \in Loaded : Added(u) => \E i \in DOMAIN entries' : entries'[i].unit = u
        BY <3>2, ReadGrows DEF Shape
      <3>4. CASE unit_state[s] = "unloaded"
        BY <2>1, <3>4 DEF Seen
      <3>5. CASE unit_state[s] # "unloaded" /\ Added(s)
        <4>1. s \in Loaded
          BY <3>5, ServiceAssumption DEF Loaded
        <4> QED
          BY <3>3, <3>5, <4>1 DEF Seen
      <3>6. CASE ~Added(s)
        BY <3>3, <3>6 DEF Added, check_existent, Grown, Seen
      <3> QED
        BY <3>4, <3>5, <3>6
    <2> QED
      BY <2>1, <2>2, <2>3
  <1>11. CASE Stop
    BY <1>11 DEF Stop
  <1>12. CASE Start
    BY <1>12, FirstTaken DEF Start
  <1>13. CASE UNCHANGED vars
    <2>1. UNCHANGED <<unit_state, bus, entries, phase, mqueue, proxy, degraded>>
      BY <1>13 DEF vars
    <2>2. ASSUME NEW s \in Service, Seen(s)
          PROVE  Seen(s)'
      BY <2>1, <2>2 DEF Seen
    <2> QED
      BY <1>1, <2>1, <2>2
  <1> QED
    BY <1>2, <1>3, <1>5, <1>6, <1>7, <1>8, <1>9, <1>10, <1>11, <1>12, <1>13 DEF Next

(* Between the list and the signals no service is overlooked: the manager is *)
(* listened to before it is asked (rmg_application_new, on_manager_signal).  *)
THEOREM OverlooksNone == Spec => []NoneOverlooked
  <1>1. Init => Listening
    BY FirstTaken DEF Init, Listening
  <1>2. Listening => NoneOverlooked
    BY DEF Listening, NoneOverlooked, Seen
  <1> QED
    BY ShapeInit, ShapeStep, ListeningStep, <1>1, <1>2, PTL DEF Spec

=============================================================================
