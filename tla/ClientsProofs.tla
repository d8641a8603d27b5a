---------------------------- MODULE ClientsProofs ----------------------------
(* The primary's connections match its replicas, for any number of them.     *)
EXTENDS FederationProofs, FiniteSetTheorems

-----------------------------------------------------------------------------
(* Connections are under the name their replica's is read as, or its         *)
(* descriptor is still the first message; no other descriptor ever comes.    *)

Named(c) ==
  \/ c.context \in ReadAs[c.replica]
  \/ /\ c.context = NoContext
     /\ c.inbox # <<>> /\ Head(c.inbox) = Note("descriptor", c.replica)
OwnDescriptor(c) ==
  \A k \in DOMAIN c.inbox : c.inbox[k].type = "descriptor" => c.inbox[k].context = c.replica
ProperClient == {c \in Client : Named(c) /\ OwnDescriptor(c)}
ConnectionsNamed == backlog \in Seq(ProperClient) /\ clients \in Seq(ProperClient)

(* At most one connection of a replica is open: the one its manager has, if  *)
(* it has one.                                                               *)
Live(q, r) == {i \in DOMAIN q : q[i].replica = r /\ q[i].open}
None(q, r) == Live(q, r) = {}
One(q, r) == \E i \in DOMAIN q : Live(q, r) = {i}
LinkHasConnection ==
  \A r \in Replica :
    IF link[r] = "up"
    THEN \/ One(backlog, r) /\ None(clients, r)
         \/ None(backlog, r) /\ One(clients, r)
    ELSE None(backlog, r) /\ None(clients, r)
DownHasNone ==
  /\ \A r \in Replica : phase[r] = "down" => link[r] = "none"
  /\ phase[Primary] = "down" => backlog = <<>> /\ clients = <<>>

Matched == ConnectionsNamed /\ LinkHasConnection /\ DownHasNone

-----------------------------------------------------------------------------
(* What the operations on connections do to the names.                       *)

LEMMA NamesOfWritten ==
  ASSUME NEW q \in Seq(ProperClient), NEW r, NEW m \in Message, m.type # "descriptor"
  PROVE  /\ Written(q, r, m) \in Seq(ProperClient)
         /\ DOMAIN Written(q, r, m) = DOMAIN q
         /\ \A i \in DOMAIN q : /\ Written(q, r, m)[i].replica = q[i].replica
                                /\ Written(q, r, m)[i].open = q[i].open
  <1> DEFINE c(i) == IF q[i].replica = r /\ q[i].open /\ Room(q[i].inbox)
                     THEN [q[i] EXCEPT !.inbox = Append(@, m)] ELSE q[i]
  <1>1. ASSUME NEW i \in DOMAIN q
        PROVE  c(i) \in ProperClient /\ c(i).replica = q[i].replica /\ c(i).open = q[i].open
    <2> DEFINE old == q[i].inbox
               long == [q[i] EXCEPT !.inbox = Append(@, m)]
    <2>1. q[i] \in Client /\ Named(q[i]) /\ OwnDescriptor(q[i]) /\ q[i] \in ProperClient
      BY DEF ProperClient
    <2>2. old \in Seq(Message)
      BY <2>1 DEF Client
    <2>3. /\ Append(old, m) \in Seq(Message) /\ Append(old, m) # <<>>
          /\ old # <<>> => Head(Append(old, m)) = Head(old)
          /\ \A k \in DOMAIN Append(old, m) :
               \/ k \in DOMAIN old /\ Append(old, m)[k] = old[k]
               \/ Append(old, m)[k] = m
      BY <2>2
    <2>4. /\ long \in Client /\ long.inbox = Append(old, m)
          /\ long.context = q[i].context /\ long.replica = q[i].replica
          /\ long.open = q[i].open
      BY <2>1, <2>3 DEF Client
    <2> HIDE DEF old, long
    <2>5. Named(long)
      BY <2>1, <2>3, <2>4 DEF Named, old
    <2>6. OwnDescriptor(long)
      BY <2>1, <2>3, <2>4 DEF OwnDescriptor, old
    <2>7. long \in ProperClient
      BY <2>4, <2>5, <2>6 DEF ProperClient
    <2> QED
      BY <2>1, <2>4, <2>7 DEF long
  <1>2. DOMAIN q = 1 .. Len(q) /\ Len(q) \in Nat
    OBVIOUS
  <1>3. Written(q, r, m) = [i \in DOMAIN q |-> c(i)]
    BY DEF Written
  <1> HIDE DEF c
  <1>4. [i \in DOMAIN q |-> c(i)] \in Seq(ProperClient)
    BY <1>1, <1>2
  <1> QED
    BY <1>1, <1>3, <1>4

LEMMA NamesOfShut ==
  ASSUME NEW q \in Seq(ProperClient), NEW r
  PROVE  /\ Shut(q, r) \in Seq(ProperClient)
         /\ DOMAIN Shut(q, r) = DOMAIN q
         /\ \A i \in DOMAIN q : /\ Shut(q, r)[i].replica = q[i].replica
                                /\ Shut(q, r)[i].open <=> q[i].open /\ q[i].replica # r
  <1> DEFINE c(i) == IF q[i].replica = r THEN [q[i] EXCEPT !.open = FALSE] ELSE q[i]
  <1>1. ASSUME NEW i \in DOMAIN q
        PROVE  /\ c(i) \in ProperClient /\ c(i).replica = q[i].replica
               /\ c(i).open <=> q[i].open /\ q[i].replica # r
    <2> DEFINE closed == [q[i] EXCEPT !.open = FALSE]
    <2>1. q[i] \in Client /\ Named(q[i]) /\ OwnDescriptor(q[i]) /\ q[i] \in ProperClient
      BY DEF ProperClient
    <2>2. /\ closed \in Client /\ closed.inbox = q[i].inbox
          /\ closed.context = q[i].context /\ closed.replica = q[i].replica
          /\ ~closed.open
      BY <2>1 DEF Client
    <2> HIDE DEF closed
    <2>3. closed \in ProperClient
      BY <2>1, <2>2 DEF Named, OwnDescriptor, ProperClient
    <2>4. CASE q[i].replica = r
      <3>1. c(i) = closed
        BY <2>4 DEF closed
      <3> QED
        BY <2>2, <2>3, <2>4, <3>1
    <2>5. CASE q[i].replica # r
      <3>1. c(i) = q[i]
        BY <2>5
      <3> QED
        BY <2>1, <2>5, <3>1
    <2> QED
      BY <2>4, <2>5
  <1>2. DOMAIN q = 1 .. Len(q) /\ Len(q) \in Nat
    OBVIOUS
  <1>3. Shut(q, r) = [i \in DOMAIN q |-> c(i)]
    BY DEF Shut
  <1> HIDE DEF c
  <1>4. [i \in DOMAIN q |-> c(i)] \in Seq(ProperClient)
    BY <1>1, <1>2
  <1> QED
    BY <1>1, <1>3, <1>4

(* Reading takes the descriptor first, which names the connection.           *)
LEMMA NamesOfRead ==
  ASSUME ConnectionsNamed, NEW i \in DOMAIN clients, ReadsClient(i)
  PROVE  /\ clients' \in Seq(ProperClient)
         /\ DOMAIN clients' = DOMAIN clients
         /\ \A j \in DOMAIN clients : /\ clients'[j].replica = clients[j].replica
                                      /\ clients'[j].open = clients[j].open
  <1> DEFINE c == clients[i]
             sent == Head(c.inbox)
  <1>0. PICK m \in Received(sent) :
        clients' = [clients EXCEPT ![i].inbox = Tail(@), ![i].context = NamedBy(m, @)]
    BY DEF ReadsClient
  <1> DEFINE named == NamedBy(m, c.context)
             read == [c EXCEPT !.inbox = Tail(@), !.context = named]
  <1>1. /\ c.inbox # <<>>
        /\ clients' = [clients EXCEPT ![i].inbox = Tail(@), ![i].context = named]
    BY <1>0 DEF ReadsClient
  <1>2. clients \in Seq(ProperClient) /\ c \in ProperClient
    BY DEF ConnectionsNamed
  <1>3. c \in Client /\ Named(c) /\ OwnDescriptor(c)
    BY <1>2 DEF ProperClient
  <1>4. c.inbox \in Seq(Message) /\ c.replica \in Replica
    BY <1>3 DEF Client
  <1>5. /\ sent \in Message /\ Tail(c.inbox) \in Seq(Message)
        /\ 1 \in DOMAIN c.inbox /\ sent = c.inbox[1]
        /\ \A k \in DOMAIN Tail(c.inbox) :
             k + 1 \in DOMAIN c.inbox /\ Tail(c.inbox)[k] = c.inbox[k + 1]
    BY <1>1, <1>4
  <1>6. named \in ReadAs[c.replica]
    <2>1. m.type = sent.type /\ m.context \in ReadAs[sent.context]
      BY <1>0 DEF Received, Note
    <2>2. CASE sent.type = "descriptor"
      BY <1>3, <1>5, <2>1, <2>2 DEF OwnDescriptor, NamedBy
    <2>3. CASE sent.type # "descriptor"
      BY <1>3, <2>1, <2>3, NoteTypes DEF Named, NamedBy
    <2> QED
      BY <2>2, <2>3
  <1>7. clients' = [clients EXCEPT ![i] = read]
    BY <1>1
  <1>8. /\ read \in Client /\ read.inbox = Tail(c.inbox) /\ read.context = named
        /\ read.replica = c.replica /\ read.open = c.open
    <2> HIDE DEF c, sent, named
    <2>1. named \in Name
      BY <1>4, <1>6, NodesApart, ReadAsType
    <2> QED
      BY <1>3, <1>5, <2>1 DEF Client
  <1> HIDE DEF c, sent, named, read
  <1>9. read \in ProperClient
    <2>1. Named(read)
      BY <1>6, <1>8 DEF Named
    <2>2. OwnDescriptor(read)
      BY <1>3, <1>5, <1>8 DEF OwnDescriptor
    <2> QED
      BY <1>8, <2>1, <2>2 DEF ProperClient
  <1> QED
    BY <1>2, <1>7, <1>8, <1>9 DEF c

-----------------------------------------------------------------------------
(* What they do to the open connections of a replica.                        *)

LEMMA LiveSame ==
  ASSUME NEW p, NEW q, NEW r, DOMAIN p = DOMAIN q,
         \A i \in DOMAIN q : p[i].replica = q[i].replica /\ p[i].open = q[i].open
  PROVE  /\ None(q, r) => None(p, r)
         /\ One(q, r) => One(p, r)
  <1>1. Live(p, r) = Live(q, r)
    BY DEF Live
  <1> QED
    BY <1>1 DEF None, One

LEMMA LiveEmpty ==
  ASSUME NEW r
  PROVE  None(<<>>, r)
  BY DEF None, Live

LEMMA LiveAppend ==
  ASSUME NEW S, NEW q \in Seq(S), NEW c \in S, NEW r
  PROVE  /\ ~(c.replica = r /\ c.open) =>
              (None(q, r) => None(Append(q, c), r)) /\ (One(q, r) => One(Append(q, c), r))
         /\ c.replica = r /\ c.open /\ None(q, r) => One(Append(q, c), r)
  <1> DEFINE long == Append(q, c)
             n == Len(q) + 1
  <1>1. /\ DOMAIN q = 1 .. Len(q) /\ Len(q) \in Nat
        /\ DOMAIN long = 1 .. n /\ long[n] = c
        /\ \A i \in 1 .. Len(q) : long[i] = q[i]
    OBVIOUS
  <1>2. n \in DOMAIN long /\ n \notin DOMAIN q /\ DOMAIN long = DOMAIN q \cup {n}
    BY <1>1
  <1> HIDE DEF long, n
  <1>3. \A i \in DOMAIN q : i \in DOMAIN long /\ long[i] = q[i]
    BY <1>1, <1>2
  <1>4. CASE ~(c.replica = r /\ c.open)
    <2>1. Live(long, r) = Live(q, r)
      BY <1>1, <1>2, <1>3, <1>4 DEF Live
    <2> QED
      BY <1>2, <1>4, <2>1 DEF None, One, long
  <1>5. CASE c.replica = r /\ c.open
    <2>1. Live(long, r) = Live(q, r) \cup {n}
      BY <1>1, <1>2, <1>3, <1>5 DEF Live
    <2>2. None(q, r) => One(long, r)
      BY <1>2, <2>1 DEF None, One
    <2> QED
      BY <1>5, <2>2 DEF long
  <1> QED
    BY <1>4, <1>5

LEMMA LiveTail ==
  ASSUME NEW S, NEW q \in Seq(S), q # <<>>, NEW r
  PROVE  /\ None(q, r) => /\ None(Tail(q), r)
                          /\ ~(Head(q).replica = r /\ Head(q).open)
         /\ One(q, r) /\ Head(q).replica = r /\ Head(q).open => None(Tail(q), r)
         /\ One(q, r) /\ ~(Head(q).replica = r /\ Head(q).open) => One(Tail(q), r)
  <1> DEFINE rest == Tail(q)
             first == Head(q)
  <1>1. /\ DOMAIN q = 1 .. Len(q) /\ Len(q) \in Nat \ {0}
        /\ DOMAIN rest = 1 .. Len(q) - 1 /\ first = q[1]
        /\ \A i \in 1 .. Len(q) - 1 : rest[i] = q[i + 1]
    OBVIOUS
  <1> HIDE DEF rest, first
  <1>2. \A i \in DOMAIN rest : i \in Live(rest, r) <=> i + 1 \in Live(q, r)
    BY <1>1 DEF Live
  <1>3. 1 \in Live(q, r) <=> first.replica = r /\ first.open
    BY <1>1 DEF Live
  <1>4. Live(rest, r) \subseteq DOMAIN rest
    BY DEF Live
  <1>5. None(q, r) => None(rest, r) /\ ~(first.replica = r /\ first.open)
    BY <1>2, <1>3, <1>4 DEF None
  <1>6. ASSUME One(q, r), first.replica = r, first.open
        PROVE  None(rest, r)
    <2>1. Live(q, r) = {1}
      BY <1>3, <1>6 DEF One
    <2>2. \A i \in DOMAIN rest : i + 1 # 1
      BY <1>1
    <2> QED
      BY <1>2, <1>4, <2>1, <2>2 DEF None
  <1>7. ASSUME One(q, r), ~(first.replica = r /\ first.open)
        PROVE  One(rest, r)
    <2>1. PICK i \in DOMAIN q : Live(q, r) = {i}
      BY <1>7 DEF One
    <2>2. i # 1
      BY <1>3, <1>7, <2>1
    <2>3. i - 1 \in DOMAIN rest /\ (i - 1) + 1 = i
      BY <1>1, <2>1, <2>2
    <2>4. \A j \in DOMAIN rest : j + 1 = i => j = i - 1
      BY <1>1, <2>1
    <2>5. Live(rest, r) = {i - 1}
      BY <1>2, <1>4, <2>1, <2>3, <2>4
    <2> QED
      BY <2>3, <2>5 DEF One
  <1> QED
    BY <1>5, <1>6, <1>7 DEF rest, first

(* Only a connection whose replica is gone is dropped.                       *)
LEMMA LiveRemoved ==
  ASSUME NEW S, NEW q \in Seq(S), NEW i \in DOMAIN q, ~q[i].open, NEW r
  PROVE  /\ None(q, r) => None(RemoveAt(q, i), r)
         /\ One(q, r) => One(RemoveAt(q, i), r)
  <1> DEFINE rest == RemoveAt(q, i)
             from(k) == IF k < i THEN k ELSE k + 1
  <1>1. /\ rest \in Seq(S) /\ Len(rest) = Len(q) - 1
        /\ \A k \in 1 .. Len(q) - 1 : rest[k] = IF k < i THEN q[k] ELSE q[k + 1]
    <2>1. i \in 1 .. Len(q)
      OBVIOUS
    <2> QED
      BY <2>1, RemoveAtProperties
  <1>2. /\ DOMAIN q = 1 .. Len(q) /\ Len(q) \in Nat
        /\ DOMAIN rest = 1 .. Len(q) - 1
    BY <1>1
  <1> HIDE DEF rest
  <1>3. \A k \in DOMAIN rest : from(k) \in DOMAIN q /\ rest[k] = q[from(k)]
    BY <1>1, <1>2
  <1>4. \A j \in DOMAIN q : j # i =>
          \E k \in DOMAIN rest : from(k) = j
    <2> SUFFICES ASSUME NEW j \in DOMAIN q, j # i
                 PROVE  \E k \in DOMAIN rest : from(k) = j
      OBVIOUS
    <2>1. CASE j < i
      <3>1. j \in DOMAIN rest /\ from(j) = j
        BY <1>2, <2>1
      <3> QED
        BY <3>1
    <2>2. CASE ~(j < i)
      <3>1. j - 1 \in DOMAIN rest /\ from(j - 1) = j
        BY <1>2, <2>2
      <3> QED
        BY <3>1
    <2> QED
      BY <2>1, <2>2
  <1>5. \A k, l \in DOMAIN rest : from(k) = from(l) => k = l
    BY <1>2
  <1> HIDE DEF from
  <1>6. \A k \in DOMAIN rest : k \in Live(rest, r) <=> from(k) \in Live(q, r)
    BY <1>3 DEF Live
  <1>7. Live(rest, r) \subseteq DOMAIN rest /\ i \notin Live(q, r)
    BY DEF Live
  <1>8. None(q, r) => None(rest, r)
    BY <1>6, <1>7 DEF None
  <1>9. ASSUME One(q, r)
        PROVE  One(rest, r)
    <2>1. PICK j \in DOMAIN q : Live(q, r) = {j}
      BY <1>9 DEF One
    <2>2. PICK k \in DOMAIN rest : from(k) = j
      BY <1>4, <1>7, <2>1
    <2>3. Live(rest, r) = {k}
      BY <1>5, <1>6, <1>7, <2>1, <2>2
    <2> QED
      BY <2>2, <2>3 DEF One
  <1> QED
    BY <1>8, <1>9 DEF rest

-----------------------------------------------------------------------------
(* Steps that open and close no connection.                                  *)

Undisturbed ==
  /\ \A r \in Replica :
       /\ None(backlog, r) => None(backlog, r)'
       /\ One(backlog, r) => One(backlog, r)'
       /\ None(clients, r) => None(clients, r)'
       /\ One(clients, r) => One(clients, r)'
  /\ backlog = <<>> => backlog' = <<>>
  /\ clients = <<>> => clients' = <<>>

LEMMA MatchedKept ==
  ASSUME Matched, ConnectionsNamed', Undisturbed,
         \A r \in Replica : link'[r] = "up" <=> link[r] = "up",
         \A n \in Node : phase'[n] = "down" => phase[n] = "down",
         \A r \in Replica : phase[r] = "down" => link'[r] = link[r]
  PROVE  Matched'
  <1>1. LinkHasConnection'
    BY DEF Matched, LinkHasConnection, Undisturbed
  <1>2. DownHasNone'
    BY NodesApart DEF Matched, DownHasNone, Undisturbed
  <1> QED
    BY <1>1, <1>2 DEF Matched

LEMMA SameSockets ==
  ASSUME ConnectionsNamed, UNCHANGED <<backlog, clients>>
  PROVE  ConnectionsNamed' /\ Undisturbed
  BY DEF ConnectionsNamed, Undisturbed, None, One, Live

LEMMA NothingWritten ==
  ASSUME NEW r, NEW m
  PROVE  Written(<<>>, r, m) = <<>>
  BY DEF Written

LEMMA SendUndisturbed ==
  ASSUME ConnectionsNamed, NEW r, NEW m \in Message, m.type # "descriptor",
         manager_send(r, m)
  PROVE  ConnectionsNamed' /\ Undisturbed
  <1>1. CASE UNCHANGED <<backlog, clients>>
    BY <1>1, SameSockets
  <1>2. CASE backlog' = Written(backlog, r, m) /\ clients' = Written(clients, r, m)
    <2>1. /\ backlog' \in Seq(ProperClient) /\ DOMAIN backlog' = DOMAIN backlog
          /\ \A i \in DOMAIN backlog : /\ backlog'[i].replica = backlog[i].replica
                                       /\ backlog'[i].open = backlog[i].open
      BY <1>2, NamesOfWritten DEF ConnectionsNamed
    <2>2. /\ clients' \in Seq(ProperClient) /\ DOMAIN clients' = DOMAIN clients
          /\ \A i \in DOMAIN clients : /\ clients'[i].replica = clients[i].replica
                                       /\ clients'[i].open = clients[i].open
      BY <1>2, NamesOfWritten DEF ConnectionsNamed
    <2>3. ASSUME NEW o \in Replica
          PROVE  /\ None(backlog, o) => None(backlog, o)'
                 /\ One(backlog, o) => One(backlog, o)'
      <3>1. /\ None(backlog, o) => None(backlog', o)
            /\ One(backlog, o) => One(backlog', o)
        BY <2>1, LiveSame
      <3> QED
        BY <3>1
    <2>4. ASSUME NEW o \in Replica
          PROVE  /\ None(clients, o) => None(clients, o)'
                 /\ One(clients, o) => One(clients, o)'
      <3>1. /\ None(clients, o) => None(clients', o)
            /\ One(clients, o) => One(clients', o)
        BY <2>2, LiveSame
      <3> QED
        BY <3>1
    <2>5. /\ backlog = <<>> => backlog' = <<>>
          /\ clients = <<>> => clients' = <<>>
      BY <1>2, NothingWritten
    <2> QED
      BY <2>1, <2>2, <2>3, <2>4, <2>5 DEF ConnectionsNamed, Undisturbed
  <1> QED
    BY <1>1, <1>2 DEF manager_send

LEMMA FailureToldUndisturbed ==
  ASSUME ConnectionsNamed, NEW n \in Node, NEW c \in Name,
         do_friend_service_failed_event(n, c)
  PROVE  ConnectionsNamed' /\ Undisturbed
  <1>1. /\ Note("serviceFailed", c) \in Message
        /\ Note("serviceFailed", c).type # "descriptor"
    BY NoteTypes, NewsBacked DEF News
  <1>2. CASE n = Primary
    BY <1>2, SameSockets DEF do_friend_service_failed_event
  <1>3. CASE n # Primary
    BY <1>1, <1>3, SendUndisturbed DEF do_friend_service_failed_event
  <1> QED
    BY <1>2, <1>3

LEMMA CrashMatched ==
  ASSUME Matched, NEW n \in Node, NEW a, ServiceCrash(n, a)
  PROVE  Matched'
  <1>1. ConnectionsNamed' /\ Undisturbed
    BY FailureToldUndisturbed, NodesApart DEF ServiceCrash, Matched
  <1>2. UNCHANGED <<phase, link>>
    BY DEF ServiceCrash
  <1> QED
    BY <1>1, <1>2, MatchedKept

LEMMA NewCrashMatched ==
  ASSUME Matched, NEW c \in Node, NewCrash(c)
  PROVE  Matched'
  <1>1. UNCHANGED <<phase, link, backlog, clients>>
    BY DEF NewCrash, sockets
  <1>2. ConnectionsNamed' /\ Undisturbed
    BY <1>1, SameSockets DEF Matched
  <1> QED
    BY <1>1, <1>2, MatchedKept

LEMMA DispatcherMatched ==
  ASSUME IInv, Matched, NEW n \in Node, DispatcherStep(n)
  PROVE  Matched'
  <1> DEFINE e == Head(dqueue[n])
  <1>1. /\ dqueue[n] # <<>>
        /\ UNCHANGED <<phase, link>>
        /\ \/ do_friend_process_crash_event(n, e)
           \/ InformServiceFailed(n, e)
           \/ RemoteRequest(n, e)
    BY DEF DispatcherStep
  <1>2. e.context \in Name
    BY <1>1, PopTypes, NewsBacked DEF IInv, QueuesBacked, Event
  <1> HIDE DEF e
  <1>3. ConnectionsNamed' /\ Undisturbed
    <2>1. CASE do_friend_process_crash_event(n, e)
      BY <2>1, SameSockets DEF do_friend_process_crash_event, Matched
    <2>2. CASE InformServiceFailed(n, e)
      BY <2>2, <1>2, FailureToldUndisturbed DEF InformServiceFailed, Matched
    <2>3. CASE RemoteRequest(n, e)
      BY <2>3, SameSockets DEF RemoteRequest, sockets, Matched
    <2> QED
      BY <1>1, <2>1, <2>2, <2>3
  <1> QED
    BY <1>1, <1>3, MatchedKept

LEMMA ExecutorMatched ==
  ASSUME Matched, NEW n \in Node, ExecutorStep(n)
  PROVE  Matched'
  <1> DEFINE t == Head(equeue[n]).type
  <1>1. /\ UNCHANGED link
        /\ phase' = phase \/ phase' = [phase EXCEPT ![n] = "quitting"]
        /\ \/ UNCHANGED <<backlog, clients>>
           \/ manager_send(n, Note("contextRestart", n))
           \/ t \in Request /\ manager_send(n, Note(t, n))
    <2>1. CASE FriendCrash(n)
      BY <2>1 DEF FriendCrash, ExecutorTakes
    <2>2. CASE \E ok \in BOOLEAN : do_process_context_restart_event(n, ok)
      BY <2>2 DEF do_process_context_restart_event, ExecutorTakes
    <2>3. CASE SystemRequest(n)
      BY <2>3 DEF SystemRequest, ExecutorTakes, Request
    <2> QED
      BY <2>1, <2>2, <2>3 DEF ExecutorStep
  <1> HIDE DEF t
  <1>2. ConnectionsNamed' /\ Undisturbed
    <2>1. \A type \in Request : /\ Note(type, n) \in Message
                                /\ Note(type, n).type # "descriptor"
      BY NodesApart DEF Note, Message, Request
    <2>2. CASE UNCHANGED <<backlog, clients>>
      BY <2>2, SameSockets DEF Matched
    <2>3. CASE manager_send(n, Note("contextRestart", n))
      BY <2>1, <2>3, SendUndisturbed DEF Matched, Request
    <2>4. CASE t \in Request /\ manager_send(n, Note(t, n))
      BY <2>1, <2>4, SendUndisturbed DEF Matched
    <2> QED
      BY <1>1, <2>2, <2>3, <2>4
  <1>3. \A o \in Node : phase'[o] = "down" => phase[o] = "down"
    <2>1. CASE phase' = phase
      BY <2>1
    <2>2. CASE phase' = [phase EXCEPT ![n] = "quitting"]
      BY <2>2
    <2> QED
      BY <1>1, <2>1, <2>2
  <1> QED
    BY <1>1, <1>2, <1>3, MatchedKept

LEMMA ManagerMatched ==
  ASSUME IInv, Matched, NEW r \in Replica, manager_source_callback(r)
  PROVE  Matched'
  <1>1. /\ UNCHANGED <<phase, backlog, clients>> /\ phase[r] # "down"
        /\ link' = link \/ (link[r] = "closed" /\ link' = [link EXCEPT ![r] = "broken"])
    BY DEF manager_source_callback
  <1>2. ConnectionsNamed' /\ Undisturbed
    BY <1>1, SameSockets DEF Matched
  <1>3. /\ \A o \in Replica : link'[o] = "up" <=> link[o] = "up"
        /\ \A o \in Replica : phase[o] = "down" => link'[o] = link[o]
    BY <1>1 DEF IInv, ProcessesTyped
  <1> QED
    BY <1>1, <1>2, <1>3, MatchedKept

-----------------------------------------------------------------------------
(* Steps that do.                                                            *)

(* What is accepted keeps its place among the connections.                   *)
LEMMA AcceptMatched ==
  ASSUME Matched, server_source_callback
  PROVE  Matched'
  <1> DEFINE c == Head(backlog)
  <1>1. /\ phase[Primary] # "down" /\ backlog # <<>>
        /\ clients' = Append(clients, c) /\ backlog' = Tail(backlog)
        /\ UNCHANGED <<phase, link>>
    BY DEF server_source_callback
  <1>2. backlog \in Seq(ProperClient) /\ clients \in Seq(ProperClient)
    BY DEF Matched, ConnectionsNamed
  <1>3. c \in ProperClient /\ ConnectionsNamed'
    BY <1>1, <1>2 DEF ConnectionsNamed
  <1>4. ASSUME NEW r \in Replica
        PROVE  IF link[r] = "up"
               THEN \/ One(backlog', r) /\ None(clients', r)
                    \/ None(backlog', r) /\ One(clients', r)
               ELSE None(backlog', r) /\ None(clients', r)
    <2>1. /\ None(backlog, r) => /\ None(backlog', r)
                                 /\ ~(c.replica = r /\ c.open)
          /\ One(backlog, r) /\ c.replica = r /\ c.open => None(backlog', r)
          /\ One(backlog, r) /\ ~(c.replica = r /\ c.open) => One(backlog', r)
      BY <1>1, <1>2, LiveTail
    <2>2. /\ ~(c.replica = r /\ c.open) =>
               (None(clients, r) => None(clients', r)) /\ (One(clients, r) => One(clients', r))
          /\ c.replica = r /\ c.open /\ None(clients, r) => One(clients', r)
      BY <1>1, <1>2, <1>3, LiveAppend
    <2> QED
      BY <2>1, <2>2 DEF Matched, LinkHasConnection
  <1>5. LinkHasConnection'
    BY <1>1, <1>4 DEF LinkHasConnection
  <1>6. DownHasNone'
    BY <1>1 DEF Matched, DownHasNone
  <1> QED
    BY <1>3, <1>5, <1>6 DEF Matched

(* The primary drops a connection when its replica's end is closed.          *)
LEMMA ClientMatched ==
  ASSUME Matched, NEW i \in DOMAIN clients, client_source_callback(i)
  PROVE  Matched'
  <1>1. /\ phase[Primary] # "down"
        /\ UNCHANGED <<phase, link, backlog>>
        /\ \/ ~clients[i].open /\ clients' = RemoveAt(clients, i)
           \/ ReadsClient(i)
    BY DEF client_source_callback, Drained, WithoutClient
  <1>2. clients \in Seq(ProperClient) /\ i \in 1 .. Len(clients) /\ clients # <<>>
    BY DEF Matched, ConnectionsNamed
  <1>3. /\ clients' \in Seq(ProperClient)
        /\ \A r \in Replica : /\ None(clients, r) => None(clients', r)
                              /\ One(clients, r) => One(clients', r)
    <2>1. CASE ~clients[i].open /\ clients' = RemoveAt(clients, i)
      BY <1>2, <2>1, RemoveAtProperties, LiveRemoved
    <2>2. CASE ReadsClient(i)
      BY <2>2, NamesOfRead, LiveSame DEF Matched
    <2> QED
      BY <1>1, <2>1, <2>2
  <1>4. LinkHasConnection'
    <2>1. ASSUME NEW r \in Replica
          PROVE  IF link[r] = "up"
                 THEN \/ One(backlog, r) /\ None(clients', r)
                      \/ None(backlog, r) /\ One(clients', r)
                 ELSE None(backlog, r) /\ None(clients', r)
      BY <1>3 DEF Matched, LinkHasConnection
    <2> QED
      BY <1>1, <2>1 DEF LinkHasConnection
  <1>5. ConnectionsNamed' /\ DownHasNone'
    BY <1>1, <1>3 DEF Matched, ConnectionsNamed, DownHasNone
  <1> QED
    BY <1>4, <1>5 DEF Matched

LEMMA LiveShut ==
  ASSUME NEW q \in Seq(ProperClient), NEW n, NEW r
  PROVE  /\ None(Shut(q, n), n)
         /\ r # n => /\ None(q, r) => None(Shut(q, n), r)
                     /\ One(q, r) => One(Shut(q, n), r)
  <1>1. /\ DOMAIN Shut(q, n) = DOMAIN q
        /\ \A i \in DOMAIN q : /\ Shut(q, n)[i].replica = q[i].replica
                               /\ Shut(q, n)[i].open <=> q[i].open /\ q[i].replica # n
    BY NamesOfShut
  <1>2. None(Shut(q, n), n)
    BY <1>1 DEF None, Live
  <1>3. r # n => Live(Shut(q, n), r) = Live(q, r)
    BY <1>1 DEF Live
  <1> QED
    BY <1>1, <1>2, <1>3 DEF None, One

LEMMA ExitMatched ==
  ASSUME IInv, Matched, NEW n \in Node, Exits(n)
  PROVE  Matched'
  <1>1. /\ phase \in [Node -> Phase] /\ link \in [Replica -> Link]
        /\ phase' = [phase EXCEPT ![n] = "down"]
    BY DEF Exits, IInv, ProcessesTyped
  <1>2. CASE n = Primary
    <2>1. /\ backlog' = <<>> /\ clients' = <<>>
          /\ link' = [r \in Replica |-> IF link[r] = "up" THEN "closed" ELSE link[r]]
      BY <1>2 DEF Exits
    <2>2. \A r \in Replica : link'[r] # "up" /\ (link[r] = "none" => link'[r] = "none")
      BY <2>1
    <2>3. \A r : None(backlog', r) /\ None(clients', r)
      BY <2>1, LiveEmpty
    <2>4. LinkHasConnection'
      BY <2>2, <2>3 DEF LinkHasConnection
    <2>5. ConnectionsNamed' /\ DownHasNone'
      BY <1>1, <1>2, <2>1, <2>2, NodesApart DEF Matched, ConnectionsNamed, DownHasNone
    <2> QED
      BY <2>4, <2>5 DEF Matched
  <1>3. CASE n # Primary
    <2>1. /\ n \in Replica
          /\ backlog' = Shut(backlog, n) /\ clients' = Shut(clients, n)
          /\ link' = [link EXCEPT ![n] = "none"]
      BY <1>3, NodesApart DEF Exits
    <2>2. \A r \in Replica : link'[r] = IF r = n THEN "none" ELSE link[r]
      BY <1>1, <2>1
    <2>3. backlog \in Seq(ProperClient) /\ clients \in Seq(ProperClient)
      BY DEF Matched, ConnectionsNamed
    <2>4. ConnectionsNamed'
      BY <2>1, <2>3, NamesOfShut DEF ConnectionsNamed
    <2>5. ASSUME NEW r \in Replica
          PROVE  IF link'[r] = "up"
                 THEN \/ One(backlog', r) /\ None(clients', r)
                      \/ None(backlog', r) /\ One(clients', r)
                 ELSE None(backlog', r) /\ None(clients', r)
      <3>1. CASE r = n
        BY <2>1, <2>2, <2>3, <3>1, LiveShut
      <3>2. CASE r # n
        <4>1. /\ None(backlog, r) => None(backlog', r)
              /\ One(backlog, r) => One(backlog', r)
              /\ None(clients, r) => None(clients', r)
              /\ One(clients, r) => One(clients', r)
          BY <2>1, <2>3, <3>2, LiveShut
        <4> QED
          BY <2>2, <3>2, <4>1 DEF Matched, LinkHasConnection
      <3> QED
        BY <3>1, <3>2
    <2>6. LinkHasConnection'
      BY <2>5 DEF LinkHasConnection
    <2>7. Shut(<<>>, n) = <<>>
      BY DEF Shut
    <2>8. DownHasNone'
      BY <1>1, <1>3, <2>1, <2>2, <2>7, NodesApart DEF Matched, DownHasNone
    <2> QED
      BY <2>4, <2>6, <2>8 DEF Matched
  <1> QED
    BY <1>2, <1>3

LEMMA StartMatched ==
  ASSUME IInv, Matched, NEW n \in Node, Starts(n)
  PROVE  Matched'
  <1>1. /\ phase \in [Node -> Phase] /\ link \in [Replica -> Link]
        /\ phase[n] = "down" /\ phase' = [phase EXCEPT ![n] = "running"]
        /\ UNCHANGED clients
    BY DEF Starts, IInv, ProcessesTyped
  <1>2. \A o \in Node : phase'[o] = IF o = n THEN "running" ELSE phase[o]
    BY <1>1
  <1>3. CASE n = Primary
    <2>1. UNCHANGED <<backlog, link>>
      BY <1>3 DEF Starts
    <2>2. ConnectionsNamed' /\ Undisturbed
      BY <1>1, <2>1, SameSockets DEF Matched
    <2> QED
      BY <1>2, <2>1, <2>2, MatchedKept
  <1>4. CASE n # Primary
    <2> DEFINE new == [replica |-> n, context |-> NoContext, open |-> TRUE,
                       inbox |-> <<Note("descriptor", n)>>]
    <2>1. /\ n \in Replica /\ phase[Primary] # "down"
          /\ link' = [link EXCEPT ![n] = "up"] /\ backlog' = Append(backlog, new)
      BY <1>4, NodesApart DEF Starts
    <2>2. \A r \in Replica : link'[r] = IF r = n THEN "up" ELSE link[r]
      BY <1>1, <2>1
    <2>3. new \in ProperClient /\ new.replica = n /\ new.open
      <3>1. Note("descriptor", n) \in Message /\ Note("descriptor", n).context = n
        BY NoteTypes, NewsBacked, NodesApart
      <3>2. /\ <<Note("descriptor", n)>> \in Seq(Message)
            /\ <<Note("descriptor", n)>> # <<>>
            /\ Head(<<Note("descriptor", n)>>) = Note("descriptor", n)
            /\ \A k \in DOMAIN <<Note("descriptor", n)>> :
                 <<Note("descriptor", n)>>[k] = Note("descriptor", n)
        BY <3>1
      <3>3. new \in Client
        BY <2>1, <3>2 DEF Client
      <3>4. Named(new)
        BY <3>2 DEF Named
      <3>5. OwnDescriptor(new)
        BY <3>1, <3>2 DEF OwnDescriptor
      <3> QED
        BY <3>3, <3>4, <3>5 DEF ProperClient
    <2> HIDE DEF new
    <2>4. backlog \in Seq(ProperClient) /\ backlog' \in Seq(ProperClient)
      BY <2>1, <2>3 DEF Matched, ConnectionsNamed
    <2>5. ConnectionsNamed'
      BY <1>1, <2>4 DEF Matched, ConnectionsNamed
    <2>6. ASSUME NEW r \in Replica
          PROVE  IF link'[r] = "up"
                 THEN \/ One(backlog', r) /\ None(clients, r)
                      \/ None(backlog', r) /\ One(clients, r)
                 ELSE None(backlog', r) /\ None(clients, r)
      <3>1. /\ r # n => /\ None(backlog, r) => None(backlog', r)
                        /\ One(backlog, r) => One(backlog', r)
            /\ r = n /\ None(backlog, r) => One(backlog', r)
        BY <2>1, <2>3, <2>4, LiveAppend
      <3>2. CASE r = n
        <4>1. None(backlog, r) /\ None(clients, r)
          BY <1>1, <3>2 DEF Matched, LinkHasConnection, DownHasNone
        <4> QED
          BY <2>2, <3>1, <3>2, <4>1
      <3>3. CASE r # n
        BY <2>2, <3>1, <3>3 DEF Matched, LinkHasConnection
      <3> QED
        BY <3>2, <3>3
    <2>7. LinkHasConnection'
      BY <1>1, <2>6 DEF LinkHasConnection
    <2>8. DownHasNone'
      BY <1>2, <1>4, <2>1, <2>2, NodesApart DEF Matched, DownHasNone
    <2> QED
      BY <2>5, <2>7, <2>8 DEF Matched
  <1> QED
    BY <1>3, <1>4

LEMMA MatchedInit == Init => Matched
  <1> SUFFICES ASSUME Init PROVE Matched
    OBVIOUS
  <1>1. \A r : None(backlog, r) /\ None(clients, r)
    BY LiveEmpty DEF Init
  <1> QED
    BY <1>1, NodesApart
       DEF Init, Matched, ConnectionsNamed, LinkHasConnection, DownHasNone

LEMMA MatchedStep == IInv /\ Matched /\ [Next]_vars => Matched'
  <1> SUFFICES ASSUME IInv, Matched, [Next]_vars PROVE Matched'
    OBVIOUS
  <1>1. CASE UNCHANGED vars
    <2>1. UNCHANGED <<phase, link, backlog, clients>>
      BY <1>1 DEF vars
    <2> QED
      BY <2>1, SameSockets, MatchedKept DEF Matched
  <1>2. CASE \E n \in Node, a \in Request \cup {"local"} : ServiceCrash(n, a)
    BY <1>2, CrashMatched
  <1>3. CASE \E c \in Node : NewCrash(c)
    BY <1>3, NewCrashMatched
  <1>4. CASE \E n \in Node : DispatcherStep(n)
    BY <1>4, DispatcherMatched
  <1>5. CASE \E n \in Node : ExecutorStep(n)
    BY <1>5, ExecutorMatched
  <1>6. CASE \E n \in Node : Exits(n)
    BY <1>6, ExitMatched
  <1>7. CASE \E n \in Node : Starts(n)
    BY <1>7, StartMatched
  <1>8. CASE server_source_callback
    BY <1>8, AcceptMatched
  <1>9. CASE \E i \in DOMAIN clients : client_source_callback(i)
    BY <1>9, ClientMatched
  <1>10. CASE \E r \in Replica : manager_source_callback(r)
    BY <1>10, ManagerMatched
  <1> QED
    BY <1>1, <1>2, <1>3, <1>4, <1>5, <1>6, <1>7, <1>8, <1>9, <1>10 DEF Next

-----------------------------------------------------------------------------
(* What the open connections are in the two sequences, they are in both.     *)

LEMMA LiveConnections ==
  ASSUME Matched, NEW r \in Replica
  PROVE  Cardinality({i \in DOMAIN Connections :
                        Connections[i].replica = r /\ Connections[i].open})
           = IF link[r] = "up" THEN 1 ELSE 0
  <1> DEFINE n == Len(backlog)
             live == {i \in DOMAIN Connections :
                        Connections[i].replica = r /\ Connections[i].open}
  <1>1. backlog \in Seq(ProperClient) /\ clients \in Seq(ProperClient)
    BY DEF Matched, ConnectionsNamed
  <1>2. /\ DOMAIN backlog = 1 .. n /\ DOMAIN clients = 1 .. Len(clients)
        /\ n \in Nat /\ Len(clients) \in Nat
        /\ DOMAIN Connections = 1 .. n + Len(clients)
        /\ \A i \in 1 .. n : Connections[i] = backlog[i]
        /\ \A i \in n + 1 .. n + Len(clients) : Connections[i] = clients[i - n]
    BY <1>1 DEF Connections
  <1>3. /\ \A i \in DOMAIN backlog : i \in live <=> i \in Live(backlog, r)
        /\ \A i \in DOMAIN clients : n + i \in live <=> i \in Live(clients, r)
        /\ \A i \in live : i \in DOMAIN backlog \/ \E j \in DOMAIN clients : i = n + j
    <2>1. \A i \in DOMAIN backlog : i \in live <=> i \in Live(backlog, r)
      BY <1>2 DEF Live
    <2>2. \A i \in DOMAIN clients : n + i \in n + 1 .. n + Len(clients) /\ (n + i) - n = i
      BY <1>2
    <2>3. \A i \in DOMAIN clients : n + i \in DOMAIN Connections
                                   /\ Connections[n + i] = clients[i]
      BY <1>2, <2>2
    <2>4. \A i \in DOMAIN clients : n + i \in live <=> i \in Live(clients, r)
      BY <2>3 DEF Live
    <2>5. ASSUME NEW i \in DOMAIN Connections, i \notin DOMAIN backlog
          PROVE  \E j \in DOMAIN clients : i = n + j
      <3>1. i - n \in DOMAIN clients /\ i = n + (i - n)
        BY <1>2, <2>5
      <3> QED
        BY <3>1
    <2> QED
      BY <2>1, <2>4, <2>5
  <1>4. Live(backlog, r) \subseteq DOMAIN backlog /\ Live(clients, r) \subseteq DOMAIN clients
    BY DEF Live
  <1> HIDE DEF live, n
  <1>5. None(backlog, r) /\ None(clients, r) => Cardinality(live) = 0
    BY <1>3, FS_EmptySet DEF None
  <1>6. ASSUME One(backlog, r), None(clients, r)
        PROVE  Cardinality(live) = 1
    <2>1. PICK i \in DOMAIN backlog : Live(backlog, r) = {i}
      BY <1>6 DEF One
    <2>2. i \in live
      BY <1>3, <2>1
    <2>3. \A j \in live : j = i
      BY <1>3, <1>6, <2>1 DEF None
    <2>4. live = {i}
      BY <2>2, <2>3
    <2> QED
      BY <2>4, FS_Singleton
  <1>7. ASSUME None(backlog, r), One(clients, r)
        PROVE  Cardinality(live) = 1
    <2>1. PICK i \in DOMAIN clients : Live(clients, r) = {i}
      BY <1>7 DEF One
    <2>2. n + i \in live
      BY <1>3, <2>1
    <2>3. \A j \in live : j = n + i
      BY <1>3, <1>7, <2>1 DEF None
    <2>4. live = {n + i}
      BY <2>2, <2>3
    <2> QED
      BY <2>4, FS_Singleton
  <1>8. Cardinality(live) = IF link[r] = "up" THEN 1 ELSE 0
    BY <1>5, <1>6, <1>7 DEF Matched, LinkHasConnection
  <1> QED
    BY <1>8 DEF live

(* The primary serves each connected replica on one connection, under the    *)
(* replica's name as it was read, and drops only stale ones, for any number  *)
(* of replicas that come and go (rmg_manager_connect,                        *)
(* server_source_callback, client_source_callback and its destroy            *)
(* notification).                                                            *)
THEOREM ClientsMatch == Spec => []ClientsMatchReplicas
  <1>1. ASSUME Matched
        PROVE  ClientsMatchReplicas
    <2>1. backlog \in Seq(ProperClient) /\ clients \in Seq(ProperClient)
      BY <1>1 DEF Matched, ConnectionsNamed
    <2>2. Connections \in Seq(ProperClient)
      BY <2>1 DEF Connections
    <2>3. \A i \in DOMAIN Connections : Connections[i] \in ProperClient
      BY <2>2
    <2>4. \A i \in DOMAIN Connections : Named(Connections[i])
      BY <2>3 DEF ProperClient
    <2> QED
      BY <1>1, <2>4, LiveConnections DEF ClientsMatchReplicas, Named
  <1>2. Init => IInv /\ Matched
    BY IInvInit, MatchedInit
  <1>3. IInv /\ Matched /\ [Next]_vars => (IInv /\ Matched)'
    BY IInvStep, MatchedStep
  <1> QED
    BY <1>1, <1>2, <1>3, PTL DEF Spec

=============================================================================
