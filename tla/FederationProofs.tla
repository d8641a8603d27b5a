-------------------------- MODULE FederationProofs --------------------------
(* Theorems about the instances of a platform, for any number of replicas,   *)
(* any sockets and any number of crashes and starts.                         *)
EXTENDS Federation, SequenceLemmas

-----------------------------------------------------------------------------
(* What queues and sockets hold. An event is backed if it is news, or a      *)
(* request some crash called for; a context restart may stand for the        *)
(* platform restart a crash called for, which is what process_message of a   *)
(* client makes of it, and the name may be what reading made of it.          *)

NewsNote == [type : News, context : Name]
RequestNote(S) == [type : Request, context : S]
Traced(e) ==
  \E w \in wanted :
    /\ e.context \in ReadAs[w.context]
    /\ e.type = w.type \/ (e.type = "contextRestart" /\ w.type = "platformRestart")
Backed == {e \in Event : e.type \in Request => Traced(e)}
Upward == {m \in Message : m.type \in Request => Traced(m)}
Connection(S) ==
  [replica : Replica, context : Name \cup {NoContext}, open : BOOLEAN,
   inbox : Seq(S)]

ProcessesTyped ==
  /\ phase \in [Node -> Phase]
  /\ link \in [Replica -> Link]
  /\ failed \in [Node -> Nat]
  /\ heard \in [Node -> Nat]
  /\ crashes \in Nat
  /\ starts \in [Node -> Nat]
RequestsBacked ==
  /\ wanted \subseteq RequestNote(Node)
  /\ asked \subseteq Backed \cap RequestNote(Name)
QueuesBacked ==
  /\ dqueue \in [Node -> Seq(Backed)]
  /\ equeue \in [Node -> Seq(Backed)]
SocketsBacked ==
  /\ backlog \in Seq(Connection(Upward))
  /\ clients \in Seq(Connection(Upward))
  /\ inbox \in [Replica -> Seq(NewsNote)]
(* A replica hears news only, so a request in it is its own.                 *)
ReplicasAskForThemselves ==
  \A r \in Replica :
    /\ \A k \in DOMAIN dqueue[r] : dqueue[r][k].type \in News
    /\ \A k \in DOMAIN equeue[r] :
         equeue[r][k].type \in Request => equeue[r][k].context = r

IInv ==
  /\ ProcessesTyped
  /\ RequestsBacked
  /\ QueuesBacked
  /\ SocketsBacked
  /\ ReplicasAskForThemselves

-----------------------------------------------------------------------------
(* The sets above.                                                           *)

LEMMA NodesApart ==
  /\ Replica \subseteq Node /\ Primary \in Node /\ Primary \notin Replica
  /\ \A n \in Node : n # Primary => n \in Replica
  /\ Node \subseteq Name
  BY NamesType DEF Node

LEMMA NewsBacked ==
  /\ NewsNote \subseteq Backed /\ NewsNote \subseteq Upward
  /\ Backed \subseteq Event /\ Upward \subseteq Message
  /\ NewsNote \subseteq Message /\ Backed \subseteq Upward
  BY DEF NewsNote, Backed, Upward, Event, Message, News, Request

LEMMA NoteTypes ==
  /\ \A t \in News, n \in Name : Note(t, n) \in NewsNote
  /\ \A n \in Name : Note("descriptor", n) \in Upward
  /\ \A t, n : Note(t, n).type = t /\ Note(t, n).context = n
  BY DEF Note, NewsNote, Upward, Message, Request

(* What is read of a message is backed if the message was.                   *)
LEMMA ReceivedBacked ==
  ASSUME RequestsBacked
  PROVE  /\ \A m \in Upward : \A k \in Received(m) : k \in Upward /\ k.type = m.type
         /\ \A m \in NewsNote : \A k \in Received(m) : k \in NewsNote
  <1>1. ASSUME NEW m \in Message, NEW k \in Received(m)
        PROVE  /\ k \in Message /\ k.type = m.type
               /\ Traced(m) => Traced(k)
    <2>1. PICK c \in ReadAs[m.context] : k = Note(m.type, c)
      BY <1>1 DEF Received
    <2>2. m.context \in Name /\ c \in Name
      BY <2>1, ReadAsType DEF Message
    <2>3. k \in Message /\ k.type = m.type /\ k.context = c
      BY <2>1, <2>2 DEF Note, Message
    <2>4. ASSUME NEW w \in wanted, m.context \in ReadAs[w.context]
          PROVE  k.context \in ReadAs[w.context]
      <3>1. w.context \in Name
        BY NodesApart DEF RequestsBacked, RequestNote
      <3> QED
        BY <2>1, <2>3, <2>4, <3>1, ReadAsType
    <2> QED
      BY <2>3, <2>4 DEF Traced
  <1> QED
    BY <1>1, NewsBacked DEF Upward, NewsNote, Message

(* Requests are only ever added to those called for.                         *)
LEMMA BackedGrows ==
  ASSUME wanted \subseteq wanted'
  PROVE  Backed \subseteq Backed' /\ Upward \subseteq Upward'
  BY DEF Backed, Upward, Traced

LEMMA ConnectionsGrow ==
  ASSUME NEW S, NEW T, S \subseteq T
  PROVE  Seq(Connection(S)) \subseteq Seq(Connection(T))
  <1>1. Seq(S) \subseteq Seq(T)
    BY SeqGrows
  <1>2. Connection(S) \subseteq Connection(T)
    BY <1>1 DEF Connection
  <1> QED
    BY <1>2, SeqGrows

LEMMA SocketsGrow ==
  ASSUME wanted \subseteq wanted', NEW q \in Seq(Connection(Upward))
  PROVE  q \in Seq(Connection(Upward'))
  BY BackedGrows, ConnectionsGrow

-----------------------------------------------------------------------------
(* Sending.                                                                  *)

LEMMA WrittenTypes ==
  ASSUME NEW S, NEW conns \in Seq(Connection(S)), NEW r, NEW m \in S
  PROVE  Written(conns, r, m) \in Seq(Connection(S))
  <1> DEFINE c(i) == IF conns[i].replica = r /\ conns[i].open /\ Room(conns[i].inbox)
                     THEN [conns[i] EXCEPT !.inbox = Append(@, m)] ELSE conns[i]
  <1>1. ASSUME NEW i \in DOMAIN conns
        PROVE  c(i) \in Connection(S)
    <2>1. conns[i] \in Connection(S)
      OBVIOUS
    <2>2. Append(conns[i].inbox, m) \in Seq(S)
      BY <2>1 DEF Connection
    <2> QED
      BY <2>1, <2>2 DEF Connection
  <1> HIDE DEF c
  <1>2. [i \in DOMAIN conns |-> c(i)] \in Seq(Connection(S))
    <2>1. DOMAIN conns = 1 .. Len(conns) /\ Len(conns) \in Nat
      OBVIOUS
    <2> QED
      BY <1>1, <2>1
  <1>3. Written(conns, r, m) = [i \in DOMAIN conns |-> c(i)]
    BY DEF Written, c
  <1> QED
    BY <1>2, <1>3

LEMMA SendTypes ==
  ASSUME SocketsBacked, NEW r, NEW m \in Upward, manager_send(r, m)
  PROVE  /\ backlog' \in Seq(Connection(Upward))
         /\ clients' \in Seq(Connection(Upward))
  BY WrittenTypes DEF SocketsBacked, manager_send

LEMMA InformTypes ==
  ASSUME SocketsBacked, NEW skip, NEW m \in NewsNote, Inform(skip, m)
  PROVE  inbox' \in [Replica -> Seq(NewsNote)]
  BY DEF SocketsBacked, Inform

LEMMA FailureToldTypes ==
  ASSUME SocketsBacked, NEW n \in Node, NEW c \in Name,
         do_friend_service_failed_event(n, c)
  PROVE  /\ backlog' \in Seq(Connection(Upward))
         /\ clients' \in Seq(Connection(Upward))
         /\ inbox' \in [Replica -> Seq(NewsNote)]
  <1>1. Note("serviceFailed", c) \in NewsNote /\ Note("serviceFailed", c) \in Upward
    BY NoteTypes, NewsBacked DEF News
  <1>2. CASE n = Primary
    BY <1>1, <1>2, InformTypes DEF do_friend_service_failed_event, SocketsBacked
  <1>3. CASE n # Primary
    BY <1>1, <1>3, SendTypes DEF do_friend_service_failed_event, SocketsBacked
  <1> QED
    BY <1>2, <1>3

-----------------------------------------------------------------------------
(* Queues.                                                                   *)

LEMMA PushTypes ==
  ASSUME NEW S, NEW q \in [Node -> Seq(S)], NEW n \in Node, NEW e \in S
  PROVE  /\ Push(q, n, e) \in [Node -> Seq(S)]
         /\ \A k \in DOMAIN Push(q, n, e)[n] :
              \/ k \in DOMAIN q[n] /\ Push(q, n, e)[n][k] = q[n][k]
              \/ Push(q, n, e)[n][k] = e
         /\ \A o \in Node : o # n => Push(q, n, e)[o] = q[o]
  BY DEF Push

LEMMA PopTypes ==
  ASSUME NEW S, NEW q \in [Node -> Seq(S)], NEW n \in Node, q[n] # <<>>
  PROVE  /\ Head(q[n]) \in S
         /\ 1 \in DOMAIN q[n] /\ Head(q[n]) = q[n][1]
         /\ [q EXCEPT ![n] = Tail(@)] \in [Node -> Seq(S)]
         /\ \A k \in DOMAIN Tail(q[n]) :
              k + 1 \in DOMAIN q[n] /\ Tail(q[n])[k] = q[n][k + 1]
  OBVIOUS

(* What an event pushed to a queue must be for the queues to stay as they    *)
(* are.                                                                      *)
LEMMA DispatcherQueueKeeps ==
  ASSUME IInv, NEW n \in Node, NEW e \in Backed,
         n \in Replica => e.type \in News,
         dqueue' = Push(dqueue, n, e)
  PROVE  /\ dqueue' \in [Node -> Seq(Backed)]
         /\ \A r \in Replica : \A k \in DOMAIN dqueue'[r] : dqueue'[r][k].type \in News
  <1>1. dqueue \in [Node -> Seq(Backed)]
    BY DEF IInv, QueuesBacked
  <1>2. /\ dqueue' \in [Node -> Seq(Backed)]
        /\ \A k \in DOMAIN dqueue'[n] :
             \/ k \in DOMAIN dqueue[n] /\ dqueue'[n][k] = dqueue[n][k]
             \/ dqueue'[n][k] = e
        /\ \A o \in Node : o # n => dqueue'[o] = dqueue[o]
    BY <1>1, PushTypes
  <1> QED
    BY <1>2, NodesApart DEF IInv, ReplicasAskForThemselves

LEMMA ExecutorQueueKeeps ==
  ASSUME IInv, NEW n \in Node, NEW e \in Backed,
         n \in Replica /\ e.type \in Request => e.context = n,
         equeue' = Push(equeue, n, e)
  PROVE  /\ equeue' \in [Node -> Seq(Backed)]
         /\ \A r \in Replica : \A k \in DOMAIN equeue'[r] :
              equeue'[r][k].type \in Request => equeue'[r][k].context = r
  <1>1. equeue \in [Node -> Seq(Backed)]
    BY DEF IInv, QueuesBacked
  <1>2. /\ equeue' \in [Node -> Seq(Backed)]
        /\ \A k \in DOMAIN equeue'[n] :
             \/ k \in DOMAIN equeue[n] /\ equeue'[n][k] = equeue[n][k]
             \/ equeue'[n][k] = e
        /\ \A o \in Node : o # n => equeue'[o] = equeue[o]
    BY <1>1, PushTypes
  <1>3. \A r \in Replica : \A k \in DOMAIN equeue[r] :
          equeue[r][k].type \in Request => equeue[r][k].context = r
    BY DEF IInv, ReplicasAskForThemselves
  <1>4. ASSUME NEW r \in Replica, NEW k \in DOMAIN equeue'[r], equeue'[r][k].type \in Request
        PROVE  equeue'[r][k].context = r
    <2>1. CASE r = n
      BY <1>2, <1>3, <1>4, <2>1
    <2>2. CASE r # n
      BY <1>2, <1>3, <1>4, <2>2, NodesApart
    <2> QED
      BY <2>1, <2>2
  <1> QED
    BY <1>2, <1>4

LEMMA DispatcherQueuePops ==
  ASSUME IInv, NEW n \in Node, dqueue[n] # <<>>,
         dqueue' = [dqueue EXCEPT ![n] = Tail(@)]
  PROVE  /\ Head(dqueue[n]) \in Backed
         /\ n \in Replica => Head(dqueue[n]).type \in News
         /\ dqueue' \in [Node -> Seq(Backed)]
         /\ \A r \in Replica : \A k \in DOMAIN dqueue'[r] : dqueue'[r][k].type \in News
  <1>1. dqueue \in [Node -> Seq(Backed)]
    BY DEF IInv, QueuesBacked
  <1>2. /\ Head(dqueue[n]) \in Backed
        /\ 1 \in DOMAIN dqueue[n] /\ Head(dqueue[n]) = dqueue[n][1]
        /\ dqueue' \in [Node -> Seq(Backed)]
        /\ \A k \in DOMAIN Tail(dqueue[n]) :
             k + 1 \in DOMAIN dqueue[n] /\ Tail(dqueue[n])[k] = dqueue[n][k + 1]
    BY <1>1, PopTypes
  <1>3. \A o \in Node : dqueue'[o] = IF o = n THEN Tail(dqueue[n]) ELSE dqueue[o]
    BY <1>1
  <1> QED
    BY <1>2, <1>3, NodesApart DEF IInv, ReplicasAskForThemselves

LEMMA ExecutorQueuePops ==
  ASSUME IInv, NEW n \in Node, equeue[n] # <<>>,
         equeue' = [equeue EXCEPT ![n] = Tail(@)]
  PROVE  /\ Head(equeue[n]) \in Backed
         /\ n \in Replica /\ Head(equeue[n]).type \in Request
              => Head(equeue[n]).context = n
         /\ equeue' \in [Node -> Seq(Backed)]
         /\ \A r \in Replica : \A k \in DOMAIN equeue'[r] :
              equeue'[r][k].type \in Request => equeue'[r][k].context = r
  <1>1. equeue \in [Node -> Seq(Backed)]
    BY DEF IInv, QueuesBacked
  <1>2. /\ Head(equeue[n]) \in Backed
        /\ 1 \in DOMAIN equeue[n] /\ Head(equeue[n]) = equeue[n][1]
        /\ equeue' \in [Node -> Seq(Backed)]
        /\ \A k \in DOMAIN Tail(equeue[n]) :
             k + 1 \in DOMAIN equeue[n] /\ Tail(equeue[n])[k] = equeue[n][k + 1]
    BY <1>1, PopTypes
  <1>3. \A o \in Node : equeue'[o] = IF o = n THEN Tail(equeue[n]) ELSE equeue[o]
    BY <1>1
  <1> QED
    BY <1>2, <1>3, NodesApart DEF IInv, ReplicasAskForThemselves

-----------------------------------------------------------------------------
(* The invariant starts and stays.                                           *)

LEMMA IInvInit == Init => IInv
  BY NodesApart DEF Init, IInv, ProcessesTyped, RequestsBacked, QueuesBacked,
     SocketsBacked, ReplicasAskForThemselves, Phase, Link

LEMMA SameWanted ==
  ASSUME wanted' = wanted
  PROVE  Backed' = Backed /\ Upward' = Upward
  BY DEF Backed, Upward, Traced

(* The crash that calls for a request is where requests come from.           *)
LEMMA CrashStep ==
  ASSUME IInv, NEW n \in Node, NEW a \in Request \cup {"local"}, ServiceCrash(n, a)
  PROVE  IInv'
  <1>1. /\ wanted \subseteq wanted' /\ wanted' \subseteq RequestNote(Node)
        /\ a \in Request => Note(a, n) \in wanted' /\ equeue' = Push(equeue, n, Note(a, n))
        /\ a \notin Request => equeue' = equeue
        /\ UNCHANGED <<phase, dqueue, link, asked, heard, crashes, starts>>
        /\ do_friend_service_failed_event(n, n)
        /\ failed' = [failed EXCEPT ![n] = @ + 1]
    BY DEF ServiceCrash, IInv, RequestsBacked, RequestNote, Note
  <1>2. Backed \subseteq Backed' /\ Upward \subseteq Upward'
    BY <1>1, BackedGrows
  <1>3. Seq(Backed) \subseteq Seq(Backed')
    BY <1>2, SeqGrows
  <1>4. QueuesBacked'
    <2>1. dqueue' \in [Node -> Seq(Backed')] /\ equeue \in [Node -> Seq(Backed')]
      BY <1>1, <1>3 DEF IInv, QueuesBacked
    <2>2. CASE a \in Request
      <3>1. Note(a, n) \in Backed'
        BY <1>1, <2>2, NodesApart, ReadAsType DEF Backed, Traced, Event, Note
      <3> QED
        BY <1>1, <2>1, <2>2, <3>1, PushTypes DEF QueuesBacked
    <2> QED
      BY <1>1, <2>1, <2>2 DEF QueuesBacked
  <1>5. ReplicasAskForThemselves'
    <2>1. equeue \in [Node -> Seq(Backed)]
      BY DEF IInv, QueuesBacked
    <2>2. CASE a \in Request
      <3>1. Note(a, n) \in Event /\ Note(a, n).context = n
        BY <2>2, NodesApart DEF Event, Note
      <3>2. equeue \in [Node -> Seq(Event)]
        BY <2>1, NewsBacked, SeqGrows
      <3>3. /\ \A k \in DOMAIN equeue'[n] :
                 \/ k \in DOMAIN equeue[n] /\ equeue'[n][k] = equeue[n][k]
                 \/ equeue'[n][k] = Note(a, n)
            /\ \A o \in Node : o # n => equeue'[o] = equeue[o]
        BY <1>1, <2>2, <3>1, <3>2, PushTypes
      <3> QED
        BY <1>1, <3>1, <3>3, NodesApart DEF IInv, ReplicasAskForThemselves
    <2> QED
      BY <1>1, <2>2 DEF IInv, ReplicasAskForThemselves
  <1>6. SocketsBacked'
    BY <1>1, FailureToldTypes, SocketsGrow, NodesApart DEF IInv, SocketsBacked
  <1>7. ProcessesTyped' /\ RequestsBacked'
    BY <1>1, <1>2 DEF IInv, ProcessesTyped, RequestsBacked
  <1> QED
    BY <1>4, <1>5, <1>6, <1>7 DEF IInv

LEMMA NewCrashStep ==
  ASSUME IInv, NEW c \in Node, NewCrash(c)
  PROVE  IInv'
  <1> USE DEF NewCrash
  <1>1. wanted' = wanted /\ Backed' = Backed /\ Upward' = Upward
    BY SameWanted DEF history
  <1>2. Note("processCrash", c) \in Backed /\ Note("processCrash", c).type \in News
    BY NoteTypes, NewsBacked, NodesApart DEF News
  <1>3. QueuesBacked' /\ ReplicasAskForThemselves'
    BY <1>1, <1>2, DispatcherQueueKeeps, NodesApart
       DEF IInv, QueuesBacked, ReplicasAskForThemselves
  <1>4. ProcessesTyped' /\ RequestsBacked' /\ SocketsBacked'
    BY <1>1 DEF IInv, ProcessesTyped, RequestsBacked, SocketsBacked, sockets
  <1> QED
    BY <1>3, <1>4 DEF IInv

LEMMA DispatcherStepKeeps ==
  ASSUME IInv, NEW n \in Node, DispatcherStep(n)
  PROVE  IInv'
  <1> DEFINE e == Head(dqueue[n])
  <1>1. /\ dqueue[n] # <<>> /\ dqueue' = [dqueue EXCEPT ![n] = Tail(@)]
        /\ UNCHANGED <<phase, link, asked, heard, history>>
        /\ \/ do_friend_process_crash_event(n, e)
           \/ InformServiceFailed(n, e)
           \/ RemoteRequest(n, e)
    BY DEF DispatcherStep
  <1>2. wanted' = wanted /\ Backed' = Backed /\ Upward' = Upward
    BY <1>1, SameWanted DEF history
  <1>3. /\ e \in Backed
        /\ n \in Replica => e.type \in News
        /\ dqueue' \in [Node -> Seq(Backed)]
        /\ \A r \in Replica : \A k \in DOMAIN dqueue'[r] : dqueue'[r][k].type \in News
    BY <1>1, DispatcherQueuePops
  <1>4. e.type \in Request \cup News /\ e.context \in Name /\ e = Note(e.type, e.context)
    BY <1>3, NewsBacked DEF Event, Note
  <1> HIDE DEF e
  <1>5. n \in Replica /\ e.type \in Request => e.context = n
    BY <1>3 DEF Request, News
  <1>6. equeue' = Push(equeue, n, e) \/ equeue' = equeue
    BY <1>1 DEF do_friend_process_crash_event, InformServiceFailed, RemoteRequest
  <1>7. /\ equeue' \in [Node -> Seq(Backed)]
        /\ \A r \in Replica : \A k \in DOMAIN equeue'[r] :
             equeue'[r][k].type \in Request => equeue'[r][k].context = r
    <2>1. CASE equeue' = Push(equeue, n, e)
      BY <2>1, <1>3, <1>5, ExecutorQueueKeeps
    <2>2. CASE equeue' = equeue
      BY <2>2 DEF IInv, QueuesBacked, ReplicasAskForThemselves
    <2> QED
      BY <1>6, <2>1, <2>2
  <1>8. SocketsBacked'
    <2>1. CASE do_friend_process_crash_event(n, e)
      <3>1. e \in NewsNote
        BY <2>1, <1>3, NewsBacked DEF do_friend_process_crash_event, NewsNote, News, Event
      <3> QED
        BY <2>1, <3>1, <1>2, InformTypes
           DEF do_friend_process_crash_event, IInv, SocketsBacked
    <2>2. CASE InformServiceFailed(n, e)
      BY <2>2, <1>2, <1>4, FailureToldTypes DEF InformServiceFailed, IInv, SocketsBacked
    <2>3. CASE RemoteRequest(n, e)
      BY <2>3, <1>2 DEF RemoteRequest, IInv, SocketsBacked, sockets
    <2> QED
      BY <1>1, <2>1, <2>2, <2>3
  <1>9. ProcessesTyped' /\ RequestsBacked'
    BY <1>1, <1>2 DEF IInv, ProcessesTyped, RequestsBacked, history
  <1> QED
    BY <1>2, <1>3, <1>7, <1>8, <1>9 DEF IInv, QueuesBacked, ReplicasAskForThemselves

(* The executor of the primary takes what it is asked for, that of a replica *)
(* passes its own requests on.                                               *)
LEMMA ExecutorStepKeeps ==
  ASSUME IInv, NEW n \in Node, ExecutorStep(n)
  PROVE  IInv'
  <1> DEFINE e == Head(equeue[n])
  <1>1. PICK types : ExecutorTakes(n, types)
    BY DEF ExecutorStep, FriendCrash, do_process_context_restart_event, SystemRequest
  <1>2. /\ equeue[n] # <<>> /\ equeue' = [equeue EXCEPT ![n] = Tail(@)]
        /\ UNCHANGED <<dqueue, link, inbox, history>>
    BY <1>1 DEF ExecutorTakes
  <1>3. wanted' = wanted /\ Backed' = Backed /\ Upward' = Upward
    BY <1>2, SameWanted DEF history
  <1>4. /\ e \in Backed
        /\ n \in Replica /\ e.type \in Request => e.context = n
        /\ equeue' \in [Node -> Seq(Backed)]
        /\ \A r \in Replica : \A k \in DOMAIN equeue'[r] :
             equeue'[r][k].type \in Request => equeue'[r][k].context = r
    BY <1>2, ExecutorQueuePops
  <1>5. e \in Event /\ e = Note(e.type, e.context)
    BY <1>4, NewsBacked DEF Event, Note
  <1> HIDE DEF e
  <1>6. /\ asked' = asked \/ (asked' = asked \cup {e} /\ e.type \in Request)
        /\ \/ UNCHANGED <<backlog, clients>>
           \/ n \in Replica /\ e.type \in Request /\ manager_send(n, Note(e.type, n))
        /\ phase' \in [Node -> Phase] /\ heard' \in [Node -> Nat]
    <2>1. phase \in [Node -> Phase] /\ heard \in [Node -> Nat]
      BY DEF IInv, ProcessesTyped
    <2>2. CASE FriendCrash(n)
      BY <2>1, <2>2 DEF FriendCrash
    <2>3. CASE \E ok \in BOOLEAN : do_process_context_restart_event(n, ok)
      <3>1. PICK ok \in BOOLEAN : do_process_context_restart_event(n, ok)
        BY <2>3
      <3>2. e.type = "contextRestart" /\ heard' = heard
        BY <3>1 DEF do_process_context_restart_event, ExecutorTakes, e
      <3>3. CASE /\ n = Primary
                 /\ asked' = IF ok THEN asked \cup {Head(equeue[n])} ELSE asked
                 /\ UNCHANGED <<phase, backlog, clients>>
        BY <2>1, <3>2, <3>3 DEF Request, e
      <3>4. CASE /\ n \in Replica
                 /\ manager_send(n, Note("contextRestart", n))
                 /\ phase' = IF SendOk(n) THEN [phase EXCEPT ![n] = "quitting"] ELSE phase
                 /\ UNCHANGED asked
        BY <2>1, <3>2, <3>4 DEF Request, Phase
      <3> QED
        BY <3>1, <3>3, <3>4 DEF do_process_context_restart_event
    <2>4. CASE SystemRequest(n)
      BY <2>1, <2>4 DEF SystemRequest, ExecutorTakes, Request, Phase, e
    <2> QED
      BY <2>2, <2>3, <2>4 DEF ExecutorStep
  <1>7. SocketsBacked'
    <2>1. n \in Replica /\ e.type \in Request => Note(e.type, n) \in Upward
      BY <1>4, <1>5, NewsBacked
    <2> QED
      BY <1>2, <1>3, <1>6, <2>1, SendTypes DEF IInv, SocketsBacked
  <1>8. RequestsBacked'
    BY <1>3, <1>4, <1>5, <1>6 DEF IInv, RequestsBacked, RequestNote, Event
  <1>9. ProcessesTyped' /\ QueuesBacked' /\ ReplicasAskForThemselves'
    BY <1>2, <1>3, <1>4, <1>6
       DEF IInv, ProcessesTyped, QueuesBacked, ReplicasAskForThemselves, history
  <1> QED
    BY <1>7, <1>8, <1>9 DEF IInv

LEMMA AcceptStep ==
  ASSUME IInv, server_source_callback
  PROVE  IInv'
  <1> USE DEF server_source_callback
  <1>1. wanted' = wanted /\ Backed' = Backed /\ Upward' = Upward
    BY SameWanted DEF history
  <1>2. SocketsBacked'
    BY <1>1 DEF IInv, SocketsBacked
  <1> QED
    BY <1>1, <1>2 DEF IInv, ProcessesTyped, RequestsBacked, QueuesBacked,
       ReplicasAskForThemselves, history

(* What becomes of a replica's message: a request stays backed although      *)
(* process_message relabels it.                                              *)
LEMMA ClientEventTypes ==
  ASSUME RequestsBacked, NEW m \in Upward
  PROVE  ClientEvent(m) \in Seq(Backed)
  <1>1. /\ m \in Message /\ m = Note(m.type, m.context)
        /\ m.type \in Request => Traced(m)
    BY DEF Upward, Message, Note
  <1>2. CASE m.type = "platformRestart"
    <2>1. PICK w \in wanted : m.context \in ReadAs[w.context] /\ w.type = "platformRestart"
      BY <1>1, <1>2 DEF Traced, Request
    <2>2. Note("contextRestart", m.context) \in Backed
      BY <1>1, <2>1 DEF Backed, Traced, Event, Message, Note, Request
    <2> QED
      BY <1>2, <2>2 DEF ClientEvent
  <1>3. CASE m.type \in PassedOn \ {"platformRestart"}
    <2>1. m \in Backed
      BY <1>1, <1>3 DEF Backed, Traced, Event, Message, PassedOn, Request, News
    <2> QED
      BY <1>3, <2>1 DEF ClientEvent
  <1>4. CASE m.type # "platformRestart" /\ m.type \notin PassedOn \ {"platformRestart"}
    BY <1>4 DEF ClientEvent
  <1> QED
    BY <1>2, <1>3, <1>4

LEMMA ReadStep ==
  ASSUME IInv, NEW i \in DOMAIN clients, ReadsClient(i)
  PROVE  /\ clients' \in Seq(Connection(Upward))
         /\ dqueue' \in [Node -> Seq(Backed)]
         /\ \A r \in Replica : dqueue'[r] = dqueue[r]
  <1> DEFINE c == clients[i]
  <1>0. PICK m \in Received(Head(c.inbox)) :
        /\ clients' = [clients EXCEPT ![i].inbox = Tail(@), ![i].context = NamedBy(m, @)]
        /\ dqueue' = [dqueue EXCEPT ![Primary] = @ \o ClientEvent(m)]
    BY DEF ReadsClient
  <1> DEFINE named == NamedBy(m, c.context)
  <1>1. /\ c.inbox # <<>>
        /\ clients' = [clients EXCEPT ![i].inbox = Tail(@), ![i].context = named]
        /\ dqueue' = [dqueue EXCEPT ![Primary] = @ \o ClientEvent(m)]
    BY <1>0 DEF ReadsClient
  <1>2. /\ clients \in Seq(Connection(Upward)) /\ c \in Connection(Upward)
        /\ c.inbox \in Seq(Upward) /\ c.context \in Name \cup {NoContext}
    <2>1. clients \in Seq(Connection(Upward)) /\ c \in Connection(Upward)
      BY DEF IInv, SocketsBacked
    <2> QED
      BY <2>1 DEF Connection
  <1>3. m \in Upward /\ Tail(c.inbox) \in Seq(Upward)
    <2>1. Head(c.inbox) \in Upward /\ Tail(c.inbox) \in Seq(Upward)
      BY <1>1, <1>2
    <2> QED
      BY <1>0, <2>1, ReceivedBacked DEF IInv
  <1>4. named \in Name \cup {NoContext}
    BY <1>2, <1>3, NewsBacked DEF Message, NamedBy
  <1>5. ClientEvent(m) \in Seq(Backed)
    BY <1>3, ClientEventTypes DEF IInv
  <1> HIDE DEF named
  <1>6. [c EXCEPT !.inbox = Tail(@), !.context = named] \in Connection(Upward)
    BY <1>2, <1>3, <1>4 DEF Connection
  <1>7. clients' = [clients EXCEPT ![i] = [c EXCEPT !.inbox = Tail(@), !.context = named]]
    BY <1>1
  <1>8. clients' \in Seq(Connection(Upward))
    BY <1>2, <1>6, <1>7
  <1>9. /\ dqueue' \in [Node -> Seq(Backed)]
        /\ \A r \in Replica : dqueue'[r] = dqueue[r]
    BY <1>1, <1>5, NodesApart DEF IInv, QueuesBacked
  <1> QED
    BY <1>8, <1>9

LEMMA ClientStep ==
  ASSUME IInv, NEW i \in DOMAIN clients, client_source_callback(i)
  PROVE  IInv'
  <1>1. /\ UNCHANGED <<phase, equeue, backlog, link, inbox, asked, heard, history>>
        /\ \/ clients' = WithoutClient(i) /\ UNCHANGED dqueue
           \/ ReadsClient(i)
    BY DEF client_source_callback
  <1>2. wanted' = wanted /\ Backed' = Backed /\ Upward' = Upward
    BY <1>1, SameWanted DEF history
  <1>3. /\ clients' \in Seq(Connection(Upward))
        /\ dqueue' \in [Node -> Seq(Backed)]
        /\ \A r \in Replica : dqueue'[r] = dqueue[r]
    <2>1. CASE clients' = WithoutClient(i) /\ UNCHANGED dqueue
      <3>1. clients \in Seq(Connection(Upward)) /\ i \in 1 .. Len(clients)
        BY DEF IInv, SocketsBacked
      <3>2. RemoveAt(clients, i) \in Seq(Connection(Upward))
        BY <3>1, RemoveAtProperties
      <3> QED
        BY <2>1, <3>2 DEF IInv, QueuesBacked, WithoutClient
    <2>2. CASE ReadsClient(i)
      BY <2>2, ReadStep
    <2> QED
      BY <1>1, <2>1, <2>2
  <1> QED
    BY <1>1, <1>2, <1>3 DEF IInv, ProcessesTyped, RequestsBacked, QueuesBacked,
       SocketsBacked, ReplicasAskForThemselves, history

LEMMA ManagerStep ==
  ASSUME IInv, NEW r \in Replica, manager_source_callback(r)
  PROVE  IInv'
  <1>1. UNCHANGED <<phase, equeue, backlog, clients, asked, heard, history>>
    BY DEF manager_source_callback
  <1>2. wanted' = wanted /\ Backed' = Backed /\ Upward' = Upward
    BY <1>1, SameWanted DEF history
  <1>3. CASE /\ inbox[r] # <<>>
             /\ inbox' = [inbox EXCEPT ![r] = Tail(@)]
             /\ \E e \in Received(Head(inbox[r])) : dqueue' = Push(dqueue, r, e)
             /\ UNCHANGED link
    <2>1. inbox' \in [Replica -> Seq(NewsNote)] /\ Head(inbox[r]) \in NewsNote
      BY <1>3 DEF IInv, SocketsBacked
    <2>2. PICK e \in Received(Head(inbox[r])) : dqueue' = Push(dqueue, r, e)
      BY <1>3
    <2>3. e \in Backed /\ e.type \in News
      BY <2>1, ReceivedBacked, NewsBacked DEF NewsNote, IInv
    <2>4. /\ dqueue' \in [Node -> Seq(Backed)]
          /\ \A o \in Replica : \A k \in DOMAIN dqueue'[o] : dqueue'[o][k].type \in News
      BY <2>2, <2>3, DispatcherQueueKeeps, NodesApart
    <2> QED
      BY <1>1, <1>2, <1>3, <2>1, <2>4 DEF IInv, ProcessesTyped, RequestsBacked,
         QueuesBacked, SocketsBacked, ReplicasAskForThemselves, history
  <1>4. CASE link' = [link EXCEPT ![r] = "broken"] /\ UNCHANGED <<inbox, dqueue>>
    BY <1>1, <1>2, <1>4 DEF IInv, ProcessesTyped, RequestsBacked,
       QueuesBacked, SocketsBacked, ReplicasAskForThemselves, history, Link
  <1> QED
    BY <1>3, <1>4 DEF manager_source_callback

LEMMA ShutTypes ==
  ASSUME NEW S, NEW conns \in Seq(Connection(S)), NEW r
  PROVE  Shut(conns, r) \in Seq(Connection(S))
  <1> DEFINE c(i) == IF conns[i].replica = r THEN [conns[i] EXCEPT !.open = FALSE]
                     ELSE conns[i]
  <1>1. ASSUME NEW i \in DOMAIN conns
        PROVE  c(i) \in Connection(S)
    <2>1. conns[i] \in Connection(S)
      OBVIOUS
    <2> QED
      BY <2>1 DEF Connection
  <1> HIDE DEF c
  <1>2. [i \in DOMAIN conns |-> c(i)] \in Seq(Connection(S))
    <2>1. DOMAIN conns = 1 .. Len(conns) /\ Len(conns) \in Nat
      OBVIOUS
    <2> QED
      BY <1>1, <2>1
  <1>3. Shut(conns, r) = [i \in DOMAIN conns |-> c(i)]
    BY DEF Shut, c
  <1> QED
    BY <1>2, <1>3

LEMMA ExitStep ==
  ASSUME IInv, NEW n \in Node, Exits(n)
  PROVE  IInv'
  <1> USE DEF Exits
  <1>1. wanted' = wanted /\ Backed' = Backed /\ Upward' = Upward
    BY SameWanted DEF history
  <1>2. ProcessesTyped' /\ RequestsBacked'
    <2>1. link' \in [Replica -> Link]
      BY DEF IInv, ProcessesTyped, Link
    <2> QED
      BY <1>1, <2>1 DEF IInv, ProcessesTyped, RequestsBacked, history, Phase
  <1>3. QueuesBacked' /\ ReplicasAskForThemselves'
    BY <1>1, NodesApart DEF IInv, QueuesBacked, ReplicasAskForThemselves
  <1>4. SocketsBacked'
    <2>1. CASE n = Primary
      BY <1>1, <2>1 DEF IInv, SocketsBacked
    <2>2. CASE n # Primary
      <3>1. /\ backlog' = Shut(backlog, n) /\ clients' = Shut(clients, n)
            /\ inbox' = [inbox EXCEPT ![n] = <<>>]
        BY <2>2
      <3>2. /\ backlog' \in Seq(Connection(Upward))
            /\ clients' \in Seq(Connection(Upward))
        BY <3>1, ShutTypes DEF IInv, SocketsBacked
      <3>3. inbox' \in [Replica -> Seq(NewsNote)]
        <4> HIDE DEF Exits
        <4>1. inbox \in [Replica -> Seq(NewsNote)] /\ <<>> \in Seq(NewsNote)
          BY DEF IInv, SocketsBacked
        <4> QED
          BY <3>1, <4>1
      <3> QED
        BY <1>1, <3>2, <3>3 DEF SocketsBacked
    <2> QED
      BY <2>1, <2>2
  <1> QED
    BY <1>2, <1>3, <1>4 DEF IInv

LEMMA StartStep ==
  ASSUME IInv, NEW n \in Node, Starts(n)
  PROVE  IInv'
  <1> USE DEF Starts
  <1> DEFINE new == [replica |-> n, context |-> NoContext, open |-> TRUE,
                     inbox |-> <<Note("descriptor", n)>>]
  <1>1. wanted' = wanted /\ Backed' = Backed /\ Upward' = Upward
    BY SameWanted
  <1>2. ProcessesTyped' /\ RequestsBacked'
    <2>1. link' = link \/ link' = [link EXCEPT ![n] = "up"]
      OBVIOUS
    <2>2. link' \in [Replica -> Link]
      BY <2>1 DEF IInv, ProcessesTyped, Link
    <2>3. /\ starts' = [starts EXCEPT ![n] = @ + 1]
          /\ phase' = [phase EXCEPT ![n] = "running"]
          /\ UNCHANGED <<asked, wanted, failed, heard, crashes>>
      OBVIOUS
    <2> QED
      BY <1>1, <2>2, <2>3 DEF IInv, ProcessesTyped, RequestsBacked, Phase
  <1>3. QueuesBacked' /\ ReplicasAskForThemselves'
    BY <1>1 DEF IInv, QueuesBacked, ReplicasAskForThemselves
  <1>4. SocketsBacked'
    <2>1. CASE n = Primary
      BY <1>1, <2>1 DEF IInv, SocketsBacked
    <2>2. CASE n # Primary
      <3>1. <<Note("descriptor", n)>> \in Seq(Upward)
        BY NoteTypes, NodesApart
      <3>2. new \in Connection(Upward)
        BY <2>2, <3>1, NodesApart DEF Connection
      <3>3. backlog' = Append(backlog, new) /\ UNCHANGED <<clients, inbox>>
        BY <2>2
      <3> HIDE DEF new
      <3> QED
        BY <1>1, <3>2, <3>3 DEF IInv, SocketsBacked
    <2> QED
      BY <2>1, <2>2
  <1> QED
    BY <1>2, <1>3, <1>4 DEF IInv

LEMMA IInvStep == IInv /\ [Next]_vars => IInv'
  <1> SUFFICES ASSUME IInv, [Next]_vars PROVE IInv'
    OBVIOUS
  <1>1. CASE UNCHANGED vars
    BY <1>1, SameWanted DEF vars, IInv, ProcessesTyped, RequestsBacked,
       QueuesBacked, SocketsBacked, ReplicasAskForThemselves
  <1>2. CASE \E n \in Node, a \in Request \cup {"local"} : ServiceCrash(n, a)
    BY <1>2, CrashStep
  <1>3. CASE \E c \in Node : NewCrash(c)
    BY <1>3, NewCrashStep
  <1>4. CASE \E n \in Node : DispatcherStep(n)
    BY <1>4, DispatcherStepKeeps
  <1>5. CASE \E n \in Node : ExecutorStep(n)
    BY <1>5, ExecutorStepKeeps
  <1>6. CASE \E n \in Node : Exits(n)
    BY <1>6, ExitStep
  <1>7. CASE \E n \in Node : Starts(n)
    BY <1>7, StartStep
  <1>8. CASE server_source_callback
    BY <1>8, AcceptStep
  <1>9. CASE \E i \in DOMAIN clients : client_source_callback(i)
    BY <1>9, ClientStep
  <1>10. CASE \E r \in Replica : manager_source_callback(r)
    BY <1>10, ManagerStep
  <1> QED
    BY <1>1, <1>2, <1>3, <1>4, <1>5, <1>6, <1>7, <1>8, <1>9, <1>10 DEF Next

LEMMA IInvTypes == IInv => TypeOK
  <1> SUFFICES ASSUME IInv PROVE TypeOK
    OBVIOUS
  <1>1. dqueue \in [Node -> Seq(Event)] /\ equeue \in [Node -> Seq(Event)]
    BY NewsBacked, SeqGrows DEF IInv, QueuesBacked
  <1>2. Connection(Message) = Client
    BY DEF Connection, Client
  <1>3. backlog \in Seq(Client) /\ clients \in Seq(Client)
    BY <1>2, NewsBacked, ConnectionsGrow DEF IInv, SocketsBacked
  <1>4. inbox \in [Replica -> Seq(Message)]
    BY NewsBacked, SeqGrows DEF IInv, SocketsBacked
  <1> QED
    BY <1>1, <1>3, <1>4
       DEF IInv, ProcessesTyped, RequestsBacked, RequestNote, TypeOK

(* Queues and sockets hold what their readers can handle, for any number of  *)
(* replicas, whoever is killed and however the loops are interleaved: no     *)
(* descriptor ever becomes an event (process_message).                       *)
THEOREM TypeCorrect == Spec => []TypeOK
  <1> USE IInvInit, IInvStep, IInvTypes
  <1>1. IInv => TypeOK
    OBVIOUS
  <1> QED
    BY <1>1, PTL DEF Spec

(* Nothing is restarted or reset for a context none of whose services called *)
(* for it, for any number of replicas (do_process_context_restart_event,     *)
(* process_message, rmg_manager_send).                                       *)
THEOREM RequestsHaveCause == Spec => []RequestsTraced
  <1>1. IInv => RequestsTraced
    BY DEF IInv, RequestsBacked, RequestsTraced, Backed, RequestNote, Traced
  <1> QED
    BY <1>1, IInvInit, IInvStep, PTL DEF Spec

=============================================================================
