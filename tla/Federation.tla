----------------------------- MODULE Federation -----------------------------
(***************************************************************************)
(* The instances of one platform: a primary on the host and a replica in   *)
(* each container. A replica sends its primary the system level actions it *)
(* cannot take itself, and every failure is told to the other instances    *)
(* for their friend units. Each instance is the main loop of Recovery;     *)
(* its ladder is left out, so a handled crash may call for any action.     *)
(***************************************************************************)
EXTENDS Integers, Sequences, SequencesExt

CONSTANTS
  Primary,      \* host name of the primary
  Replica,      \* host names of the replicas
  NoContext,    \* a client whose descriptor has not been read
  Name,         \* host names and what they are read as
  ReadAs,       \* what each name may be read as after it was sent
  Failing,      \* instances whose services fail
  SocketBuffer, \* messages a socket takes unread
  MaxFailures,  \* bound: crashes handled by an instance
  MaxCrashes,   \* bound: process crashes reported
  MaxStarts,    \* bound: starts of an instance
  MaxQueue,     \* bound: an instance with that many events takes no more
  MaxHeard      \* bound: the news heard are counted up to this

Node == Replica \cup {Primary}

ASSUME NamesType == Primary \notin Replica /\ NoContext \notin Name /\ Node \subseteq Name
(* A name is sent without its end and read into a block of that very size,  *)
(* so that one which fills its heap block gets the bytes that follow.       *)
ASSUME ReadAsType ==
  /\ ReadAs \in [Name -> SUBSET Name]
  /\ \A m \in Name : m \in ReadAs[m] /\ \A k \in ReadAs[m] : ReadAs[k] \subseteq ReadAs[m]
ASSUME FailingType == Failing \subseteq Node
ASSUME FederationBounds ==
  /\ SocketBuffer \in Nat /\ MaxFailures \in Nat
  /\ MaxCrashes \in Nat /\ MaxStarts \in Nat /\ MaxHeard \in Nat
  /\ MaxQueue \in Nat

Request == {"contextRestart", "platformRestart", "factoryReset"}
News == {"processCrash", "serviceFailed"}
Message == [type : Request \cup News \cup {"descriptor"}, context : Name]
Event == [type : Request \cup News, context : Name]
(* A connection, as the primary holds it. "open": the replica's end is.     *)
Client == [replica : Replica, context : Name \cup {NoContext}, open : BOOLEAN,
           inbox : Seq(Message)]
Phase == {"running", "quitting", "down"}
Link == {"none", "up", "closed", "broken"}

VARIABLES
  phase,    \* the main loop of each instance, as in Recovery
  dqueue,   \* dispatcher->queue of each
  equeue,   \* executor->queue of each, service level actions left out
  backlog,  \* connections the primary has not accepted
  clients,  \* server->clients
  link,     \* manager of each replica: "closed" by the primary until it
            \* reads so, then "broken" for good
  inbox,    \* messages of the primary each replica has not read
  asked,    \* system level actions the primary has taken, and for whom
  wanted,   \* history: system level actions crashes called for, and whose
  failed,   \* history: crashes handled by each instance
  heard,    \* history: news each executor got of failures elsewhere
  crashes,  \* process crashes reported so far
  starts    \* starts of each instance

sockets == <<backlog, clients, inbox>>
history == <<wanted, failed, crashes, starts>>
vars == <<phase, dqueue, equeue, backlog, clients, link, inbox, asked, wanted,
          failed, heard, crashes, starts>>

(* Queues and sockets hold what their readers know how to handle.           *)
TypeOK ==
  /\ phase \in [Node -> Phase]
  /\ dqueue \in [Node -> Seq(Event)]
  /\ equeue \in [Node -> Seq(Event)]
  /\ backlog \in Seq(Client)
  /\ clients \in Seq(Client)
  /\ link \in [Replica -> Link]
  /\ inbox \in [Replica -> Seq(Message)]
  /\ asked \subseteq [type : Request, context : Name]
  /\ wanted \subseteq [type : Request, context : Node]
  /\ failed \in [Node -> Nat]
  /\ heard \in [Node -> Nat]
  /\ crashes \in Nat
  /\ starts \in [Node -> Nat]

Note(type, context) == [type |-> type, context |-> context]
Push(queue, n, e) == [queue EXCEPT ![n] = Append(@, e)]
Fits(queue, n) == Len(queue[n]) < MaxQueue

-----------------------------------------------------------------------------
(* Sockets. select() waits for room and then gives up; what is not written  *)
(* is gone and nobody is told, see Recovery.                                *)

Room(queue) == Len(queue) < SocketBuffer

(* g_list_foreach over server->clients, one rmg_client_send each.           *)
Inform(skip, m) ==
  LET told == {clients[i].replica : i \in
                 {j \in DOMAIN clients : clients[j].open /\ clients[j].context \notin skip}}
  IN inbox' = [r \in Replica |-> IF r \in told /\ Room(inbox[r])
                                 THEN Append(inbox[r], m) ELSE inbox[r]]

Written(conns, r, m) ==
  [i \in DOMAIN conns |->
     IF conns[i].replica = r /\ conns[i].open /\ Room(conns[i].inbox)
     THEN [conns[i] EXCEPT !.inbox = Append(@, m)] ELSE conns[i]]

(* rmg_message_write, then rmg_message_read.                                *)
Received(m) == {Note(m.type, c) : c \in ReadAs[m.context]}

SendOk(r) == link[r] = "up"
manager_send(r, m) ==
  IF SendOk(r)
  THEN backlog' = Written(backlog, r, m) /\ clients' = Written(clients, r, m)
  ELSE UNCHANGED <<backlog, clients>>

-----------------------------------------------------------------------------
(* The dispatcher of an instance.                                           *)

do_friend_service_failed_event(n, context) ==
  IF n = Primary
  THEN Inform({context}, Note("serviceFailed", context)) /\ UNCHANGED <<backlog, clients>>
  ELSE manager_send(n, Note("serviceFailed", context)) /\ UNCHANGED inbox

(* do_process_service_crash_event, from the action its ladder chose on.     *)
ServiceCrash(n, action) ==
  /\ n \in Failing
  /\ phase[n] # "down"
  /\ failed[n] < MaxFailures
  /\ failed' = [failed EXCEPT ![n] = @ + 1]
  /\ IF action \in Request
     THEN /\ equeue' = Push(equeue, n, Note(action, n))
          /\ wanted' = wanted \cup {Note(action, n)}
     ELSE UNCHANGED <<equeue, wanted>>
  /\ do_friend_service_failed_event(n, n)
  /\ UNCHANGED <<phase, dqueue, link, asked, heard, crashes, starts>>

(* The crash monitor of the primary hears of a crash in some context.       *)
NewCrash(context) ==
  /\ phase[Primary] # "down"
  /\ crashes < MaxCrashes
  /\ crashes' = crashes + 1
  /\ dqueue' = Push(dqueue, Primary, Note("processCrash", context))
  /\ UNCHANGED <<phase, equeue, sockets, link, asked, wanted, failed, heard, starts>>

do_friend_process_crash_event(n, e) ==
  /\ e.type = "processCrash"
  /\ equeue' = Push(equeue, n, e)
  /\ IF n = Primary THEN Inform({}, e) ELSE UNCHANGED inbox
  /\ UNCHANGED <<backlog, clients>>

InformServiceFailed(n, e) ==
  /\ e.type = "serviceFailed"
  /\ do_friend_service_failed_event(n, e.context)
  /\ equeue' = IF e.context # n THEN Push(equeue, n, e) ELSE equeue

RemoteRequest(n, e) ==
  /\ e.type \in Request
  /\ equeue' = Push(equeue, n, e)
  /\ UNCHANGED sockets

DispatcherStep(n) ==
  /\ phase[n] # "down"
  /\ dqueue[n] # <<>> /\ Fits(equeue, n)
  /\ dqueue' = [dqueue EXCEPT ![n] = Tail(@)]
  /\ LET e == Head(dqueue[n])
     IN \/ do_friend_process_crash_event(n, e)
        \/ InformServiceFailed(n, e)
        \/ RemoteRequest(n, e)
  /\ UNCHANGED <<phase, link, asked, heard, history>>

-----------------------------------------------------------------------------
(* The executor of an instance.                                             *)

ExecutorTakes(n, types) ==
  /\ phase[n] = "running"
  /\ equeue[n] # <<>>
  /\ Head(equeue[n]).type \in types
  /\ equeue' = [equeue EXCEPT ![n] = Tail(@)]
  /\ UNCHANGED <<dqueue, link, inbox, history>>

(* What the friend units make of it is left out.                            *)
FriendCrash(n) ==
  /\ ExecutorTakes(n, News)
  /\ heard' = [heard EXCEPT ![n] =
                 IF Head(equeue[n]).type = "serviceFailed" /\ @ < MaxHeard
                 THEN @ + 1 ELSE @]
  /\ UNCHANGED <<phase, backlog, clients, asked>>

(* A lookup of the container's service that fails ends the handling.        *)
do_process_context_restart_event(n, ok) ==
  /\ ExecutorTakes(n, {"contextRestart"})
  /\ \/ /\ n = Primary
        /\ asked' = IF ok THEN asked \cup {Head(equeue[n])} ELSE asked
        /\ UNCHANGED <<phase, backlog, clients>>
     \/ /\ n \in Replica
        /\ manager_send(n, Note("contextRestart", n))
        /\ phase' = IF SendOk(n) THEN [phase EXCEPT ![n] = "quitting"] ELSE phase
        /\ UNCHANGED asked
  /\ UNCHANGED heard

(* Platform restart and factory reset: taken or passed on, then meditation. *)
SystemRequest(n) ==
  /\ ExecutorTakes(n, {"platformRestart", "factoryReset"})
  /\ \/ /\ n = Primary
        /\ asked' = asked \cup {Head(equeue[n])}
        /\ UNCHANGED <<backlog, clients>>
     \/ /\ n \in Replica
        /\ manager_send(n, Note(Head(equeue[n]).type, n))
        /\ UNCHANGED asked
  /\ phase' = [phase EXCEPT ![n] = "quitting"]
  /\ UNCHANGED heard

ExecutorStep(n) ==
  \/ FriendCrash(n)
  \/ \E ok \in BOOLEAN : do_process_context_restart_event(n, ok)
  \/ SystemRequest(n)

-----------------------------------------------------------------------------
(* The primary's server and its clients.                                    *)

server_source_callback ==
  /\ phase[Primary] # "down"
  /\ backlog # <<>>
  /\ clients' = Append(clients, Head(backlog))
  /\ backlog' = Tail(backlog)
  /\ UNCHANGED <<phase, dqueue, equeue, link, inbox, asked, heard, history>>

PassedOn == Request \cup {"serviceFailed"}
EveryMessage(m) == <<m>>  \* mutant: the descriptor too becomes an event
EventOfClient(m) ==  \* mutant: the event names the primary's own context
  IF m.type \in PassedOn THEN <<Note(m.type, Primary)>> ELSE <<>>

(* process_message: a platform restart request becomes the event of a       *)
(* context restart.                                                         *)
ClientEvent(m) ==
  CASE m.type = "platformRestart" -> <<Note("contextRestart", m.context)>>
    [] m.type \in PassedOn \ {"platformRestart"} -> <<m>>
    [] OTHER -> <<>>

NamedByAny(m, name) == m.context  \* mutant: by any message, not its descriptor
NamedBy(m, name) == IF m.type = "descriptor" THEN m.context ELSE name

ReadsClient(i) ==
  /\ clients[i].inbox # <<>> /\ Fits(dqueue, Primary)
  /\ \E m \in Received(Head(clients[i].inbox)) :
       /\ clients' = [clients EXCEPT ![i].inbox = Tail(@), ![i].context = NamedBy(m, @)]
       /\ dqueue' = [dqueue EXCEPT ![Primary] = @ \o ClientEvent(m)]

DrainedOrShut(i) == ~clients[i].open  \* mutant: what is unread is dropped
Drained(i) == ~clients[i].open /\ clients[i].inbox = <<>>

WithoutName(i) ==  \* mutant: removed by name, not by address
  SelectSeq(clients, LAMBDA c : c.context # clients[i].context)
WithoutClient(i) == RemoveAt(clients, i)

client_source_callback(i) ==
  /\ phase[Primary] # "down"
  /\ i \in DOMAIN clients
  /\ \/ Drained(i) /\ clients' = WithoutClient(i) /\ UNCHANGED dqueue
     \/ ReadsClient(i)
  /\ UNCHANGED <<phase, equeue, backlog, link, inbox, asked, heard, history>>

-----------------------------------------------------------------------------
(* A replica's manager.                                                     *)

manager_source_callback(r) ==
  /\ phase[r] # "down"
  /\ \/ /\ link[r] \in {"up", "closed"}
        /\ inbox[r] # <<>> /\ Fits(dqueue, r)
        /\ inbox' = [inbox EXCEPT ![r] = Tail(@)]
        /\ \E e \in Received(Head(inbox[r])) : dqueue' = Push(dqueue, r, e)
        /\ UNCHANGED link
     \/ /\ link[r] = "closed"
        /\ inbox[r] = <<>>
        /\ link' = [link EXCEPT ![r] = "broken"]
        /\ UNCHANGED <<inbox, dqueue>>
  /\ UNCHANGED <<phase, equeue, backlog, clients, asked, heard, history>>

-----------------------------------------------------------------------------
(* The processes. A loop that quits finishes its iteration, in which other  *)
(* sources may still be dispatched; anyone may be killed at any time.       *)

Shut(conns, r) ==
  [i \in DOMAIN conns |->
     IF conns[i].replica = r THEN [conns[i] EXCEPT !.open = FALSE] ELSE conns[i]]

Exits(n) ==
  /\ phase[n] # "down"
  /\ phase' = [phase EXCEPT ![n] = "down"]
  /\ dqueue' = [dqueue EXCEPT ![n] = <<>>]
  /\ equeue' = [equeue EXCEPT ![n] = <<>>]
  /\ IF n = Primary
     THEN /\ backlog' = <<>> /\ clients' = <<>>
          /\ link' = [r \in Replica |-> IF link[r] = "up" THEN "closed" ELSE link[r]]
          /\ UNCHANGED inbox
     ELSE /\ backlog' = Shut(backlog, n) /\ clients' = Shut(clients, n)
          /\ link' = [link EXCEPT ![n] = "none"]
          /\ inbox' = [inbox EXCEPT ![n] = <<>>]
  /\ UNCHANGED <<asked, heard, history>>

(* A replica that cannot connect does not stay: rmg_dispatcher_new fails.   *)
Starts(n) ==
  /\ phase[n] = "down"
  /\ starts[n] < MaxStarts
  /\ starts' = [starts EXCEPT ![n] = @ + 1]
  /\ phase' = [phase EXCEPT ![n] = "running"]
  /\ IF n = Primary THEN UNCHANGED <<backlog, link>>
     ELSE /\ phase[Primary] # "down"
          /\ link' = [link EXCEPT ![n] = "up"]
          /\ backlog' = Append(backlog,
               [replica |-> n, context |-> NoContext, open |-> TRUE,
                inbox |-> <<Note("descriptor", n)>>])
  /\ UNCHANGED <<dqueue, equeue, clients, inbox, asked, wanted, failed, heard, crashes>>

-----------------------------------------------------------------------------

Init ==
  /\ phase = [n \in Node |-> "down"]
  /\ dqueue = [n \in Node |-> <<>>]
  /\ equeue = [n \in Node |-> <<>>]
  /\ backlog = <<>>
  /\ clients = <<>>
  /\ link = [r \in Replica |-> "none"]
  /\ inbox = [r \in Replica |-> <<>>]
  /\ asked = {}
  /\ wanted = {}
  /\ failed = [n \in Node |-> 0]
  /\ heard = [n \in Node |-> 0]
  /\ crashes = 0
  /\ starts = [n \in Node |-> 0]

Next ==
  \/ \E n \in Node, a \in Request \cup {"local"} : ServiceCrash(n, a)
  \/ \E c \in Node : NewCrash(c)
  \/ \E n \in Node : DispatcherStep(n) \/ ExecutorStep(n) \/ Exits(n) \/ Starts(n)
  \/ server_source_callback
  \/ \E i \in DOMAIN clients : client_source_callback(i)
  \/ \E r \in Replica : manager_source_callback(r)

Spec == Init /\ [][Next]_vars

(* Each loop goes on dispatching what is ready, and a loop that quits ends.  *)
(* Nothing obliges a service to fail or a process to start or to be killed.  *)
MaxClients == MaxStarts * Cardinality(Replica)
Fairness ==
  /\ \A n \in Node :
       /\ WF_vars(DispatcherStep(n))
       /\ WF_vars(ExecutorStep(n))
       /\ WF_vars(phase[n] = "quitting" /\ Exits(n))
  /\ WF_vars(server_source_callback)
  /\ \A i \in 1 .. MaxClients : WF_vars(client_source_callback(i))
  /\ \A r \in Replica : WF_vars(manager_source_callback(r))

FairSpec == Spec /\ Fairness

-----------------------------------------------------------------------------
(* Properties.                                                              *)

Connections == backlog \o clients

(* The primary serves each connected replica on one connection, under the    *)
(* replica's name, as read, once it says anything else, and only stale       *)
(* connections are ever dropped (client_source_callback, its destroy         *)
(* notification and rmg_manager_connect).                                    *)
ClientsMatchReplicas ==
  /\ \A r \in Replica :
       Cardinality({i \in DOMAIN Connections :
                      Connections[i].replica = r /\ Connections[i].open})
         = IF link[r] = "up" THEN 1 ELSE 0
  /\ \A i \in DOMAIN Connections :
       LET c == Connections[i]
       IN \/ c.context \in ReadAs[c.replica]
          \/ /\ c.context = NoContext
             /\ c.inbox # <<>> /\ Head(c.inbox) = Note("descriptor", c.replica)

(* No container is restarted, and the platform is neither restarted nor      *)
(* reset, for a context none of whose services called for a system level     *)
(* action: requests keep their context through two processes, four queues and *)
(* two sockets, but for the bytes a name can pick up when it is read.        *)
RequestsTraced ==
  \A a \in asked : \E w \in wanted :
    /\ a.context \in ReadAs[w.context]
    /\ \/ a.type = w.type
       \/ a.type = "contextRestart" /\ w.type = "platformRestart"

(* The primary takes for a replica the action the replica asked for ("it     *)
(* dispatch the actions to the primary instance to execute this actions",    *)
(* README.md:14).                                                            *)
RequestsKept == asked \subseteq wanted

(* A factory reset that reached the primary's socket is carried out although *)
(* the replica that asked for it shut itself down at once.                   *)
Sent(r) == \E i \in DOMAIN Connections :
             Note("factoryReset", r) \in Range(Connections[i].inbox)
RequestServed ==
  \A r \in Replica :
    (Sent(r) /\ phase[Primary] = "running")
      ~> \/ \E c \in ReadAs[r] : Note("factoryReset", c) \in asked
         \/ phase[Primary] # "running"

(* "friend" units take actions "in case a service is crashing in a different *)
(* context" (README.md:15): an executor hears of a crash elsewhere once.     *)
HeardOnce ==
  \A n \in Node :
    heard[n] <= FoldFunctionOnSet(+, 0, failed, Node \ {n})

=============================================================================
