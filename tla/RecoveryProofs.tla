--------------------------- MODULE RecoveryProofs ---------------------------
(* Theorems about one recoverymanager instance, for every ladder, relaxation *)
(* time, run mode and set of faults.                                         *)
EXTENDS Recovery, SequenceLemmas

-----------------------------------------------------------------------------
(* What the helpers return.                                                  *)

(* Marking timers changes nothing but the mark.                              *)
LEMMA MarkedProperties ==
  ASSUME NEW u \in Unit, timers \in [Unit -> Seq(Timer)]
  PROVE  /\ Marked(u) \in Seq(Timer)
         /\ Len(Marked(u)) = Len(timers[u])
         /\ DOMAIN Marked(u) = DOMAIN timers[u]
         /\ \A i \in DOMAIN timers[u] :
              /\ Marked(u)[i].rvector = timers[u][i].rvector
              /\ Marked(u)[i].left = timers[u][i].left
              /\ Marked(u)[i].crashed
  <1>1. /\ timers[u] \in Seq(Timer)
        /\ \A i \in DOMAIN timers[u] : timers[u][i] \in Timer
    OBVIOUS
  <1>2. \A i \in DOMAIN timers[u] : [timers[u][i] EXCEPT !.crashed = TRUE] \in Timer
    BY <1>1 DEF Timer
  <1>3. Marked(u) \in Seq(Timer) /\ DOMAIN Marked(u) = DOMAIN timers[u]
    BY <1>1, <1>2 DEF Marked
  <1>4. Len(Marked(u)) = Len(timers[u])
    BY <1>1, <1>3
  <1> QED
    BY <1>1, <1>3, <1>4 DEF Marked, Timer

LEMMA TimerTypes ==
  /\ \A u \in Unit, rv \in Nat : NewTimer(u, rv) \in Timer
  /\ \A t \in Timer : Sooner(t) \in Timer
  BY RelaxTimeType DEF NewTimer, Sooner, Timer

(* At most one row answers for an rvector.                                   *)
LEMMA SelectedUnique ==
  ASSUME NEW u \in Unit, NEW rv \in Nat,
         NEW i, Selected(u, rv, i), NEW j, Selected(u, rv, j)
  PROVE  i = j
  <1>1. /\ Ladder[u] \in Seq(Row)
        /\ i \in 1 .. Len(Ladder[u]) /\ j \in 1 .. Len(Ladder[u])
        /\ Ladder[u][i].tlmin \in Nat /\ Ladder[u][j].tlmin \in Nat
    <2>1. Ladder[u] \in Seq(Row) /\ i \in DOMAIN Ladder[u] /\ j \in DOMAIN Ladder[u]
      BY LadderType DEF Selected
    <2>2. Ladder[u][i] \in Row /\ Ladder[u][j] \in Row
      BY <2>1
    <2> QED
      BY <2>1, <2>2 DEF Row
  <1>2. ~(i < j) /\ ~(j < i)
    BY <1>1 DEF Selected
  <1> QED
    BY <1>1, <1>2

LEMMA SelectedRowIs ==
  ASSUME NEW u \in Unit, NEW rv \in Nat, NEW i, Selected(u, rv, i)
  PROVE  HasAction(u, rv) /\ SelectedRow(u, rv) = Ladder[u][i]
  <1>1. i \in DOMAIN Ladder[u]
    BY DEF Selected
  <1>2. (CHOOSE j \in DOMAIN Ladder[u] : Selected(u, rv, j)) = i
    BY <1>1, SelectedUnique
  <1> QED
    BY <1>1, <1>2 DEF HasAction, SelectedRow

LEMMA ActionTypes ==
  ASSUME NEW u \in Unit, NEW rv \in Nat
  PROVE  service_action(u, rv) \in ActionType \cup {"invalid"}
  <1>1. CASE HasAction(u, rv)
    <2>1. PICK i \in DOMAIN Ladder[u] : Selected(u, rv, i)
      BY <1>1 DEF HasAction
    <2>2. Ladder[u][i] \in Row
      BY <2>1, LadderType
    <2> QED
      BY <1>1, <2>1, <2>2, SelectedRowIs DEF service_action, Row
  <1>2. CASE ~HasAction(u, rv)
    BY <1>2 DEF service_action
  <1> QED
    BY <1>1, <1>2

-----------------------------------------------------------------------------
(* Type correctness.                                                         *)

LEMMA QueueTypes ==
  ASSUME NEW S, NEW q \in Seq(S), q # <<>>
  PROVE  Head(q) \in S /\ Tail(q) \in Seq(S)
  BY HeadTailProperties

LEMMA SendTypes ==
  ASSUME TypeOK, NEW type \in {"serviceFailed"} \cup SystemLevel, NEW s \in Service,
         manager_send(type, s) \/ UNCHANGED toPrimary
  PROVE  toPrimary' \in Seq(Message)
  <1>1. [type |-> type, service |-> s] \in Message
    BY DEF Message
  <1>2. toPrimary \in Seq(Message)
    BY DEF TypeOK
  <1>3. Append(toPrimary, [type |-> type, service |-> s]) \in Seq(Message)
    BY <1>1, <1>2, AppendProperties
  <1> QED
    BY <1>2, <1>3 DEF manager_send

LEMMA CrashTypes ==
  ASSUME TypeOK, NEW s \in Service, NEW f,
         do_process_service_crash_event(s, f)
  PROVE  /\ rvector' \in [Unit -> Nat]
         /\ timers' \in [Unit -> Seq(Timer)]
         /\ equeue' \in Seq(EEvent)
         /\ toPrimary' \in Seq(Message)
  <1> USE DEF TypeOK
  <1>1. CASE CrashUncounted(s, f)
    BY <1>1, MarkedProperties DEF CrashUncounted
  <1>2. CASE CrashWithoutAction(s, f)
    BY <1>2, MarkedProperties DEF CrashWithoutAction
  <1>3. CASE CrashHandled(s, f)
    <2> DEFINE rv == rvector[s] + 1
               action == service_action(s, rv)
    <2>1. s \in Unit /\ rv \in Nat
      BY <1>3 DEF CrashHandled
    <2>2. rvector' \in [Unit -> Nat]
      BY <1>3, <2>1 DEF CrashHandled
    <2>3. timers' \in [Unit -> Seq(Timer)]
      <3>1. Marked(s) \in Seq(Timer) /\ Append(Marked(s), NewTimer(s, rv)) \in Seq(Timer)
        BY <2>1, MarkedProperties, TimerTypes, AppendProperties
      <3>2. \/ timers' = [timers EXCEPT ![s] = Append(Marked(s), NewTimer(s, rv))]
            \/ timers' = [timers EXCEPT ![s] = Marked(s)]
        BY <1>3 DEF CrashHandled
      <3> QED
        BY <2>1, <3>1, <3>2
    <2>4. equeue' \in Seq(EEvent)
      <3>1. CASE action \in Pushed
        <4>1. ExecutorEvent(action, s) \in EEvent
          BY <2>1, <3>1 DEF ExecutorEvent, EEvent, Pushed
        <4>2. equeue' = Append(equeue, ExecutorEvent(action, s))
          BY <1>3, <3>1 DEF CrashHandled
        <4> QED
          BY <4>1, <4>2
      <3>2. CASE action \notin Pushed
        BY <1>3, <3>2 DEF CrashHandled
      <3> QED
        BY <3>1, <3>2
    <2>5. toPrimary' \in Seq(Message)
      <3>1. manager_send("serviceFailed", s) \/ UNCHANGED toPrimary
        BY <1>3 DEF CrashHandled
      <3> QED
        BY <3>1, SendTypes
    <2> QED
      BY <2>2, <2>3, <2>4, <2>5
  <1> QED
    BY <1>1, <1>2, <1>3 DEF do_process_service_crash_event

LEMMA ExecutorTypes ==
  ASSUME TypeOK, NEW f, ExecutorStep(f)
  PROVE  TypeOK'
  <1> USE DEF TypeOK, systemd
  <1> DEFINE e == Head(equeue)
  <1>1. /\ equeue # <<>>
        /\ UNCHANGED <<active_state, dqueue, rvector, timers, g_run_mode, link>>
        /\ equeue' = Tail(equeue)
    BY DEF ExecutorStep, ExecutorTakes, SystemRequest,
           do_process_service_restart_event, do_process_service_reset_data_event,
           do_process_service_disable_event, do_process_context_restart_event,
           do_process_platform_restart_event, do_process_factory_reset_event
  <1>2. e \in EEvent /\ equeue' \in Seq(EEvent)
    BY <1>1, QueueTypes
  <1>3. e.service \in Unit /\ e.service \in Service
    BY <1>2, UnitAssumption DEF EEvent
  <1>4. ASSUME NEW type \in SystemLevel,
               manager_send(type, e.service) \/ UNCHANGED toPrimary
        PROVE  toPrimary' \in Seq(Message)
    BY <1>3, <1>4, SendTypes
  <1>5. ASSUME \/ RestartUnit(e.service, f) \/ UNCHANGED systemd
        PROVE  /\ unit_state' \in [Service -> State]
               /\ signals' \in Seq([service : Service, state : State])
    <2>1. [service |-> e.service, state |-> "other"] \in [service : Service, state : State]
      BY <1>3 DEF State
    <2>2. Append(signals, [service |-> e.service, state |-> "other"])
            \in Seq([service : Service, state : State])
      BY <2>1
    <2> QED
      BY <1>5, <1>3, <2>2 DEF RestartUnit, ChangeState, State
  <1>6. CASE do_process_service_restart_event(f)
    BY <1>1, <1>2, <1>5, <1>6 DEF do_process_service_restart_event
  <1>7. CASE do_process_service_reset_data_event(f)
    BY <1>1, <1>2, <1>5, <1>7 DEF do_process_service_reset_data_event
  <1>8. CASE do_process_service_disable_event
    BY <1>1, <1>2, <1>8 DEF do_process_service_disable_event
  <1>9. CASE do_process_context_restart_event(f)
    <2>1. phase' \in Phase /\ asked' \in SUBSET Request
      BY <1>9 DEF do_process_context_restart_event, ContextRequest, Phase, Request
    <2>2. toPrimary' \in Seq(Message)
      <3>1. manager_send("contextRestart", e.service) \/ UNCHANGED toPrimary
        BY <1>9 DEF do_process_context_restart_event
      <3> QED
        BY <1>4, <3>1 DEF SystemLevel
    <2> QED
      BY <1>1, <1>2, <1>9, <2>1, <2>2 DEF do_process_context_restart_event
  <1>10. ASSUME NEW type \in {"platformRestart", "factoryReset"}, SystemRequest(type)
         PROVE  TypeOK'
    <2>1. phase' \in Phase /\ asked' \in SUBSET Request
      BY <1>10 DEF SystemRequest, Phase, Request
    <2>2. toPrimary' \in Seq(Message)
      <3>1. manager_send(type, e.service) \/ UNCHANGED toPrimary
        BY <1>10 DEF SystemRequest
      <3> QED
        BY <1>4, <3>1 DEF SystemLevel
    <2> QED
      BY <1>1, <1>2, <1>10, <2>1, <2>2 DEF SystemRequest
  <1> QED
    BY <1>6, <1>7, <1>8, <1>9, <1>10
    DEF ExecutorStep, do_process_platform_restart_event, do_process_factory_reset_event

LEMMA SystemdTypes ==
  ASSUME TypeOK, NEW s \in Service, NEW st \in State, ChangeState(s, st)
  PROVE  /\ unit_state' \in [Service -> State]
         /\ signals' \in Seq([service : Service, state : State])
  <1>1. Append(signals, [service |-> s, state |-> st])
          \in Seq([service : Service, state : State])
    BY DEF TypeOK
  <1> QED
    BY <1>1 DEF ChangeState, TypeOK

LEMMA ReportTypes ==
  ASSUME TypeOK, on_properties_changed
  PROVE  TypeOK'
  <1> DEFINE s == Head(signals).service
             new == Head(signals).state
             report == Report(active_state[s], new)
             events == [k \in DOMAIN report |-> [type |-> report[k], service |-> s]]
  <1>1. /\ s \in Service /\ new \in State
        /\ signals' \in Seq([service : Service, state : State])
    <2>1. signals \in Seq([service : Service, state : State]) /\ signals # <<>>
      BY DEF TypeOK, on_properties_changed
    <2>2. Head(signals) \in [service : Service, state : State]
      BY <2>1, QueueTypes
    <2> QED
      BY <2>1, <2>2, QueueTypes DEF on_properties_changed
  <1>2. report \in {<<>>, <<"crashed">>, <<"restarted">>}
    <2>1. CASE active_state[s] # "failed" /\ new = "failed"
      BY <2>1 DEF Report
    <2>2. CASE active_state[s] # "active" /\ new = "active"
      BY <2>2 DEF Report
    <2>3. CASE /\ ~(active_state[s] # "failed" /\ new = "failed")
               /\ ~(active_state[s] # "active" /\ new = "active")
      BY <2>3 DEF Report
    <2> QED
      BY <2>1, <2>2, <2>3
  <1>3. dqueue' = dqueue \o events
    BY DEF on_properties_changed
  <1> HIDE DEF report
  <1>4. events \in Seq(DEvent)
    <2>1. report \in Seq({"crashed", "restarted"})
      <3> DEFINE S == {"crashed", "restarted"}
      <3>1. <<>> \in Seq(S) /\ <<"crashed">> \in Seq(S) /\ <<"restarted">> \in Seq(S)
        OBVIOUS
      <3> QED
        BY <1>2, <3>1
    <2>2. \A k \in DOMAIN report : report[k] \in {"crashed", "restarted"}
      BY <2>1
    <2> HIDE DEF s
    <2>3. \A k \in DOMAIN report : [type |-> report[k], service |-> s] \in DEvent
      BY <1>1, <2>2 DEF DEvent
    <2>4. PICK n \in Nat : DOMAIN report = 1 .. n
      BY <2>1
    <2> QED
      BY <2>3, <2>4
  <1>5. dqueue' \in Seq(DEvent)
    BY <1>4, <1>3, ConcatProperties DEF TypeOK
  <1>6. active_state' \in [Service -> State]
    BY <1>1 DEF TypeOK, on_properties_changed
  <1> QED
    BY <1>1, <1>5, <1>6 DEF TypeOK, on_properties_changed, ipc

LEMMA DispatcherTypes ==
  ASSUME TypeOK, NEW f, DispatcherStep(f)
  PROVE  TypeOK'
  <1>1. /\ dqueue \in Seq(DEvent) /\ dqueue # <<>> /\ dqueue' = Tail(dqueue)
        /\ phase' \in Phase
    BY DEF DispatcherStep, TypeOK, Phase
  <1>2. Head(dqueue).service \in Service /\ dqueue' \in Seq(DEvent)
    <2>1. Head(dqueue) \in DEvent /\ Tail(dqueue) \in Seq(DEvent)
      BY <1>1, QueueTypes
    <2> QED
      BY <1>1, <2>1 DEF DEvent
  <1>3. /\ rvector' \in [Unit -> Nat]
        /\ timers' \in [Unit -> Seq(Timer)]
        /\ equeue' \in Seq(EEvent)
        /\ toPrimary' \in Seq(Message)
    <2>1. CASE do_process_service_crash_event(Head(dqueue).service, f)
      BY <2>1, <1>2, CrashTypes
    <2>2. CASE UNCHANGED <<rvector, equeue, timers, toPrimary>>
      BY <2>2 DEF TypeOK
    <2> QED
      BY <2>1, <2>2 DEF DispatcherStep
  <1> QED
    BY <1>1, <1>2, <1>3 DEF DispatcherStep, TypeOK, systemd

LEMMA RelaxTypes ==
  ASSUME TypeOK, NEW u \in Unit, NEW f, NEW i, relaxtimer_callback(u, i, f)
  PROVE  TypeOK'
  <1>1. timers[u] \in Seq(Timer) /\ i \in 1 .. Len(timers[u])
    BY DEF TypeOK, relaxtimer_callback, Due
  <1>2. RemoveAt(timers[u], i) \in Seq(Timer)
    BY <1>1, RemoveAtProperties
  <1>3. timers' \in [Unit -> Seq(Timer)]
    BY <1>2 DEF TypeOK, relaxtimer_callback
  <1>4. rvector' \in [Unit -> Nat]
    BY DEF TypeOK, relaxtimer_callback
  <1> QED
    BY <1>3, <1>4 DEF TypeOK, relaxtimer_callback, systemd, ipc

LEMMA TickTypes ==
  ASSUME TypeOK, Tick
  PROVE  TypeOK'
  <1>1. ASSUME NEW u \in Unit
        PROVE  [i \in DOMAIN timers[u] |-> Sooner(timers[u][i])] \in Seq(Timer)
    <2>1. timers[u] \in Seq(Timer)
      BY DEF TypeOK
    <2>2. \A i \in DOMAIN timers[u] : Sooner(timers[u][i]) \in Timer
      BY <2>1, TimerTypes
    <2> QED
      BY <2>1, <2>2
  <1>2. timers' \in [Unit -> Seq(Timer)]
    BY <1>1 DEF Tick
  <1> QED
    BY <1>2 DEF TypeOK, Tick, systemd, ipc

(* A start gives raised units a timer, and others none.                      *)
LEMMA StartedTimers ==
  ASSUME NEW f, Starts(f)
  PROVE  \E started \in SUBSET {u \in Unit : rvector[u] > 0 /\ RelaxTime[u] > 0} :
           /\ \/ started = {u \in Unit : rvector[u] > 0 /\ RelaxTime[u] > 0}
              \/ f \in {"relaxing", "timer"}
           /\ timers' = [u \in Unit |-> IF u \in started
                                        THEN <<NewTimer(u, rvector[u])>> ELSE <<>>]
  BY DEF Starts, monitor_start_relax_timers

LEMMA StartTypes ==
  ASSUME TypeOK, NEW f, Starts(f)
  PROVE  TypeOK'
  <1>1. PICK started :
          timers' = [u \in Unit |-> IF u \in started
                                   THEN <<NewTimer(u, rvector[u])>> ELSE <<>>]
    BY StartedTimers
  <1>2. ASSUME NEW u \in Unit
        PROVE  (IF u \in started THEN <<NewTimer(u, rvector[u])>> ELSE <<>>) \in Seq(Timer)
    BY TimerTypes DEF TypeOK
  <1>3. timers' \in [Unit -> Seq(Timer)]
    BY <1>1, <1>2
  <1> QED
    BY <1>3 DEF TypeOK, Starts, systemd, Phase

(* Whatever ends the process, its queues and timers are gone.                *)
LEMMA EndTypes ==
  ASSUME TypeOK, ProcessEnds, rvector' \in [Unit -> Nat]
  PROVE  TypeOK'
  BY DEF TypeOK, ProcessEnds, ipc, Phase

LEMMA KillCounts ==
  ASSUME TypeOK, NEW u \in Unit, KilledInHandler(u)
  PROVE  /\ \/ rvector' = [rvector EXCEPT ![u] = rvector[u] + 1]
            \/ /\ rvector' = [rvector EXCEPT ![u] = 0]
               /\ Zeroing(service_action(u, rvector[u] + 1),
                          action_reset_after(u, rvector[u] + 1))
         /\ rvector' \in [Unit -> Nat]
         /\ \A v \in Unit : v # u => rvector'[v] = rvector[v]
  <1>1. \/ rvector' = [rvector EXCEPT ![u] = rvector[u] + 1]
        \/ /\ rvector' = [rvector EXCEPT ![u] = 0]
           /\ Zeroing(service_action(u, rvector[u] + 1),
                      action_reset_after(u, rvector[u] + 1))
    BY Zenon DEF KilledInHandler
  <1>2. rvector \in [Unit -> Nat]
    BY DEF TypeOK
  <1>3. \E n \in Nat : rvector' = [rvector EXCEPT ![u] = n]
    <2>1. rvector[u] + 1 \in Nat /\ 0 \in Nat
      BY <1>2
    <2> QED
      BY <1>1, <2>1
  <1> QED
    BY <1>1, <1>2, <1>3

LEMMA TypeInit == Init => TypeOK
  BY DEF Init, TypeOK, State, Phase

LEMMA TypeStep ==
  ASSUME TypeOK, [Next]_vars
  PROVE  TypeOK'
  <1>1. ASSUME NEW s \in Service,
               ServiceFails(s) \/ ServiceStarts(s) \/ ServiceLeaves(s)
        PROVE  TypeOK'
    <2>1. PICK st \in State : ChangeState(s, st)
      BY <1>1 DEF ServiceFails, ServiceStarts, ServiceLeaves, State
    <2> QED
      BY <1>1, <2>1, SystemdTypes
      DEF TypeOK, ServiceFails, ServiceStarts, ServiceLeaves, ipc
  <1>2. CASE PrimaryReads
    BY <1>2, QueueTypes DEF TypeOK, PrimaryReads, systemd
  <1>3. CASE PrimaryLost
    BY <1>3 DEF TypeOK, PrimaryLost, systemd
  <1>4. CASE on_properties_changed
    BY <1>4, ReportTypes
  <1>5. CASE \E f \in Faults : DispatcherStep(f)
    BY <1>5, DispatcherTypes
  <1>6. CASE \E f \in Faults : ExecutorStep(f)
    BY <1>6, ExecutorTypes
  <1>7. CASE \E u \in Unit, f \in Faults : RelaxTimerExpires(u, f)
    BY <1>7, RelaxTypes DEF RelaxTimerExpires
  <1>8. CASE Tick
    BY <1>8, TickTypes
  <1>9. CASE Exits
    BY <1>9, EndTypes DEF TypeOK, Exits
  <1>10. CASE \E f \in Faults : Starts(f)
    BY <1>10, StartTypes
  <1>11. CASE Reboots
    BY <1>11 DEF TypeOK, Reboots, ipc, State
  <1>12. CASE \E u \in Unit : KilledInHandler(u)
    BY <1>12, KillCounts, EndTypes DEF KilledInHandler
  <1>13. CASE UNCHANGED vars
    BY <1>13 DEF TypeOK, vars
  <1> QED
    BY <1>1, <1>2, <1>3, <1>4, <1>5, <1>6, <1>7, <1>8, <1>9, <1>10, <1>11, <1>12, <1>13
    DEF Next

(* Every reachable state of an instance has its type: no queue ever carries   *)
(* an action the executor does not know, no timer runs below zero, no unit   *)
(* gets a negative rvector.                                                  *)
THEOREM TypeCorrect == Spec => []TypeOK
  BY TypeInit, TypeStep, PTL DEF Spec

-----------------------------------------------------------------------------
(* Where a ladder ends early.                                                *)

LEMMA RowTypes ==
  ASSUME NEW u \in Unit, NEW i \in DOMAIN Ladder[u]
  PROVE  Ladder[u][i] \in Row /\ Ladder[u][i].tlmin \in Nat /\ Ladder[u][i].tlmax \in Nat
  <1>1. Ladder[u] \in Seq(Row)
    BY LadderType
  <1>2. Ladder[u][i] \in Row
    BY <1>1
  <1> QED
    BY <1>2 DEF Row

(* A row answers for the first rvector of its interval, whichever row shares *)
(* that end point with it.                                                   *)
LEMMA FirstOfInterval ==
  ASSUME NEW u \in Unit, NEW i \in DOMAIN Ladder[u]
  PROVE  Selected(u, Ladder[u][i].tlmin, i)
  <1>1. Ladder[u][i].tlmin < Ladder[u][i].tlmax
    BY LadderOrdered
  <1>2. ASSUME NEW j \in DOMAIN Ladder[u], i < j
        PROVE  Ladder[u][i].tlmin < Ladder[u][j].tlmin
    BY <1>1, <1>2, RowTypes, LadderOrdered
  <1> QED
    BY <1>1, <1>2, RowTypes DEF Selected

(* A crash whose queries succeed after the increment keeps the bound: the    *)
(* one that reaches the interval of a reset row takes the rvector back to 0. *)
LEMMA CrashBounded ==
  ASSUME TypeOK, NEW u \in Unit, NEW i \in DOMAIN Ladder[u],
         ResetRow(u, i), rvector[u] < Ladder[u][i].tlmin,
         NEW f, f \notin AfterIncrement, do_process_service_crash_event(u, f)
  PROVE  rvector'[u] < Ladder[u][i].tlmin
  <1> USE DEF TypeOK
  <1>1. CASE CrashUncounted(u, f)
    BY <1>1 DEF CrashUncounted
  <1>2. CASE CrashHandled(u, f)
    <2> DEFINE rv == rvector[u] + 1
               action == service_action(u, rv)
               reset == action_reset_after(u, rv)
    <2>1. /\ rvector[u] \in Nat /\ rv \in Nat
          /\ Ladder[u][i].tlmin \in Nat /\ 1 <= Ladder[u][i].tlmin
      BY RowTypes, LadderOrdered
    <2>2. rvector'[u] = IF Zeroing(action, reset) THEN 0 ELSE rv
      <3>1. f \notin {"flag", "reset"}
        BY DEF AfterIncrement
      <3>2. rvector' = [rvector EXCEPT ![u] =
                          IF Zeroing(action, reset /\ f # "flag") /\ f # "reset"
                          THEN 0 ELSE rv]
        BY <1>2 DEF CrashHandled
      <3>3. Zeroing(action, reset /\ f # "flag") <=> Zeroing(action, reset)
        BY <3>1 DEF Zeroing
      <3>4. CASE Zeroing(action, reset)
        BY <3>1, <3>2, <3>3, <3>4
      <3>5. CASE ~Zeroing(action, reset)
        BY <3>2, <3>3, <3>5
      <3> QED
        BY <3>4, <3>5
    <2>3. CASE rv = Ladder[u][i].tlmin
      <3>1. HasAction(u, rv) /\ SelectedRow(u, rv) = Ladder[u][i]
        BY <2>1, <2>3, FirstOfInterval, SelectedRowIs
      <3>2. action = Ladder[u][i].type /\ (reset <=> Ladder[u][i].reset)
        BY <3>1 DEF service_action, action_reset_after
      <3>3. Zeroing(action, reset)
        BY <3>2 DEF ResetRow, Zeroing
      <3> QED
        BY <2>1, <2>2, <3>3
    <2>4. CASE rv # Ladder[u][i].tlmin
      BY <2>1, <2>2, <2>4
    <2> QED
      BY <2>3, <2>4
  <1> QED
    BY <1>1, <1>2 DEF do_process_service_crash_event, CrashWithoutAction, AfterIncrement

(* A step of the dispatcher moves only the rvector whose crash it handles.   *)
LEMMA OnlyCrashMoves ==
  ASSUME TypeOK, NEW u \in Unit, NEW f, DispatcherStep(f),
         rvector'[u] # rvector[u]
  PROVE  CrashNext(u) /\ do_process_service_crash_event(u, f)
  <1>1. dqueue # <<>> /\ Head(dqueue) \in DEvent
    BY QueueTypes DEF DispatcherStep, TypeOK
  <1>2. /\ Head(dqueue).type = "crashed"
        /\ do_process_service_crash_event(Head(dqueue).service, f)
    BY DEF DispatcherStep
  <1>3. Head(dqueue).service = u
    BY <1>2 DEF do_process_service_crash_event, CrashUncounted, CrashWithoutAction,
                CrashHandled, TypeOK
  <1>4. Head(dqueue) = [type |-> "crashed", service |-> u]
    BY <1>1, <1>2, <1>3 DEF DEvent
  <1> QED
    BY <1>1, <1>2, <1>3, <1>4 DEF CrashNext

LEMMA BoundedStep ==
  ASSUME TypeOK, [Next]_vars, NEW u \in Unit, NEW i \in DOMAIN Ladder[u],
         ResetRow(u, i), rvector[u] < Ladder[u][i].tlmin
  PROVE  rvector'[u] < Ladder[u][i].tlmin \/ CutShort(u)
  <1>1. CASE rvector'[u] = rvector[u]
    BY <1>1
  <1>2. ASSUME NEW f \in Faults \ AfterIncrement, DispatcherStep(f),
               rvector'[u] # rvector[u]
        PROVE  rvector'[u] < Ladder[u][i].tlmin
    BY <1>2, OnlyCrashMoves, CrashBounded
  <1>3. ASSUME NEW f \in Faults, DispatcherStep(f), rvector'[u] # rvector[u],
               ~\E g \in Faults \ AfterIncrement : DispatcherStep(g)
        PROVE  CutShort(u)
    <2>1. CrashNext(u)
      BY <1>3, OnlyCrashMoves
    <2> QED
      BY <1>3, <2>1 DEF CutShort
  <1>4. ASSUME NEW v \in Unit, NEW f \in Faults, RelaxTimerExpires(v, f),
               rvector'[u] # rvector[u]
        PROVE  rvector'[u] < Ladder[u][i].tlmin
    <2>1. rvector'[u] = 0
      BY <1>4 DEF RelaxTimerExpires, relaxtimer_callback, TypeOK
    <2> QED
      BY <2>1, RowTypes, LadderOrdered
  <1>5. ASSUME NEW v \in Unit, KilledInHandler(v), rvector'[u] # rvector[u]
        PROVE  CutShort(u)
    <2>1. KilledInHandler(u)
      BY <1>5, KillCounts
    <2>2. ASSUME NEW f, DispatcherStep(f)
          PROVE  FALSE
      BY <2>1, <2>2 DEF KilledInHandler, ProcessEnds, DispatcherStep
    <2>3. CrashNext(u)
      BY <2>1 DEF KilledInHandler
    <2> QED
      BY <2>1, <2>2, <2>3 DEF CutShort
  <1>6. \/ \E f \in Faults : DispatcherStep(f)
        \/ \E v \in Unit, f \in Faults : RelaxTimerExpires(v, f)
        \/ \E v \in Unit : KilledInHandler(v)
        \/ UNCHANGED rvector
    BY DEF Next, vars, ServiceFails, ServiceStarts, ServiceLeaves, PrimaryReads,
           PrimaryLost, on_properties_changed, ExecutorStep, ExecutorTakes,
           SystemRequest, do_process_service_restart_event,
           do_process_service_reset_data_event, do_process_service_disable_event,
           do_process_context_restart_event, do_process_platform_restart_event,
           do_process_factory_reset_event, Tick, Exits, Starts, Reboots
  <1> QED
    BY <1>1, <1>2, <1>3, <1>4, <1>5, <1>6

(* On any ladder, with any faults and kills: the only steps that take a      *)
(* rvector to a reset marked or ignoreService row, and so open the rows      *)
(* behind it, are those that cut a crash's handling short after its          *)
(* increment.                                                                *)
THEOREM LadderEndsAtReset == Spec => BoundedByReset
  <1>1. TypeOK /\ [Next]_vars =>
          [\A u \in Unit : \A i \in DOMAIN Ladder[u] :
             ResetRow(u, i) /\ rvector[u] < Ladder[u][i].tlmin
               => rvector'[u] < Ladder[u][i].tlmin \/ CutShort(u)]_vars
    BY BoundedStep
  <1> QED
    BY <1>1, TypeCorrect, PTL DEF Spec, BoundedByReset

-----------------------------------------------------------------------------
(* Why comparing rvectors is enough to tell a quiet unit.                    *)

(* How long a timer for rvector rv runs.                                     *)
Period(u, rv) == rv * RelaxTime[u]

(* ts fits rv: the timers of u are for ever higher rvectors up to rv, expire *)
(* in that order, and the one for rv itself has seen no crash.               *)
Fits(u, rv, ts) ==
  /\ \A i \in DOMAIN ts :
       /\ 1 <= ts[i].rvector /\ ts[i].rvector <= rv
       /\ ts[i].left <= Period(u, ts[i].rvector)
       /\ ts[i].rvector = rv => ~ts[i].crashed
  /\ \A i, j \in DOMAIN ts :
       i < j => ts[i].rvector < ts[j].rvector /\ ts[i].left <= ts[j].left
TimersFit == \A u \in Unit : Fits(u, rvector[u], timers[u])

LEMMA PeriodGrows ==
  ASSUME NEW u \in Unit, NEW a \in Nat, NEW b \in Nat
  PROVE  Period(u, a) \in Nat /\ (a <= b => Period(u, a) <= Period(u, b))
  <1>1. RelaxTime[u] \in Nat
    BY RelaxTimeType
  <1>2. a * RelaxTime[u] \in Nat
    BY <1>1
  <1>3. ASSUME a <= b
        PROVE  a * RelaxTime[u] <= b * RelaxTime[u]
    <2>1. PICK d \in Nat : b = a + d
      BY <1>3, b - a \in Nat
    <2>2. b * RelaxTime[u] = a * RelaxTime[u] + d * RelaxTime[u]
      BY <1>1, <2>1
    <2>3. d * RelaxTime[u] \in Nat
      BY <1>1
    <2> QED
      BY <1>2, <2>2, <2>3
  <1> QED
    BY <1>2, <1>3 DEF Period

LEMMA TimerFields ==
  ASSUME NEW ts \in Seq(Timer)
  PROVE  /\ Len(ts) \in Nat /\ DOMAIN ts = 1 .. Len(ts)
         /\ \A i \in DOMAIN ts :
              /\ ts[i] \in Timer
              /\ ts[i].rvector \in Nat /\ ts[i].left \in Nat /\ ts[i].crashed \in BOOLEAN
  <1>1. \A i \in DOMAIN ts : ts[i] \in Timer
    OBVIOUS
  <1> QED
    BY <1>1, LenProperties DEF Timer

(* A counted crash outdates every timer there is.                            *)
LEMMA CountFits ==
  ASSUME TypeOK, NEW u \in Unit, Fits(u, rvector[u], timers[u])
  PROVE  Fits(u, rvector[u] + 1, Marked(u))
  <1>1. timers[u] \in Seq(Timer) /\ rvector[u] \in Nat /\ timers \in [Unit -> Seq(Timer)]
    BY DEF TypeOK
  <1>2. /\ DOMAIN Marked(u) = DOMAIN timers[u]
        /\ \A i \in DOMAIN timers[u] :
             /\ Marked(u)[i].rvector = timers[u][i].rvector
             /\ Marked(u)[i].left = timers[u][i].left
             /\ timers[u][i].rvector \in Nat
    BY <1>1, TimerFields, MarkedProperties
  <1> QED
    BY <1>1, <1>2 DEF Fits

(* The timer it starts itself is the last to expire and the only current one.*)
LEMMA ArmFits ==
  ASSUME TypeOK, NEW u \in Unit, Fits(u, rvector[u], timers[u])
  PROVE  Fits(u, rvector[u] + 1, Append(Marked(u), NewTimer(u, rvector[u] + 1)))
  <1> DEFINE rv == rvector[u] + 1
             old == timers[u]
             ts == Append(Marked(u), NewTimer(u, rv))
             n == Len(old) + 1
  <1>1. /\ old \in Seq(Timer) /\ rvector[u] \in Nat /\ rv \in Nat
        /\ timers \in [Unit -> Seq(Timer)]
    BY DEF TypeOK
  <1>2. /\ DOMAIN ts = 1 .. n /\ n \in Nat
        /\ ts[n] = NewTimer(u, rv)
        /\ \A i \in 1 .. n - 1 : ts[i] = Marked(u)[i]
    BY <1>1, MarkedProperties, AppendProperties, TimerFields
  <1>3. \A i \in 1 .. n - 1 :
          /\ i \in DOMAIN old
          /\ ts[i].rvector = old[i].rvector /\ ts[i].left = old[i].left
          /\ old[i].rvector \in Nat /\ old[i].left \in Nat
    BY <1>1, <1>2, MarkedProperties, TimerFields
  <1> HIDE DEF ts, n
  <1>4. \A i \in 1 .. n - 1 :
          /\ 1 <= ts[i].rvector /\ ts[i].rvector < rv
          /\ ts[i].left <= Period(u, ts[i].rvector)
          /\ ts[i].left <= Period(u, rv)
    <2> TAKE i \in 1 .. n - 1
    <2>1. /\ 1 <= ts[i].rvector /\ ts[i].rvector <= rvector[u]
          /\ ts[i].left <= Period(u, ts[i].rvector)
      BY <1>3 DEF Fits
    <2>2. Period(u, ts[i].rvector) \in Nat /\ Period(u, rv) \in Nat
      BY <1>1, <1>3, PeriodGrows
    <2>3. Period(u, ts[i].rvector) <= Period(u, rv)
      BY <1>1, <1>3, <2>1, PeriodGrows
    <2> QED
      BY <1>1, <1>3, <2>1, <2>2, <2>3
  <1>5. ts[n].rvector = rv /\ ts[n].left = Period(u, rv) /\ ~ts[n].crashed
    BY <1>2 DEF NewTimer, Period
  <1>6. \A i, j \in 1 .. n - 1 :
          i < j => ts[i].rvector < ts[j].rvector /\ ts[i].left <= ts[j].left
    BY <1>3 DEF Fits
  <1>7. Fits(u, rv, ts)
    <2>1. ASSUME NEW i \in 1 .. n
          PROVE  /\ 1 <= ts[i].rvector /\ ts[i].rvector <= rv
                 /\ ts[i].left <= Period(u, ts[i].rvector)
                 /\ ts[i].rvector = rv => ~ts[i].crashed
      <3>1. CASE i = n
        BY <1>1, <1>5, <3>1, PeriodGrows
      <3>2. CASE i \in 1 .. n - 1
        BY <1>1, <1>3, <1>4, <3>2
      <3> QED
        BY <1>2, <3>1, <3>2
    <2>2. ASSUME NEW i \in 1 .. n, NEW j \in 1 .. n, i < j
          PROVE  ts[i].rvector < ts[j].rvector /\ ts[i].left <= ts[j].left
      <3>1. i \in 1 .. n - 1 /\ (j = n \/ j \in 1 .. n - 1)
        BY <1>2, <2>2
      <3> QED
        BY <1>4, <1>5, <1>6, <2>2, <3>1
    <2> QED
      BY <1>2, <2>1, <2>2 DEF Fits
  <1> QED
    BY <1>7 DEF ts

(* An expired timer leaves; if it was current it was the only one, and none  *)
(* is left for the rvector that starts over.                                 *)
LEMMA ExpireFits ==
  ASSUME TypeOK, NEW u \in Unit, Fits(u, rvector[u], timers[u]),
         NEW f, NEW i, relaxtimer_callback(u, i, f)
  PROVE  Fits(u, rvector'[u], timers'[u])
  <1> DEFINE ts == timers[u]
             rest == RemoveAt(ts, i)
  <1>1. /\ ts \in Seq(Timer) /\ rvector[u] \in Nat /\ i \in 1 .. Len(ts)
        /\ timers'[u] = rest
    BY DEF TypeOK, relaxtimer_callback, Due
  <1>2. /\ rest \in Seq(Timer) /\ Len(rest) = Len(ts) - 1
        /\ DOMAIN rest = 1 .. Len(ts) - 1
        /\ \A k \in 1 .. Len(ts) - 1 : rest[k] = IF k < i THEN ts[k] ELSE ts[k + 1]
    BY <1>1, RemoveAtProperties, TimerFields
  <1> HIDE DEF rest
  <1> DEFINE at(k) == IF k < i THEN k ELSE k + 1
  <1>3. /\ \A k \in 1 .. Len(ts) - 1 : at(k) \in 1 .. Len(ts) /\ rest[k] = ts[at(k)]
        /\ \A k, l \in 1 .. Len(ts) - 1 : k < l => at(k) < at(l)
    BY <1>1, <1>2, TimerFields
  <1>4. DOMAIN ts = 1 .. Len(ts) /\ Len(ts) \in Nat
    BY <1>1, TimerFields
  <1>5. CASE rvector'[u] = rvector[u]
    <2> HIDE DEF at
    <2>1. Fits(u, rvector[u], rest)
      BY <1>2, <1>3, <1>4 DEF Fits
    <2> QED
      BY <1>1, <1>5, <2>1
  <1>6. CASE rvector'[u] # rvector[u]
    <2>1. ts[i].rvector = rvector[u] /\ ts[i].left = 0
      BY <1>1, <1>6 DEF relaxtimer_callback, StillCurrent, Due
    <2>2. ASSUME NEW k \in 1 .. Len(ts), k < i
          PROVE  FALSE
      <3>1. ts[k].left > 0
        BY <1>4, <2>2 DEF relaxtimer_callback, Due
      <3>2. ts[k].left <= ts[i].left
        BY <1>1, <1>4, <2>2 DEF Fits
      <3> QED
        BY <1>1, <1>4, <2>1, <3>1, <3>2, TimerFields
    <2>3. ASSUME NEW k \in 1 .. Len(ts), i < k
          PROVE  FALSE
      <3>1. ts[i].rvector < ts[k].rvector /\ ts[k].rvector <= rvector[u]
        BY <1>1, <1>4, <2>3 DEF Fits
      <3> QED
        BY <1>1, <1>4, <2>1, <3>1, TimerFields
    <2>4. Len(ts) = 1
      <3>1. 1 \in 1 .. Len(ts) /\ Len(ts) \in 1 .. Len(ts)
        BY <1>1, <1>4
      <3>2. ~(1 < i)
        BY <2>2, <3>1
      <3>3. ~(i < Len(ts))
        BY <2>3, <3>1
      <3> HIDE DEF ts
      <3> QED
        BY <1>1, <1>4, <3>2, <3>3
    <2>5. DOMAIN rest = {}
      BY <1>2, <2>4
    <2> QED
      BY <1>1, <2>5 DEF Fits
  <1> QED
    BY <1>5, <1>6

LEMMA TickFits ==
  ASSUME TypeOK, NEW u \in Unit, Fits(u, rvector[u], timers[u]), Tick
  PROVE  Fits(u, rvector'[u], timers'[u])
  <1>1. timers[u] \in Seq(Timer) /\ rvector[u] \in Nat /\ timers \in [Unit -> Seq(Timer)]
    BY DEF TypeOK
  <1>2. timers'[u] = [i \in DOMAIN timers[u] |-> Sooner(timers[u][i])]
    BY DEF Tick
  <1>3. rvector' = rvector
    BY DEF Tick
  <1>4. \A i \in DOMAIN timers[u] :
          /\ timers'[u][i].rvector = timers[u][i].rvector
          /\ timers'[u][i].crashed = timers[u][i].crashed
          /\ timers'[u][i].left = IF timers[u][i].left > 0 THEN timers[u][i].left - 1 ELSE 0
    BY <1>1, <1>2, TimerFields DEF Sooner, Timer
  <1>5. \A i \in DOMAIN timers[u] :
          /\ Period(u, timers[u][i].rvector) \in Nat
          /\ timers[u][i].left \in Nat
    BY <1>1, TimerFields, PeriodGrows
  <1>6. DOMAIN timers'[u] = DOMAIN timers[u]
    BY <1>2
  <1>7. ASSUME NEW i \in DOMAIN timers[u]
        PROVE  timers'[u][i].left <= Period(u, timers'[u][i].rvector)
    BY <1>4, <1>5 DEF Fits
  <1>8. ASSUME NEW i \in DOMAIN timers[u], NEW j \in DOMAIN timers[u], i < j
        PROVE  timers'[u][i].left <= timers'[u][j].left
    BY <1>4, <1>5, <1>8 DEF Fits
  <1> QED
    BY <1>3, <1>4, <1>6, <1>7, <1>8 DEF Fits

LEMMA CrashFits ==
  ASSUME OnlyTimersReset, TypeOK, TimersFit,
         NEW s \in Service, NEW f, f \notin {"lookup", "increment"},
         do_process_service_crash_event(s, f)
  PROVE  TimersFit'
  <1> DEFINE rv == rvector[s] + 1
             action == service_action(s, rv)
             reset == action_reset_after(s, rv) /\ f # "flag"
  <1>1. CASE s \notin Unit
    BY <1>1 DEF do_process_service_crash_event, CrashUncounted, CrashWithoutAction,
                CrashHandled, TimersFit, Fits
  <1>2. CASE s \in Unit
    <2>1. rv \in Nat /\ rvector[s] \in Nat
      BY <1>2 DEF TypeOK
    <2>2. ~Zeroing(action, reset)
      <3>1. CASE HasAction(s, rv)
        <4>1. PICK i \in DOMAIN Ladder[s] : Selected(s, rv, i)
          BY <3>1 DEF HasAction
        <4>2. SelectedRow(s, rv) = Ladder[s][i]
          BY <1>2, <2>1, <4>1, SelectedRowIs
        <4>3. ~Zeroing(Ladder[s][i].type, Ladder[s][i].reset)
          BY <1>2 DEF OnlyTimersReset
        <4> QED
          BY <3>1, <4>2, <4>3 DEF Zeroing, service_action, action_reset_after
      <3>2. CASE ~HasAction(s, rv)
        BY <3>2 DEF Zeroing, service_action, ServiceLevel
      <3> QED
        BY <3>1, <3>2
    <2>3. rvector' = [rvector EXCEPT ![s] = rv]
      BY <1>2, <2>2 DEF do_process_service_crash_event, CrashUncounted,
                        CrashWithoutAction, CrashHandled
    <2>4. \/ timers' = [timers EXCEPT ![s] = Marked(s)]
          \/ timers' = [timers EXCEPT ![s] = Append(Marked(s), NewTimer(s, rv))]
      BY <1>2 DEF do_process_service_crash_event, CrashUncounted,
                  CrashWithoutAction, CrashHandled
    <2>5. /\ Fits(s, rv, Marked(s))
          /\ Fits(s, rv, Append(Marked(s), NewTimer(s, rv)))
      BY <1>2, CountFits, ArmFits DEF TimersFit
    <2>6. Fits(s, rvector'[s], timers'[s])
      BY <1>2, <2>3, <2>4, <2>5 DEF TypeOK
    <2>7. ASSUME NEW u \in Unit, u # s
          PROVE  rvector'[u] = rvector[u] /\ timers'[u] = timers[u]
      BY <2>3, <2>4, <2>7 DEF TypeOK
    <2> QED
      BY <2>6, <2>7 DEF TimersFit, Fits
  <1> QED
    BY <1>1, <1>2

(* A process that starts has at most one timer per unit, for its rvector.    *)
LEMMA StartFits ==
  ASSUME TypeOK, NEW f, Starts(f)
  PROVE  TimersFit'
  <1> SUFFICES ASSUME NEW u \in Unit
               PROVE  Fits(u, rvector'[u], timers'[u])
    BY DEF TimersFit, Fits
  <1>1. rvector'[u] = rvector[u] /\ rvector[u] \in Nat
    BY DEF Starts, TypeOK
  <1>2. CASE timers'[u] = <<>>
    BY <1>2 DEF Fits
  <1>3. CASE rvector[u] > 0 /\ timers'[u] = <<NewTimer(u, rvector[u])>>
    <2>1. /\ DOMAIN timers'[u] = {1}
          /\ timers'[u][1].rvector = rvector[u]
          /\ timers'[u][1].left = Period(u, rvector[u])
          /\ ~timers'[u][1].crashed
      BY <1>3 DEF NewTimer, Period
    <2>2. Period(u, rvector[u]) \in Nat
      BY <1>1, PeriodGrows
    <2> QED
      BY <1>1, <1>3, <2>1, <2>2 DEF Fits
  <1>4. PICK started \in SUBSET {v \in Unit : rvector[v] > 0 /\ RelaxTime[v] > 0} :
          timers' = [v \in Unit |-> IF v \in started
                                   THEN <<NewTimer(v, rvector[v])>> ELSE <<>>]
    BY StartedTimers
  <1> QED
    BY <1>2, <1>3, <1>4

LEMMA FitStep ==
  ASSUME OnlyTimersReset, Faults \cap {"lookup", "increment"} = {},
         TypeOK, TimersFit, [Next]_vars
  PROVE  TimersFit'
  <1>1. ASSUME NEW f \in Faults, DispatcherStep(f)
        PROVE  TimersFit'
    <2>1. CASE do_process_service_crash_event(Head(dqueue).service, f)
      <3>1. Head(dqueue) \in DEvent
        BY <1>1, QueueTypes DEF DispatcherStep, TypeOK
      <3>2. Head(dqueue).service \in Service /\ f \notin {"lookup", "increment"}
        BY <3>1 DEF DEvent
      <3> QED
        BY <2>1, <3>2, CrashFits
    <2>2. CASE UNCHANGED <<rvector, timers>>
      BY <2>2 DEF TimersFit, Fits
    <2> QED
      BY <1>1, <2>1, <2>2 DEF DispatcherStep
  <1>2. ASSUME NEW u \in Unit, NEW f \in Faults, NEW i, relaxtimer_callback(u, i, f)
        PROVE  TimersFit'
    <2>1. Fits(u, rvector'[u], timers'[u])
      BY <1>2, ExpireFits DEF TimersFit
    <2>2. ASSUME NEW v \in Unit, v # u
          PROVE  rvector'[v] = rvector[v] /\ timers'[v] = timers[v]
      BY <1>2, <2>2 DEF relaxtimer_callback, TypeOK
    <2> QED
      BY <2>1, <2>2 DEF TimersFit, Fits
  <1>3. CASE Tick
    BY <1>3, TickFits DEF TimersFit, Fits
  <1>4. CASE ProcessEnds
    BY <1>4 DEF ProcessEnds, TimersFit, Fits
  <1>5. CASE \E f \in Faults : Starts(f)
    BY <1>5, StartFits
  <1>6. CASE UNCHANGED <<rvector, timers>>
    BY <1>6 DEF TimersFit, Fits
  <1>7. \/ \E f \in Faults : DispatcherStep(f)
        \/ \E u \in Unit, f \in Faults : RelaxTimerExpires(u, f)
        \/ Tick \/ ProcessEnds \/ \E f \in Faults : Starts(f)
        \/ UNCHANGED <<rvector, timers>>
    BY DEF Next, vars, ServiceFails, ServiceStarts, ServiceLeaves, PrimaryReads,
           PrimaryLost, on_properties_changed, ExecutorStep, ExecutorTakes,
           SystemRequest, do_process_service_restart_event,
           do_process_service_reset_data_event, do_process_service_disable_event,
           do_process_context_restart_event, do_process_platform_restart_event,
           do_process_factory_reset_event, Exits, KilledInHandler, Reboots
  <1> QED
    BY <1>1, <1>2, <1>3, <1>4, <1>5, <1>6, <1>7 DEF RelaxTimerExpires

LEMMA QuietStep ==
  ASSUME TypeOK, TimersFit,
         NEW u \in Unit, NEW f, NEW i \in DOMAIN timers[u],
         relaxtimer_callback(u, i, f), rvector'[u] # rvector[u]
  PROVE  ~timers[u][i].crashed
  <1>1. timers[u][i].rvector = rvector[u]
    BY DEF relaxtimer_callback, StillCurrent
  <1> QED
    BY <1>1 DEF TimersFit, Fits

(* On every ladder without reset marks and ignoreService, for every relaxation *)
(* time and in both modes, a timer that sets the rvector to 0 has seen no      *)
(* crash handled since it began, although relaxtimer_callback only compares    *)
(* rvectors: as long as every crash is counted, an equal rvector means none.   *)
THEOREM RelaxedWhenQuiet ==
  ASSUME OnlyTimersReset, Faults \cap {"lookup", "increment"} = {}
  PROVE  Spec => RelaxOnlyIfQuiet
  <1>1. Init => TimersFit
    BY DEF Init, TimersFit, Fits
  <1>2. TypeOK /\ TimersFit /\ [Next]_vars => TimersFit'
    BY FitStep
  <1>3. TypeOK /\ TimersFit /\ [Next]_vars =>
          [\A u \in Unit, f \in Faults : \A i \in DOMAIN timers[u] :
             relaxtimer_callback(u, i, f) /\ rvector'[u] # rvector[u]
               => ~timers[u][i].crashed]_vars
    BY QuietStep
  <1> QED
    BY <1>1, <1>2, <1>3, TypeCorrect, PTL DEF Spec, RelaxOnlyIfQuiet

-----------------------------------------------------------------------------
(* Who restarts the platform.                                                *)

(* The dispatcher names the context of an event before the executor sees it. *)
ContextNamed == \A k \in DOMAIN equeue : equeue[k].context = "host"

LEMMA NamedStep ==
  ASSUME TypeOK, ContextNamed, [Next]_vars
  PROVE  ContextNamed'
  <1>1. equeue \in Seq(EEvent)
    BY DEF TypeOK
  <1>2. ASSUME NEW s, NEW f, do_process_service_crash_event(s, f), NEW k \in DOMAIN equeue'
        PROVE  equeue'[k].context = "host"
    <2>1. CASE equeue' = equeue
      BY <1>2, <2>1 DEF ContextNamed
    <2>2. CASE \E action : equeue' = Append(equeue, ExecutorEvent(action, s))
      <3>1. PICK action : equeue' = Append(equeue, ExecutorEvent(action, s))
        BY <2>2
      <3>2. ExecutorEvent(action, s).context = "host"
        BY DEF ExecutorEvent
      <3> DEFINE n == Len(equeue)
      <3>3. /\ n \in Nat /\ DOMAIN equeue = 1 .. n /\ DOMAIN equeue' = 1 .. n + 1
            /\ \A l \in 1 .. n : equeue'[l] = equeue[l]
            /\ equeue'[n + 1] = ExecutorEvent(action, s)
        BY <1>1, <3>1, LenProperties
      <3> HIDE DEF n
      <3>4. k = n + 1 \/ k \in 1 .. n
        BY <1>2, <3>3
      <3> QED
        BY <3>2, <3>3, <3>4 DEF ContextNamed
    <2> QED
      BY <1>2, <2>1, <2>2 DEF do_process_service_crash_event, CrashUncounted,
                              CrashWithoutAction, CrashHandled
  <1>3. ASSUME equeue # <<>>, equeue' = Tail(equeue)
        PROVE  ContextNamed'
    <2> DEFINE n == Len(equeue)
    <2>1. /\ n \in Nat /\ DOMAIN equeue = 1 .. n /\ DOMAIN equeue' = 1 .. n - 1
          /\ \A k \in 1 .. n - 1 : equeue'[k] = equeue[k + 1]
      BY <1>1, <1>3, HeadTailProperties, LenProperties
    <2> QED
      BY <2>1 DEF ContextNamed
  <1>4. CASE UNCHANGED equeue
    BY <1>4 DEF ContextNamed
  <1>5. CASE equeue' = <<>>
    BY <1>5 DEF ContextNamed
  <1>6. \/ \E s, f : do_process_service_crash_event(s, f)
        \/ equeue # <<>> /\ equeue' = Tail(equeue)
        \/ UNCHANGED equeue
        \/ equeue' = <<>>
    BY DEF Next, vars, ServiceFails, ServiceStarts, ServiceLeaves, PrimaryReads,
           PrimaryLost, on_properties_changed, DispatcherStep, ExecutorStep,
           ExecutorTakes, SystemRequest, do_process_service_restart_event,
           do_process_service_reset_data_event, do_process_service_disable_event,
           do_process_context_restart_event, do_process_platform_restart_event,
           do_process_factory_reset_event, RelaxTimerExpires, relaxtimer_callback,
           Tick, Exits, KilledInHandler, ProcessEnds, Starts, Reboots
  <1> QED
    BY <1>2, <1>3, <1>4, <1>5, <1>6 DEF ContextNamed

LEMMA RestartStep ==
  ASSUME TypeOK, ContextNamed, [Next]_vars,
         "platformRestart" \in asked', "platformRestart" \notin asked
  PROVE  phase' = "quitting"
  <1>1. PICK f \in Faults : ExecutorStep(f)
    BY DEF Next, vars, ipc, ServiceFails, ServiceStarts, ServiceLeaves, PrimaryReads,
           PrimaryLost, on_properties_changed, DispatcherStep, RelaxTimerExpires,
           relaxtimer_callback, Tick, Exits, KilledInHandler, ProcessEnds, Starts,
           Reboots
  <1>2. equeue # <<>> => Head(equeue).context = "host"
    <2> SUFFICES ASSUME equeue # <<>>
                 PROVE  Head(equeue).context = "host"
      OBVIOUS
    <2>1. equeue \in Seq(EEvent)
      BY DEF TypeOK
    <2>2. 1 \in DOMAIN equeue /\ Head(equeue) = equeue[1]
      BY <2>1, HeadTailProperties, LenProperties
    <2> QED
      BY <2>2 DEF ContextNamed
  <1> QED
    BY <1>1, <1>2 DEF ExecutorStep, ExecutorTakes, SystemRequest, ContextRequest,
           do_process_service_restart_event, do_process_service_reset_data_event,
           do_process_service_disable_event, do_process_context_restart_event,
           do_process_platform_restart_event, do_process_factory_reset_event

(* Whatever crashes, fails and is killed, a primary asks for a restart of    *)
(* the platform only in the dispatch that ends its loop: the event it shares *)
(* with the executor always has its context by then, so a container's        *)
(* restart never falls back to one of the platform.                          *)
THEOREM LoopEndsWithPlatformRestart == Spec => PlatformRestartEndsLoop
  <1>1. Init => ContextNamed
    BY DEF Init, ContextNamed
  <1>2. TypeOK /\ ContextNamed /\ [Next]_vars => ContextNamed'
    BY NamedStep
  <1>3. TypeOK /\ ContextNamed /\ [Next]_vars =>
          [("platformRestart" \in asked' /\ "platformRestart" \notin asked)
             => phase' = "quitting"]_vars
    BY RestartStep
  <1> QED
    BY <1>1, <1>2, <1>3, TypeCorrect, PTL DEF Spec, PlatformRestartEndsLoop

=============================================================================
