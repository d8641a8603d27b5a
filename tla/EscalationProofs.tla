-------------------------- MODULE EscalationProofs --------------------------
(* One recoverymanager instance implements the escalation its README         *)
(* promises: every step of Recovery is a step of Escalation, or changes      *)
(* nothing Escalation speaks of.                                             *)
EXTENDS RecoveryProofs

-----------------------------------------------------------------------------
(* How the timers and the executor's queue show in Escalation's variables.   *)

(* A timer of ts would still take rvector rv back to 0.                      *)
Watches(ts, rv) == \E i \in DOMAIN ts : ts[i].rvector = rv /\ ~ts[i].crashed

(* Where one unit changes, it alone enters or leaves the watched ones.       *)
LEMMA WatchedOne ==
  ASSUME NEW s \in Unit,
         \A u \in Unit \ {s} : rvector'[u] = rvector[u] /\ timers'[u] = timers[u]
  PROVE  /\ Watches(timers'[s], rvector'[s]) => Watched' = Watched \cup {s}
         /\ ~Watches(timers'[s], rvector'[s]) => Watched' = Watched \ {s}
  BY DEF Watched, Watches

LEMMA MarkedUnwatched ==
  ASSUME TypeOK, NEW s \in Unit, NEW rv
  PROVE  ~Watches(Marked(s), rv)
  BY MarkedProperties DEF TypeOK, Watches

(* A timer just started watches.                                             *)
LEMMA ArmedWatched ==
  ASSUME TypeOK, NEW s \in Unit, NEW rv \in Nat
  PROVE  Watches(Append(Marked(s), NewTimer(s, rv)), rv)
  <1> DEFINE ts == Append(Marked(s), NewTimer(s, rv))
             n == Len(Marked(s)) + 1
  <1>1. Marked(s) \in Seq(Timer) /\ NewTimer(s, rv) \in Timer
    BY MarkedProperties, TimerTypes DEF TypeOK
  <1>2. n \in DOMAIN ts /\ ts[n] = NewTimer(s, rv)
    BY <1>1, AppendProperties
  <1>3. NewTimer(s, rv).rvector = rv /\ ~NewTimer(s, rv).crashed
    BY DEF NewTimer
  <1> HIDE DEF ts, n
  <1>4. Watches(ts, rv)
    BY <1>2, <1>3 DEF Watches
  <1> QED
    BY <1>4 DEF ts

LEMMA TodoAppend ==
  ASSUME TypeOK, NEW e \in EEvent, equeue' = Append(equeue, e)
  PROVE  Todo' = Append(Todo, [unit |-> e.service, action |-> e.type])
  <1> DEFINE item(x) == [unit |-> x.service, action |-> x.type]
             n == Len(equeue)
  <1>1. equeue \in Seq(EEvent)
    BY DEF TypeOK
  <1>2. /\ n \in Nat /\ DOMAIN equeue = 1 .. n
        /\ equeue' \in Seq(EEvent) /\ DOMAIN equeue' = 1 .. n + 1
        /\ \A k \in 1 .. n : equeue'[k] = equeue[k]
        /\ equeue'[n + 1] = e
    BY <1>1, AppendProperties, LenProperties
  <1>3. Todo = [k \in 1 .. n |-> item(equeue[k])]
    BY <1>2 DEF Todo
  <1>4. Todo' = [k \in 1 .. n + 1 |-> item(equeue'[k])]
    BY <1>2 DEF Todo
  <1>5. Len(Todo) = n
    BY <1>2, <1>3
  <1>6. Append(Todo, item(e)) =
          [k \in 1 .. n + 1 |-> IF k = n + 1 THEN item(e) ELSE Todo[k]]
    BY <1>2, <1>3, <1>5
  <1>7. \A k \in 1 .. n + 1 :
          item(equeue'[k]) = IF k = n + 1 THEN item(e) ELSE Todo[k]
    BY <1>2, <1>3
  <1> QED
    BY <1>4, <1>6, <1>7

LEMMA TodoTail ==
  ASSUME TypeOK, equeue # <<>>, equeue' = Tail(equeue)
  PROVE  Todo # <<>> /\ Todo' = Tail(Todo)
  <1> DEFINE item(x) == [unit |-> x.service, action |-> x.type]
             n == Len(equeue)
  <1>1. equeue \in Seq(EEvent)
    BY DEF TypeOK
  <1>2. /\ n \in Nat /\ n >= 1 /\ DOMAIN equeue = 1 .. n
        /\ DOMAIN equeue' = 1 .. n - 1
        /\ \A k \in 1 .. n - 1 : equeue'[k] = equeue[k + 1]
    BY <1>1, HeadTailProperties, LenProperties, EmptySeq
  <1>3. Todo = [k \in 1 .. n |-> item(equeue[k])] /\ Len(Todo) = n
    BY <1>2 DEF Todo
  <1>4. Todo' = [k \in 1 .. n - 1 |-> item(equeue'[k])]
    BY <1>2 DEF Todo
  <1>5. Tail(Todo) = [k \in 1 .. n - 1 |-> Todo[k + 1]]
    BY <1>2, <1>3
  <1>6. \A k \in 1 .. n - 1 : item(equeue'[k]) = Todo[k + 1]
    BY <1>2, <1>3
  <1>7. Todo # <<>>
    BY <1>2, <1>3
  <1> QED
    BY <1>4, <1>5, <1>6, <1>7

-----------------------------------------------------------------------------
(* The steps.                                                                *)

(* All Escalation speaks of.                                                 *)
Seen == <<rvector, Watched, Todo, (phase # "down")>>

LEMMA NotZeroing ==
  ASSUME OnlyTimersReset, NEW s \in Unit, NEW rv \in Nat, NEW f
  PROVE  ~Zeroing(service_action(s, rv), action_reset_after(s, rv) /\ f # "flag")
  <1>1. CASE HasAction(s, rv)
    <2>1. PICK i \in DOMAIN Ladder[s] : Selected(s, rv, i)
      BY <1>1 DEF HasAction
    <2>2. SelectedRow(s, rv) = Ladder[s][i]
      BY <2>1, SelectedRowIs
    <2>3. ~Zeroing(Ladder[s][i].type, Ladder[s][i].reset)
      BY DEF OnlyTimersReset
    <2> QED
      BY <1>1, <2>2, <2>3 DEF Zeroing, service_action, action_reset_after
  <1>2. CASE ~HasAction(s, rv)
    BY <1>2 DEF Zeroing, service_action, ServiceLevel
  <1> QED
    BY <1>1, <1>2

(* A counted crash is a failure of Escalation.                               *)
LEMMA CrashRefined ==
  ASSUME OnlyTimersReset, TypeOK, NEW s \in Unit,
         NEW f \in Faults, f \notin {"lookup", "increment"},
         do_process_service_crash_event(s, f),
         phase # "down", phase' # "down"
  PROVE  Promise!Failure(s)
  <1> DEFINE rv == rvector[s] + 1
             action == service_action(s, rv)
             reset == action_reset_after(s, rv) /\ f # "flag"
             arm == action \in ServiceLevel /\ ~reset /\ RelaxTime[s] > 0 /\ f # "timer"
             listed == action \in Pushed
  <1>1. rv \in Nat /\ rvector \in [Unit -> Nat] /\ timers \in [Unit -> Seq(Timer)]
    BY DEF TypeOK
  <1>2. ~Zeroing(action, reset)
    BY <1>1, NotZeroing
  <1>3. action \in ActionType \cup {"invalid"}
    BY <1>1, ActionTypes
  <1>4. CASE CrashWithoutAction(s, f)
    <2>1. rvector' = [rvector EXCEPT ![s] = rv] /\ timers' = [timers EXCEPT ![s] = Marked(s)]
      BY <1>4 DEF CrashWithoutAction
    <2>2. ~Watches(timers'[s], rvector'[s])
      BY <1>1, <2>1, MarkedUnwatched
    <2>3. Watched' = Watched \ {s}
      BY <1>1, <2>1, <2>2, WatchedOne
    <2>4. "action" \in Missing /\ Todo' = Todo
      BY <1>4 DEF CrashWithoutAction, Todo, Missing
    <2> QED
      BY <2>1, <2>3, <2>4 DEF Promise!Failure
  <1>5. CASE CrashHandled(s, f)
    <2>1. /\ rvector' = [rvector EXCEPT ![s] = rv]
          /\ timers' = [timers EXCEPT ![s] =
                          IF arm THEN Append(Marked(s), NewTimer(s, rv)) ELSE Marked(s)]
          /\ equeue' = IF listed THEN Append(equeue, ExecutorEvent(action, s)) ELSE equeue
      BY <1>2, <1>5 DEF CrashHandled
    <2>2. Watches(timers'[s], rvector'[s]) <=> arm
      <3>1. CASE arm
        BY <1>1, <2>1, <3>1, ArmedWatched
      <3>2. CASE ~arm
        BY <1>1, <2>1, <3>2, MarkedUnwatched
      <3> QED
        BY <3>1, <3>2
    <2>3. Watched' = IF arm THEN Watched \cup {s} ELSE Watched \ {s}
      BY <1>1, <2>1, <2>2, WatchedOne
    <2>4. f = "timer" => "watch" \in Missing
      BY DEF Missing
    <2>5. action \in ServiceLevel => ~reset
      BY <1>2 DEF Zeroing
    <2>6. ~listed => action = "invalid"
      BY <1>2, <1>3 DEF Zeroing, ActionType, Pushed
    <2>7. listed => action # "invalid"
      BY DEF ServiceLevel, SystemLevel, Pushed
    <2>8. listed => Todo' = Append(Todo, [unit |-> s, action |-> action])
      <3>1. SUFFICES ASSUME listed
                     PROVE  Todo' = Append(Todo, [unit |-> s, action |-> action])
        OBVIOUS
      <3>2. ExecutorEvent(action, s) \in EEvent
        BY <3>1 DEF ExecutorEvent, EEvent, Pushed
      <3>3. ExecutorEvent(action, s).service = s /\ ExecutorEvent(action, s).type = action
        BY DEF ExecutorEvent
      <3> QED
        BY <2>1, <3>1, <3>2, <3>3, TodoAppend
    <2>9. ~listed => Todo' = Todo
      BY <2>1 DEF Todo
    <2>10. Todo' = IF action = "invalid" THEN Todo
                   ELSE Append(Todo, [unit |-> s, action |-> action])
      BY <2>6, <2>7, <2>8, <2>9
    <2>11. \/ /\ s \in {u \in Unit : RelaxTime[u] > 0} /\ action \in ServiceLevel
              /\ Watched' = Watched \cup {s}
           \/ /\ \/ ~(s \in {u \in Unit : RelaxTime[u] > 0} /\ action \in ServiceLevel)
                 \/ "watch" \in Missing
              /\ Watched' = Watched \ {s}
      BY <2>3, <2>4, <2>5
    <2> HIDE DEF arm, listed
    <2> QED
      BY <2>1, <2>10, <2>11 DEF Promise!Failure, Promise!Scheduled
  <1> QED
    BY <1>4, <1>5 DEF do_process_service_crash_event, CrashUncounted

(* A timer that expires lets its unit recover or lapse, or was outdated.      *)
LEMMA ExpiryRefined ==
  ASSUME TypeOK, TimersFit, NEW u \in Unit, NEW f \in Faults, NEW i,
         relaxtimer_callback(u, i, f)
  PROVE  Promise!Recovered(u) \/ Promise!Lapse(u) \/ UNCHANGED Seen
  <1> DEFINE ts == timers[u]
             rest == RemoveAt(ts, i)
  <1>1. /\ ts \in Seq(Timer) /\ i \in 1 .. Len(ts) /\ i \in DOMAIN ts
        /\ rvector \in [Unit -> Nat] /\ timers \in [Unit -> Seq(Timer)]
        /\ timers' = [timers EXCEPT ![u] = rest]
        /\ phase # "down" /\ UNCHANGED <<phase, equeue>>
    BY DEF TypeOK, relaxtimer_callback, Due
  <1>2. /\ DOMAIN rest = 1 .. Len(ts) - 1 /\ DOMAIN ts = 1 .. Len(ts) /\ Len(ts) \in Nat
        /\ \A k \in 1 .. Len(ts) - 1 : rest[k] = IF k < i THEN ts[k] ELSE ts[k + 1]
    BY <1>1, RemoveAtProperties, TimerFields
  <1>3. /\ Todo' = Todo
        /\ (phase # "down")' = (phase # "down")
    BY <1>1 DEF Todo
  <1>4. Fits(u, rvector[u], ts)
    BY DEF TimersFit
  <1> HIDE DEF rest
  <1>5. CASE rvector' # rvector
    <2>1. /\ rvector' = [rvector EXCEPT ![u] = 0]
          /\ ts[i].rvector = rvector[u]
      BY <1>5 DEF relaxtimer_callback, StillCurrent
    <2>2. u \in Watched
      <3>1. ~ts[i].crashed
        BY <1>1, <1>4, <2>1 DEF Fits
      <3> QED
        BY <1>1, <2>1, <3>1 DEF Watched
    <2>3. ~Watches(timers'[u], rvector'[u])
      <3>1. Fits(u, rvector'[u], timers'[u])
        BY <1>4, ExpireFits
      <3>2. rvector'[u] = 0 /\ timers'[u] = rest /\ rest \in Seq(Timer)
        BY <1>1, <2>1, RemoveAtProperties DEF rest
      <3>3. \A k \in DOMAIN rest : 1 <= rest[k].rvector
        BY <3>1, <3>2 DEF Fits
      <3> QED
        BY <3>2, <3>3 DEF Watches
    <2>4. Watched' = Watched \ {u}
      BY <1>1, <2>1, <2>3, WatchedOne
    <2> QED
      BY <1>1, <1>3, <2>1, <2>2, <2>4 DEF Promise!Recovered
  <1>6. CASE rvector' = rvector
    <2>1. CASE StillCurrent(u, ts[i])
      <3>1. rvector[u] # 0
        BY <1>1, <1>4, <2>1 DEF Fits, StillCurrent
      <3>2. f \in {"relaxRead", "relaxWrite"}
        BY <1>1, <1>6, <2>1, <3>1 DEF relaxtimer_callback
      <3>3. "recovery" \in Missing
        BY <3>2 DEF Missing
      <3>4. ~Watches(rest, rvector[u])
        <4>1. ASSUME NEW k \in 1 .. Len(ts) - 1
              PROVE  rest[k].rvector # rvector[u]
          <5> DEFINE l == IF k < i THEN k ELSE k + 1
          <5>1. l \in DOMAIN ts /\ l # i /\ rest[k] = ts[l] /\ l \in Int /\ i \in Int
            BY <1>1, <1>2
          <5> HIDE DEF l
          <5>2. ts[l].rvector # ts[i].rvector
            <6>1. ts[l].rvector \in Nat /\ ts[i].rvector \in Nat
              BY <1>1, <5>1, TimerFields
            <6>2. l < i \/ i < l
              BY <5>1
            <6> QED
              BY <1>1, <1>4, <5>1, <6>1, <6>2 DEF Fits
          <5> QED
            BY <2>1, <5>1, <5>2 DEF StillCurrent
        <4> QED
          BY <1>2, <4>1 DEF Watches
      <3>5. timers'[u] = rest
        BY <1>1
      <3>6. Watched' = Watched \ {u}
        BY <1>1, <1>6, <3>4, <3>5, WatchedOne
      <3> QED
        BY <1>3, <1>6, <3>3, <3>6 DEF Promise!Lapse
    <2>2. CASE ~StillCurrent(u, ts[i])
      <3>1. Watches(rest, rvector[u]) <=> Watches(ts, rvector[u])
        <4>1. ASSUME NEW k \in DOMAIN ts, ts[k].rvector = rvector[u]
              PROVE  \E l \in DOMAIN rest : rest[l] = ts[k]
          <5>1. k # i
            BY <2>2, <4>1 DEF StillCurrent
          <5>2. CASE k < i
            BY <1>1, <1>2, <5>2
          <5>3. CASE i < k
            <6>1. k - 1 \in DOMAIN rest /\ ~(k - 1 < i) /\ (k - 1) + 1 = k
              BY <1>1, <1>2, <5>3
            <6> QED
              BY <1>2, <6>1
          <5> QED
            BY <1>1, <1>2, <5>1, <5>2, <5>3
        <4>2. ASSUME NEW k \in DOMAIN rest
              PROVE  \E l \in DOMAIN ts : rest[k] = ts[l]
          <5>1. k \in 1 .. Len(ts) - 1 /\ k \in DOMAIN ts /\ k + 1 \in DOMAIN ts
            BY <1>2
          <5>2. rest[k] = ts[k] \/ rest[k] = ts[k + 1]
            BY <1>2, <5>1
          <5> QED
            BY <5>1, <5>2
        <4> QED
          BY <4>1, <4>2 DEF Watches
      <3>2. Watches(timers'[u], rvector'[u]) <=> u \in Watched
        BY <1>1, <1>6, <3>1 DEF Watched, Watches
      <3>3. Watched' = Watched
        <4>1. \A v \in Unit \ {u} : rvector'[v] = rvector[v] /\ timers'[v] = timers[v]
          BY <1>1, <1>6
        <4> QED
          BY <3>2, <4>1, WatchedOne
      <3> QED
        BY <1>3, <1>6, <3>3 DEF Seen
    <2> QED
      BY <2>1, <2>2
  <1> QED
    BY <1>5, <1>6

LEMMA TickRefined ==
  ASSUME TypeOK, Tick
  PROVE  UNCHANGED Seen
  <1>1. \A u \in Unit :
          /\ DOMAIN timers'[u] = DOMAIN timers[u]
          /\ \A i \in DOMAIN timers[u] :
               /\ timers'[u][i].rvector = timers[u][i].rvector
               /\ timers'[u][i].crashed = timers[u][i].crashed
    <2> TAKE u \in Unit
    <2>1. timers[u] \in Seq(Timer)
      BY DEF TypeOK
    <2>2. timers'[u] = [i \in DOMAIN timers[u] |-> Sooner(timers[u][i])]
      BY DEF Tick
    <2>3. \A i \in DOMAIN timers[u] : timers[u][i] \in Timer
      BY <2>1
    <2> QED
      BY <2>2, <2>3 DEF Sooner, Timer
  <1>2. UNCHANGED <<rvector, equeue, phase>>
    BY DEF Tick
  <1>3. Watched' = Watched
    BY <1>1, <1>2 DEF Watched
  <1> QED
    BY <1>2, <1>3 DEF Seen, Todo

(* The executor takes what was scheduled first.                              *)
LEMMA ActRefined ==
  ASSUME TypeOK, NEW f \in Faults, ExecutorStep(f)
  PROVE  Promise!Act
  <1>1. /\ equeue # <<>> /\ equeue' = Tail(equeue)
        /\ UNCHANGED <<rvector, timers>>
        /\ phase # "down" /\ phase' # "down"
    BY DEF ExecutorStep, ExecutorTakes, SystemRequest,
           do_process_service_restart_event, do_process_service_reset_data_event,
           do_process_service_disable_event, do_process_context_restart_event,
           do_process_platform_restart_event, do_process_factory_reset_event
  <1>2. Watched' = Watched
    BY <1>1 DEF Watched
  <1> QED
    BY <1>1, <1>2, TodoTail DEF Promise!Act

LEMMA EndRefined ==
  ASSUME ProcessEnds, phase # "down"
  PROVE  Promise!Ends
  <1>1. /\ phase' = "down" /\ equeue' = <<>> /\ timers' = [u \in Unit |-> <<>>]
    BY DEF ProcessEnds
  <1>2. Watched' = {} /\ Todo' = <<>>
    BY <1>1 DEF Watched, Todo
  <1> QED
    BY <1>1, <1>2 DEF Promise!Ends

LEMMA ExitRefined ==
  ASSUME Exits
  PROVE  Promise!Stop
  BY EndRefined DEF Exits, Promise!Stop

(* A kill inside the crash handler: the failure is counted, and no more.     *)
LEMMA KillRefined ==
  ASSUME OnlyTimersReset, TypeOK, NEW u \in Unit, KilledInHandler(u)
  PROVE  Promise!FailureUnfinished(u)
  <1>1. rvector[u] + 1 \in Nat
    BY DEF TypeOK
  <1>2. ~Zeroing(service_action(u, rvector[u] + 1),
                 action_reset_after(u, rvector[u] + 1))
    <2>1. \A f : ~Zeroing(service_action(u, rvector[u] + 1),
                         action_reset_after(u, rvector[u] + 1) /\ f # "flag")
      BY <1>1, NotZeroing
    <2>2. "none" # "flag"
      OBVIOUS
    <2> QED
      BY <2>1, <2>2 DEF Zeroing
  <1>3. rvector' = [rvector EXCEPT ![u] = rvector[u] + 1]
    BY <1>2, KillCounts
  <1>4. Promise!Ends
    BY EndRefined DEF KilledInHandler
  <1> QED
    BY <1>3, <1>4 DEF Promise!FailureUnfinished

(* A new process watches what it finds raised.                               *)
LEMMA StartRefined ==
  ASSUME TypeOK, NEW f \in Faults, Starts(f)
  PROVE  Promise!Start
  <1> DEFINE raised == {u \in Unit : rvector[u] > 0 /\ RelaxTime[u] > 0}
  <1>1. /\ phase = "down" /\ phase' = "running"
        /\ UNCHANGED <<rvector, equeue>>
    BY DEF Starts
  <1>2. PICK started \in SUBSET raised :
          /\ started = raised \/ f \in {"relaxing", "timer"}
          /\ timers' = [u \in Unit |-> IF u \in started
                                       THEN <<NewTimer(u, rvector[u])>> ELSE <<>>]
    BY StartedTimers
  <1>3. ASSUME NEW u \in Unit
        PROVE  u \in Watched' <=> u \in started
    <2>1. CASE u \in started
      <3>1. timers'[u] = <<NewTimer(u, rvector[u])>>
        BY <1>2, <2>1
      <3>2. /\ 1 \in DOMAIN timers'[u] /\ timers'[u][1].rvector = rvector'[u]
            /\ ~timers'[u][1].crashed
        BY <1>1, <3>1 DEF NewTimer
      <3> QED
        BY <2>1, <3>2 DEF Watched
    <2>2. CASE u \notin started
      <3>1. timers'[u] = <<>>
        BY <1>2, <2>2
      <3> QED
        BY <2>2, <3>1 DEF Watched
    <2> QED
      BY <2>1, <2>2
  <1>4. Watched' = started
    BY <1>3 DEF Watched
  <1>5. raised = {u \in {v \in Unit : RelaxTime[v] > 0} : rvector[u] > 0}
    OBVIOUS
  <1>6. started = raised \/ "watch" \in Missing
    BY <1>2 DEF Missing
  <1>7. Todo' = Todo
    BY <1>1 DEF Todo
  <1> HIDE DEF raised
  <1> QED
    BY <1>1, <1>2, <1>4, <1>5, <1>6, <1>7 DEF Promise!Start

LEMMA PromiseStep ==
  ASSUME OnlyTimersReset, Faults \cap {"lookup", "increment"} = {},
         TypeOK, TimersFit, [Next]_vars
  PROVE  [Promise!Next]_Seen
  <1>1. ASSUME NEW f \in Faults, DispatcherStep(f)
        PROVE  [Promise!Next]_Seen
    <2>1. Head(dqueue) \in DEvent /\ phase # "down" /\ phase' # "down"
      BY <1>1, QueueTypes DEF DispatcherStep, TypeOK
    <2>2. Head(dqueue).service \in Service /\ f \notin {"lookup", "increment"}
      BY <2>1 DEF DEvent
    <2>3. (phase # "down")' = (phase # "down")
      BY <2>1
    <2>4. CASE /\ Head(dqueue).service \in Unit
               /\ do_process_service_crash_event(Head(dqueue).service, f)
      BY <2>1, <2>2, <2>4, CrashRefined DEF Promise!Next
    <2>5. CASE UNCHANGED <<rvector, equeue, timers>>
      BY <2>3, <2>5 DEF Seen, Watched, Todo
    <2>6. CASE /\ Head(dqueue).service \notin Unit
               /\ do_process_service_crash_event(Head(dqueue).service, f)
      BY <2>5, <2>6 DEF do_process_service_crash_event, CrashUncounted,
                        CrashWithoutAction, CrashHandled
    <2> QED
      BY <1>1, <2>4, <2>5, <2>6 DEF DispatcherStep
  <1>2. ASSUME NEW f \in Faults, ExecutorStep(f)
        PROVE  [Promise!Next]_Seen
    BY <1>2, ActRefined DEF Promise!Next
  <1>3. ASSUME NEW u \in Unit, NEW f \in Faults, RelaxTimerExpires(u, f)
        PROVE  [Promise!Next]_Seen
    <2>1. PICK i \in DOMAIN timers[u] : relaxtimer_callback(u, i, f)
      BY <1>3 DEF RelaxTimerExpires
    <2> QED
      BY <2>1, ExpiryRefined DEF Promise!Next
  <1>4. CASE Tick
    BY <1>4, TickRefined
  <1>5. CASE Exits
    BY <1>5, ExitRefined DEF Promise!Next
  <1>6. ASSUME NEW f \in Faults, Starts(f)
        PROVE  [Promise!Next]_Seen
    BY <1>6, StartRefined DEF Promise!Next
  <1>7. ASSUME NEW u \in Unit, KilledInHandler(u)
        PROVE  [Promise!Next]_Seen
    BY <1>7, KillRefined DEF Promise!Next
  <1>8. CASE UNCHANGED <<rvector, timers, equeue, phase>>
    BY <1>8 DEF Seen, Watched, Todo
  <1>9. \/ \E f \in Faults : DispatcherStep(f) \/ ExecutorStep(f)
        \/ \E u \in Unit, f \in Faults : RelaxTimerExpires(u, f)
        \/ Tick \/ Exits
        \/ \E u \in Unit : KilledInHandler(u)
        \/ \E f \in Faults : Starts(f)
        \/ UNCHANGED <<rvector, timers, equeue, phase>>
    BY DEF Next, vars, ipc, systemd, ServiceFails, ServiceStarts, ServiceLeaves,
           PrimaryReads, PrimaryLost, on_properties_changed, Reboots
  <1> QED
    BY <1>1, <1>2, <1>3, <1>4, <1>5, <1>6, <1>7, <1>8, <1>9

(* On every set of ladders that only timers reset, in both run modes, with   *)
(* any other query or call failing, under kills and restarts: what an        *)
(* instance does to its services is the escalation README.md describes. It   *)
(* needs every crash counted: a timer that expires after an uncounted one    *)
(* takes a unit back that is not quiet.                                      *)
THEOREM ImplementsEscalation ==
  ASSUME OnlyTimersReset, Faults \cap {"lookup", "increment"} = {}
  PROVE  Spec => KeepsPromise
  <1>1. Init => TimersFit
    BY DEF Init, TimersFit, Fits
  <1>2. Init => Promise!Init
    BY DEF Init, Promise!Init, Watched, Todo
  <1>3. TypeOK /\ TimersFit /\ [Next]_vars => TimersFit'
    BY FitStep
  <1>4. TypeOK /\ TimersFit /\ [Next]_vars => [Promise!Next]_(Promise!vars)
    BY PromiseStep DEF Promise!vars, Seen
  <1> QED
    BY <1>1, <1>2, <1>3, <1>4, TypeCorrect, PTL DEF Spec, KeepsPromise, Promise!Spec

=============================================================================
