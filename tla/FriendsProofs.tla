---------------------------- MODULE FriendsProofs ----------------------------
(* Theorems about the calls a crash leads to, for any table, any news and    *)
(* whatever fails or is killed.                                              *)
EXTENDS Friends, SequenceLemmas

-----------------------------------------------------------------------------
(* Where a sequence has the elements of a set, if anywhere.                  *)

Places(q, V) == {k \in DOMAIN q : q[k] \in V}
None(q, V) == Places(q, V) = {}
One(q, V) == \E k : Places(q, V) = {k}

LEMMA PlacesEmpty ==
  ASSUME NEW V
  PROVE  None(<<>>, V)
  BY DEF None, Places

LEMMA PlacesSame ==
  ASSUME NEW p, NEW q, NEW V, DOMAIN p = DOMAIN q,
         \A k \in DOMAIN q : p[k] \in V <=> q[k] \in V
  PROVE  (None(q, V) => None(p, V)) /\ (One(q, V) => One(p, V))
  <1>1. Places(p, V) = Places(q, V)
    BY DEF Places
  <1> QED
    BY <1>1 DEF None, One

LEMMA PlacesConcat ==
  ASSUME NEW S, NEW q \in Seq(S), NEW more \in Seq(S), NEW V
  PROVE  /\ None(q, V) /\ None(more, V) => None(q \o more, V)
         /\ One(q, V) /\ None(more, V) => One(q \o more, V)
         /\ None(q, V) /\ One(more, V) => One(q \o more, V)
  <1> DEFINE n == Len(q)
             m == Len(more)
             all == q \o more
  <1>1. /\ n \in Nat /\ m \in Nat /\ DOMAIN q = 1 .. n /\ DOMAIN more = 1 .. m
        /\ DOMAIN all = 1 .. n + m
        /\ \A k \in 1 .. n + m : all[k] = IF k <= n THEN q[k] ELSE more[k - n]
    BY LenProperties, ConcatProperties
  <1> HIDE DEF n, m, all
  <1>2. \A k \in 1 .. n : k \in Places(all, V) <=> k \in Places(q, V)
    BY <1>1 DEF Places
  <1>3. \A k \in 1 .. m : n + k \in Places(all, V) <=> k \in Places(more, V)
    <2> SUFFICES ASSUME NEW k \in 1 .. m
                 PROVE  n + k \in Places(all, V) <=> k \in Places(more, V)
      OBVIOUS
    <2>1. n + k \in 1 .. n + m /\ ~(n + k <= n) /\ (n + k) - n = k
      BY <1>1
    <2>2. all[n + k] = more[k]
      BY <1>1, <2>1
    <2> QED
      BY <1>1, <2>1, <2>2 DEF Places
  <1>4. \A k \in Places(all, V) : k \in 1 .. n \/ \E j \in 1 .. m : k = n + j
    <2> SUFFICES ASSUME NEW k \in Places(all, V), k \notin 1 .. n
                 PROVE  \E j \in 1 .. m : k = n + j
      OBVIOUS
    <2>1. k \in 1 .. n + m
      BY <1>1 DEF Places
    <2>2. k - n \in 1 .. m /\ k = n + (k - n)
      BY <1>1, <2>1
    <2> QED
      BY <2>2
  <1>5. Places(q, V) \subseteq 1 .. n /\ Places(more, V) \subseteq 1 .. m
    BY <1>1 DEF Places
  <1>6. ASSUME None(q, V), None(more, V)
        PROVE  None(all, V)
    BY <1>2, <1>3, <1>4, <1>6 DEF None
  <1>7. ASSUME One(q, V), None(more, V)
        PROVE  One(all, V)
    <2>1. PICK k : Places(q, V) = {k}
      BY <1>7 DEF One
    <2>2. Places(all, V) = {k}
      BY <1>2, <1>3, <1>4, <1>5, <1>7, <2>1 DEF None
    <2> QED
      BY <2>2 DEF One
  <1>8. ASSUME None(q, V), One(more, V)
        PROVE  One(all, V)
    <2>1. PICK k : Places(more, V) = {k}
      BY <1>8 DEF One
    <2>2. k \in 1 .. m
      BY <1>5, <2>1
    <2>3. n + k \in Places(all, V)
      BY <1>3, <2>1, <2>2
    <2>4. ASSUME NEW j \in Places(all, V)
          PROVE  j = n + k
      <3>1. j \notin 1 .. n
        BY <1>2, <1>8, <2>4 DEF None
      <3>2. PICK i \in 1 .. m : j = n + i
        BY <1>4, <2>4, <3>1
      <3>3. i \in Places(more, V)
        BY <1>3, <2>4, <3>2
      <3> QED
        BY <2>1, <3>2, <3>3
    <2>5. Places(all, V) = {n + k}
      BY <2>3, <2>4
    <2> QED
      BY <2>5 DEF One
  <1> QED
    BY <1>6, <1>7, <1>8 DEF all

LEMMA PlacesAppend ==
  ASSUME NEW S, NEW q \in Seq(S), NEW x \in S, NEW V
  PROVE  /\ x \notin V => /\ None(q, V) => None(Append(q, x), V)
                          /\ One(q, V) => One(Append(q, x), V)
         /\ x \in V /\ None(q, V) => One(Append(q, x), V)
  <1> DEFINE n == Len(q) + 1
             long == Append(q, x)
  <1>1. /\ DOMAIN q = 1 .. Len(q) /\ Len(q) \in Nat
        /\ DOMAIN long = 1 .. n /\ long[n] = x
        /\ \A i \in 1 .. Len(q) : long[i] = q[i]
    BY LenProperties, AppendProperties
  <1>2. /\ n \notin DOMAIN q /\ DOMAIN long = DOMAIN q \cup {n} /\ long[n] = x
        /\ \A i \in DOMAIN q : long[i] = q[i]
    BY <1>1
  <1> HIDE DEF long, n
  <1>3. x \notin V => Places(long, V) = Places(q, V)
    BY <1>2 DEF Places
  <1>4. x \in V => Places(long, V) = Places(q, V) \cup {n}
    BY <1>2 DEF Places
  <1>5. x \in V /\ None(q, V) => Places(long, V) = {n}
    BY <1>4 DEF None
  <1> QED
    BY <1>3, <1>5 DEF None, One, long

LEMMA PlacesTail ==
  ASSUME NEW S, NEW q \in Seq(S), q # <<>>, NEW V
  PROVE  /\ None(q, V) => None(Tail(q), V) /\ Head(q) \notin V
         /\ One(q, V) /\ Head(q) \in V => None(Tail(q), V)
         /\ One(q, V) /\ Head(q) \notin V => One(Tail(q), V)
  <1> DEFINE rest == Tail(q)
             first == Head(q)
  <1>1. /\ Len(q) \in Nat /\ Len(q) # 0 /\ DOMAIN q = 1 .. Len(q)
        /\ rest \in Seq(S) /\ Len(rest) = Len(q) - 1 /\ first = q[1]
        /\ \A k \in 1 .. Len(q) - 1 : rest[k] = q[k + 1]
    BY LenProperties, EmptySeq, HeadTailProperties
  <1>2. DOMAIN rest = 1 .. Len(q) - 1
    BY <1>1, LenProperties
  <1> HIDE DEF rest, first
  <1>3. \A i \in DOMAIN rest : i \in Places(rest, V) <=> i + 1 \in Places(q, V)
    BY <1>1, <1>2 DEF Places
  <1>4. 1 \in Places(q, V) <=> first \in V
    BY <1>1 DEF Places
  <1>5. Places(rest, V) \subseteq DOMAIN rest /\ Places(q, V) \subseteq DOMAIN q
    BY DEF Places
  <1>6. None(q, V) => None(rest, V) /\ first \notin V
    BY <1>3, <1>4, <1>5 DEF None
  <1>7. ASSUME One(q, V), first \in V
        PROVE  None(rest, V)
    <2>1. Places(q, V) = {1}
      BY <1>4, <1>7 DEF One
    <2>2. \A i \in DOMAIN rest : i + 1 # 1
      BY <1>2
    <2> QED
      BY <1>3, <1>5, <2>1, <2>2 DEF None
  <1>8. ASSUME One(q, V), first \notin V
        PROVE  One(rest, V)
    <2>1. PICK i : Places(q, V) = {i}
      BY <1>8 DEF One
    <2>2. i # 1 /\ i \in DOMAIN q
      BY <1>4, <1>5, <1>8, <2>1
    <2>3. i - 1 \in DOMAIN rest /\ (i - 1) + 1 = i
      BY <1>1, <1>2, <2>2
    <2>4. \A j \in DOMAIN rest : j + 1 = i => j = i - 1
      BY <1>2
    <2>5. Places(rest, V) = {i - 1}
      BY <1>3, <1>5, <2>1, <2>3, <2>4
    <2> QED
      BY <2>5 DEF One
  <1> QED
    BY <1>6, <1>7, <1>8 DEF rest, first

LEMMA ConcatElements ==
  ASSUME NEW S, NEW q \in Seq(S), NEW more \in Seq(S)
  PROVE  /\ q \o more \in Seq(S)
         /\ \A k \in DOMAIN (q \o more) :
              \/ k \in DOMAIN q /\ (q \o more)[k] = q[k]
              \/ \E j \in DOMAIN more : (q \o more)[k] = more[j] /\ k = Len(q) + j
  <1> DEFINE n == Len(q)
             m == Len(more)
             all == q \o more
  <1>1. /\ n \in Nat /\ m \in Nat /\ DOMAIN q = 1 .. n /\ DOMAIN more = 1 .. m
        /\ all \in Seq(S) /\ DOMAIN all = 1 .. n + m
        /\ \A k \in 1 .. n + m : all[k] = IF k <= n THEN q[k] ELSE more[k - n]
    BY LenProperties, ConcatProperties
  <1> HIDE DEF n, m, all
  <1>2. ASSUME NEW k \in DOMAIN all, k \notin DOMAIN q
        PROVE  \E j \in DOMAIN more : all[k] = more[j] /\ k = n + j
    <2>1. k - n \in 1 .. m /\ k = n + (k - n) /\ all[k] = more[k - n]
      BY <1>1, <1>2
    <2> QED
      BY <1>1, <2>1
  <1>3. \A k \in DOMAIN all : k \in DOMAIN q => all[k] = q[k]
    BY <1>1
  <1> QED
    BY <1>1, <1>2, <1>3 DEF all, n

(* What is left when one element is removed keeps its order.                 *)
LeftBy(rest, q, i, from) ==
  /\ from \in [DOMAIN rest -> DOMAIN q \ {i}]
  /\ \A k \in DOMAIN rest : rest[k] = q[from[k]]
  /\ \A j, k \in DOMAIN rest : j < k <=> from[j] < from[k]
  /\ \A j \in DOMAIN q \ {i} : \E k \in DOMAIN rest : from[k] = j

LEMMA RemovedFrom ==
  ASSUME NEW S, NEW q \in Seq(S), NEW i \in DOMAIN q
  PROVE  RemoveAt(q, i) \in Seq(S) /\ \E from : LeftBy(RemoveAt(q, i), q, i, from)
  <1> DEFINE rest == RemoveAt(q, i)
             from == [k \in DOMAIN rest |-> IF k < i THEN k ELSE k + 1]
  <1>1. /\ rest \in Seq(S) /\ Len(rest) = Len(q) - 1
        /\ \A k \in 1 .. Len(q) - 1 : rest[k] = IF k < i THEN q[k] ELSE q[k + 1]
    <2>1. i \in 1 .. Len(q)
      BY LenProperties
    <2> QED
      BY <2>1, RemoveAtProperties
  <1>2. /\ DOMAIN q = 1 .. Len(q) /\ Len(q) \in Nat
        /\ DOMAIN rest = 1 .. Len(q) - 1
    BY <1>1, LenProperties
  <1> HIDE DEF rest
  <1>3. from \in [DOMAIN rest -> DOMAIN q \ {i}]
    BY <1>2
  <1>4. \A k \in DOMAIN rest : rest[k] = q[from[k]]
    BY <1>1, <1>2
  <1>5. \A j, k \in DOMAIN rest : j < k <=> from[j] < from[k]
    BY <1>2
  <1>6. ASSUME NEW j \in DOMAIN q \ {i}
        PROVE  \E k \in DOMAIN rest : from[k] = j
    <2>1. CASE j < i
      <3>1. j \in DOMAIN rest /\ from[j] = j
        BY <1>2, <2>1
      <3> QED
        BY <3>1
    <2>2. CASE ~(j < i)
      <3>1. j - 1 \in DOMAIN rest /\ from[j - 1] = j
        BY <1>2, <2>2
      <3> QED
        BY <3>1
    <2> QED
      BY <2>1, <2>2
  <1> HIDE DEF from
  <1> QED
    BY <1>1, <1>3, <1>4, <1>5, <1>6 DEF LeftBy, rest

LEMMA PlacesRemoved ==
  ASSUME NEW S, NEW q \in Seq(S), NEW i \in DOMAIN q, NEW V
  PROVE  /\ None(q, V) => None(RemoveAt(q, i), V) /\ q[i] \notin V
         /\ One(q, V) /\ q[i] \in V => None(RemoveAt(q, i), V)
         /\ One(q, V) /\ q[i] \notin V => One(RemoveAt(q, i), V)
  <1> DEFINE rest == RemoveAt(q, i)
  <1>1. PICK from : LeftBy(rest, q, i, from)
    BY RemovedFrom
  <1>2. DOMAIN rest \subseteq Int /\ DOMAIN q \subseteq Int
    <2>1. rest \in Seq(S)
      BY RemovedFrom
    <2> HIDE DEF rest
    <2> QED
      BY <2>1, LenProperties
  <1> HIDE DEF rest
  <1>3. \A j, k \in DOMAIN rest : from[j] = from[k] => j = k
    BY <1>1, <1>2 DEF LeftBy
  <1>4. \A k \in DOMAIN rest : /\ k \in Places(rest, V) <=> from[k] \in Places(q, V)
                               /\ from[k] # i
    BY <1>1 DEF LeftBy, Places
  <1>5. Places(rest, V) \subseteq DOMAIN rest /\ Places(q, V) \subseteq DOMAIN q
    BY DEF Places
  <1>6. i \in Places(q, V) <=> q[i] \in V
    BY DEF Places
  <1>7. None(q, V) => None(rest, V) /\ q[i] \notin V
    BY <1>4, <1>5, <1>6 DEF None
  <1>8. ASSUME One(q, V), q[i] \in V
        PROVE  None(rest, V)
    <2>1. Places(q, V) = {i}
      BY <1>6, <1>8 DEF One
    <2> QED
      BY <1>4, <1>5, <2>1 DEF None
  <1>9. ASSUME One(q, V), q[i] \notin V
        PROVE  One(rest, V)
    <2>1. PICK j : Places(q, V) = {j}
      BY <1>9 DEF One
    <2>2. j \in DOMAIN q \ {i}
      BY <1>5, <1>6, <1>9, <2>1
    <2>3. PICK k \in DOMAIN rest : from[k] = j
      BY <1>1, <2>2 DEF LeftBy
    <2>4. Places(rest, V) = {k}
      BY <1>3, <1>4, <1>5, <2>1, <2>3
    <2> QED
      BY <2>4 DEF One
  <1> QED
    BY <1>7, <1>8, <1>9 DEF rest

-----------------------------------------------------------------------------
(* The types, and that nothing is about a crash that was not heard of.       *)

Known ==
  /\ TypeOK
  /\ \A k \in DOMAIN timers : timers[k].crash \in DOMAIN heard
  /\ \A k \in DOMAIN calls : calls[k].crash \in DOMAIN heard
  /\ \A w \in lost : w.crash \in DOMAIN heard

LEMMA RowIds ==
  /\ RowId \in SUBSET Nat /\ IsFiniteSet(RowId)
  /\ \A r \in RowId : Table[r] \in Row /\ Table[r].delay \in Nat
  <1>1. /\ Table \in Seq(Row) /\ Len(Table) \in Nat /\ RowId = 1 .. Len(Table)
        /\ \A r \in RowId : Table[r] \in Row
    <2> HIDE DEF Row
    <2> QED
      BY TableType, LenProperties DEF RowId
  <1>2. IsFiniteSet(RowId)
    BY <1>1, FS_Interval
  <1>3. \A r \in RowId : Table[r].delay \in Nat
    BY <1>1 DEF Row
  <1> QED
    BY <1>1, <1>2, <1>3

(* The rows that match a crash, each once and in the table's order.          *)
LEMMA FoundProperties ==
  ASSUME NEW c \in Nat, heard[c] \in News
  PROVE  LET found == foreach_service_friend(c)
         IN /\ found \in Seq(Timer)
            /\ \A k \in DOMAIN found :
                 /\ found[k] \in Timer /\ found[k].crash = c
                 /\ Matches(Table[found[k].row], heard[c])
                 /\ found[k].left = Table[found[k].row].delay
            /\ \A j, k \in DOMAIN found : j < k => found[j].row < found[k].row
            /\ \A r \in RowId : Matches(Table[r], heard[c]) =>
                 \E k \in DOMAIN found : found[k].row = r
  <1> DEFINE S == {i \in RowId : Matches(Table[i], heard[c])}
             order == Ascending(S)
             found == [k \in DOMAIN order |->
                         [crash |-> c, row |-> order[k], left |-> Table[order[k]].delay]]
  <1>1. found = foreach_service_friend(c)
    BY DEF foreach_service_friend, services_for_friend
  <1>2. S \in SUBSET Nat /\ IsFiniteSet(S) /\ S \subseteq RowId
    <2>1. S \in SUBSET RowId
      OBVIOUS
    <2>2. IsFiniteSet(S)
      BY <2>1, RowIds, FS_Subset
    <2> QED
      BY <2>1, <2>2, RowIds
  <1>3. /\ order \in Seq(S)
        /\ \A j, k \in DOMAIN order : j < k => order[j] < order[k]
        /\ \A x \in S : \E k \in DOMAIN order : order[k] = x
    BY <1>2, AscendingProperties
  <1>4. \A r \in S : r \in RowId /\ Matches(Table[r], heard[c])
    OBVIOUS
  <1>5. \A r \in RowId : Matches(Table[r], heard[c]) => r \in S
    OBVIOUS
  <1> HIDE DEF S, order
  <1>6. DOMAIN order = 1 .. Len(order) /\ Len(order) \in Nat
        /\ \A k \in DOMAIN order : order[k] \in S
    BY <1>3, LenProperties
  <1>7. /\ DOMAIN found = DOMAIN order
        /\ \A k \in DOMAIN order :
             /\ found[k].crash = c /\ found[k].row = order[k]
             /\ found[k].left = Table[order[k]].delay
             /\ found[k] = [crash |-> c, row |-> order[k], left |-> Table[order[k]].delay]
    OBVIOUS
  <1>8. \A k \in DOMAIN found : found[k] \in Timer
    BY <1>4, <1>6, <1>7, RowIds DEF Timer
  <1>9. found \in Seq(Timer)
    <2>1. found = [k \in 1 .. Len(order) |-> found[k]]
      BY <1>6
    <2> HIDE DEF found, Timer
    <2> QED
      BY <1>6, <1>7, <1>8, <2>1
  <1> HIDE DEF found
  <1>10. /\ \A k \in DOMAIN found :
              /\ found[k] \in Timer /\ found[k].crash = c
              /\ Matches(Table[found[k].row], heard[c])
              /\ found[k].left = Table[found[k].row].delay
         /\ \A j, k \in DOMAIN found : j < k => found[j].row < found[k].row
    BY <1>3, <1>4, <1>6, <1>7, <1>8
  <1>11. \A r \in RowId : Matches(Table[r], heard[c]) =>
           \E k \in DOMAIN found : found[k].row = r
    BY <1>3, <1>5, <1>7
  <1> QED
    BY <1>1, <1>9, <1>10, <1>11

LEMMA HeardTyped ==
  ASSUME TypeOK, NEW c \in DOMAIN heard
  PROVE  c \in Nat /\ heard[c] \in News
  BY LenProperties DEF TypeOK

(* The crash at the head of a queue.                                         *)
LEMMA HeadTyped ==
  ASSUME NEW S, NEW q \in Seq(S), q # <<>>
  PROVE  Head(q) \in S /\ Tail(q) \in Seq(S)
  BY HeadTailProperties

LEMMA KnownInit == Init => Known
  <1> SUFFICES ASSUME Init
               PROVE  Known
    OBVIOUS
  <1>1. /\ heard \in Seq(News) /\ dqueue \in Seq(DOMAIN heard) /\ equeue \in Seq(DOMAIN heard)
        /\ timers \in Seq(Timer) /\ calls \in Seq(Call)
    BY EmptySeq DEF Init
  <1>2. DOMAIN timers = {} /\ DOMAIN calls = {} /\ lost = {}
    BY DEF Init
  <1> QED
    BY <1>1, <1>2 DEF Init, Known, TypeOK

LEMMA TickMeans ==
  ASSUME TypeOK, Tick
  PROVE  /\ timers' \in Seq(Timer) /\ DOMAIN timers' = DOMAIN timers
         /\ \A i \in DOMAIN timers :
              /\ timers'[i].crash = timers[i].crash /\ timers'[i].row = timers[i].row
              /\ timers'[i].left = IF timers[i].left > 0 THEN timers[i].left - 1
                                   ELSE timers[i].left
  <1> DEFINE t(i) == Sooner(timers[i])
  <1>1. timers \in Seq(Timer) /\ timers' = [i \in DOMAIN timers |-> t(i)]
    BY DEF Tick, TypeOK
  <1>2. ASSUME NEW i \in DOMAIN timers
        PROVE  /\ t(i) \in Timer
               /\ t(i).crash = timers[i].crash /\ t(i).row = timers[i].row
               /\ t(i).left = IF timers[i].left > 0 THEN timers[i].left - 1
                              ELSE timers[i].left
    <2>1. timers[i] \in Timer
      <3> HIDE DEF Timer
      <3> QED
        BY <1>1, LenProperties
    <2> QED
      BY <2>1 DEF Sooner, Timer
  <1>3. DOMAIN timers = 1 .. Len(timers) /\ Len(timers) \in Nat
    BY <1>1, LenProperties
  <1> HIDE DEF t, Timer
  <1>4. [i \in DOMAIN timers |-> t(i)] \in Seq(Timer)
    BY <1>2, <1>3
  <1> QED
    BY <1>1, <1>2, <1>4

LEMMA KnownStep == Known /\ [Next]_vars => Known'
  <1> SUFFICES ASSUME Known, [Next]_vars
               PROVE  Known'
    OBVIOUS
  <1>0. TypeOK
    BY DEF Known
  <1>1. ASSUME NEW n \in News, Heard(n)
        PROVE  Known'
    <2>1. /\ heard \in Seq(News) /\ heard' = Append(heard, n)
          /\ dqueue' = Append(dqueue, Len(heard'))
          /\ UNCHANGED <<equeue, timers, proxy, phase, calls, lost>>
      BY <1>0, <1>1 DEF Heard, TypeOK
    <2>2. heard' \in Seq(News) /\ DOMAIN heard \subseteq DOMAIN heard' /\ Len(heard') \in DOMAIN heard'
      BY <2>1, LenProperties, AppendProperties
    <2>3. dqueue \in Seq(DOMAIN heard') /\ equeue \in Seq(DOMAIN heard')
      BY <1>0, <2>2, SeqGrows DEF TypeOK
    <2>4. dqueue' \in Seq(DOMAIN heard')
      BY <2>1, <2>2, <2>3, AppendProperties
    <2> HIDE DEF Timer, Call
    <2> QED
      BY <1>0, <2>1, <2>2, <2>3, <2>4 DEF TypeOK, Known
  <1>2. CASE DispatcherStep
    <2>1. /\ dqueue \in Seq(DOMAIN heard) /\ dqueue # <<>> /\ dqueue' = Tail(dqueue)
          /\ equeue \in Seq(DOMAIN heard)
          /\ equeue' \in {equeue, Append(equeue, Head(dqueue))}
          /\ UNCHANGED <<timers, proxy, phase, heard, calls, lost>>
      BY <1>0, <1>2 DEF DispatcherStep, TypeOK
    <2>2. Head(dqueue) \in DOMAIN heard /\ dqueue' \in Seq(DOMAIN heard)
      BY <2>1, HeadTyped
    <2>3. equeue' \in Seq(DOMAIN heard)
      BY <2>1, <2>2, AppendProperties
    <2> HIDE DEF Timer, Call
    <2> QED
      BY <1>0, <2>1, <2>2, <2>3 DEF TypeOK, Known
  <1>3. ASSUME NEW ok \in BOOLEAN, do_process_friend_crash_event(ok)
        PROVE  Known'
    <2> DEFINE c == Head(equeue)
               found == foreach_service_friend(c)
    <2>1. /\ equeue \in Seq(DOMAIN heard) /\ equeue # <<>> /\ equeue' = Tail(equeue)
          /\ timers' \in {timers, timers \o found}
          /\ lost' \in {lost, lost \cup {[crash |-> c, row |-> found[k].row] :
                                         k \in DOMAIN found}}
          /\ UNCHANGED <<dqueue, proxy, phase, heard, calls>>
      BY <1>0, <1>3 DEF do_process_friend_crash_event, TypeOK
    <2>2. c \in DOMAIN heard /\ equeue' \in Seq(DOMAIN heard)
      BY <2>1, HeadTyped
    <2>3. c \in Nat /\ heard[c] \in News
      BY <1>0, <2>2, HeardTyped
    <2>4. /\ found \in Seq(Timer)
          /\ \A k \in DOMAIN found : found[k] \in Timer /\ found[k].crash = c
      BY <2>3, FoundProperties
    <2> HIDE DEF found, c
    <2>5. /\ timers' \in Seq(Timer)
          /\ \A k \in DOMAIN timers' : timers'[k].crash \in DOMAIN heard
      <3>1. CASE timers' = timers
        BY <1>0, <3>1 DEF Known, TypeOK
      <3>2. CASE timers' = timers \o found
        <4>1. timers \in Seq(Timer)
          BY <1>0 DEF TypeOK
        <4>2. /\ timers' \in Seq(Timer)
              /\ \A k \in DOMAIN timers' : \/ k \in DOMAIN timers /\ timers'[k] = timers[k]
                                           \/ \E j \in DOMAIN found : timers'[k] = found[j]
          BY <2>4, <3>2, <4>1, ConcatElements
        <4> QED
          BY <2>2, <2>4, <4>2 DEF Known
      <3> QED
        BY <2>1, <3>1, <3>2
    <2>6. lost' \subseteq Call /\ \A w \in lost' : w.crash \in DOMAIN heard
      <3>1. \A k \in DOMAIN found : [crash |-> c, row |-> found[k].row] \in Call
        BY <2>3, <2>4 DEF Timer, Call
      <3>2. lost \subseteq Call /\ \A w \in lost : w.crash \in DOMAIN heard
        BY <1>0 DEF Known, TypeOK
      <3> HIDE DEF Call
      <3> QED
        BY <2>1, <2>2, <3>1, <3>2
    <2> HIDE DEF Timer, Call
    <2> QED
      BY <1>0, <2>1, <2>2, <2>5, <2>6 DEF TypeOK, Known
  <1>4. ASSUME NEW ok \in BOOLEAN, rmg_executor_set_proxy(ok)
        PROVE  Known'
    BY <1>0, <1>4 DEF rmg_executor_set_proxy, TypeOK, Known
  <1>5. ASSUME NEW i \in DOMAIN timers, friendtimer_callback(i)
        PROVE  Known'
    <2> DEFINE call == [crash |-> timers[i].crash, row |-> timers[i].row]
    <2>1. /\ timers \in Seq(Timer) /\ timers' = RemoveAt(timers, i)
          /\ \/ calls' = Append(calls, call) /\ lost' = lost
             \/ lost' = lost \cup {call} /\ calls' = calls
          /\ UNCHANGED <<dqueue, equeue, proxy, phase, heard>>
      BY <1>0, <1>5 DEF friendtimer_callback, Detached, TypeOK
    <2>2. call \in Call /\ call.crash \in DOMAIN heard
      <3>1. timers[i] \in Timer
        <4> HIDE DEF Timer
        <4> QED
          BY <2>1, LenProperties
      <3> QED
        BY <3>1 DEF Timer, Call, Known
    <2>3. /\ timers' \in Seq(Timer)
          /\ \A k \in DOMAIN timers' : timers'[k].crash \in DOMAIN heard
      <3>1. timers' \in Seq(Timer) /\ \E from : LeftBy(timers', timers, i, from)
        BY <2>1, RemovedFrom
      <3> QED
        BY <3>1 DEF LeftBy, Known
    <2> HIDE DEF call, Timer, Call
    <2>4. calls' \in Seq(Call) /\ \A k \in DOMAIN calls' : calls'[k].crash \in DOMAIN heard
      <3>1. calls \in Seq(Call)
        BY <1>0 DEF TypeOK
      <3>2. CASE calls' = calls
        BY <3>1, <3>2 DEF Known
      <3>3. CASE calls' = Append(calls, call)
        BY <2>2, <3>1, <3>3, AppendProperties, LenProperties DEF Known
      <3> QED
        BY <2>1, <3>2, <3>3
    <2>5. lost' \subseteq Call /\ \A w \in lost' : w.crash \in DOMAIN heard
      BY <1>0, <2>1, <2>2 DEF Known, TypeOK
    <2> QED
      BY <1>0, <2>1, <2>3, <2>4, <2>5 DEF TypeOK, Known
  <1>6. CASE Tick
    <2>1. UNCHANGED <<dqueue, equeue, proxy, phase, heard, calls, lost>>
      BY <1>6 DEF Tick
    <2>2. /\ timers' \in Seq(Timer) /\ DOMAIN timers' = DOMAIN timers
          /\ \A i \in DOMAIN timers : timers'[i].crash = timers[i].crash
      BY <1>0, <1>6, TickMeans
    <2> HIDE DEF Timer, Call
    <2> QED
      BY <1>0, <2>1, <2>2 DEF TypeOK, Known
  <1>7. CASE Stop
    <2>1. /\ phase' = "down" /\ proxy' = FALSE /\ lost' = lost \cup Waiting
          /\ dqueue' = <<>> /\ equeue' = <<>> /\ timers' = <<>>
          /\ UNCHANGED <<heard, calls>>
      BY <1>7 DEF Stop
    <2>2. /\ dqueue' \in Seq(DOMAIN heard) /\ equeue' \in Seq(DOMAIN heard)
          /\ timers' \in Seq(Timer) /\ DOMAIN timers' = {}
      BY <2>1, EmptySeq
    <2>3. \A w \in Waiting : w \in Call /\ w.crash \in DOMAIN heard
      <3>1. \A i \in DOMAIN timers : [crash |-> timers[i].crash, row |-> timers[i].row] \in Call
        <4>1. \A i \in DOMAIN timers : timers[i] \in Timer
          <5> HIDE DEF Timer
          <5> QED
            BY <1>0, LenProperties DEF TypeOK
        <4> QED
          BY <4>1 DEF Timer, Call
      <3>2. Range(dqueue) \subseteq DOMAIN heard /\ Range(equeue) \subseteq DOMAIN heard
        <4>1. dqueue \in Seq(DOMAIN heard) /\ equeue \in Seq(DOMAIN heard)
          BY <1>0 DEF TypeOK
        <4>2. /\ \A k \in DOMAIN dqueue : dqueue[k] \in DOMAIN heard
              /\ \A k \in DOMAIN equeue : equeue[k] \in DOMAIN heard
          BY <4>1, LenProperties
        <4> QED
          BY <4>2 DEF Range
      <3>3. DOMAIN heard \subseteq Nat
        BY <1>0, LenProperties DEF TypeOK
      <3>4. ASSUME NEW w \in [crash : Range(dqueue) \cup Range(equeue), row : RowId]
            PROVE  w \in Call /\ w.crash \in DOMAIN heard
        BY <3>2, <3>3 DEF Call
      <3> QED
        BY <3>1, <3>4 DEF Waiting, Known
    <2> HIDE DEF Timer, Call
    <2> QED
      BY <1>0, <2>1, <2>2, <2>3 DEF TypeOK, Known
  <1>8. CASE Start
    BY <1>0, <1>8 DEF Start, TypeOK, Known
  <1>9. CASE UNCHANGED vars
    BY <1>0, <1>9 DEF vars, TypeOK, Known
  <1> QED
    BY <1>1, <1>2, <1>3, <1>4, <1>5, <1>6, <1>7, <1>8, <1>9 DEF Next, FriendTimerExpires

(* Queues hold crashes that were heard of, timers and calls rows of the      *)
(* table, through failed queries, lost proxies and restarts.                 *)
THEOREM TypeCorrect == Spec => []TypeOK
  BY KnownInit, KnownStep, PTL DEF Spec, Known

-----------------------------------------------------------------------------
(* What became of a crash.                                                   *)

CallFor(c, r) == [crash |-> c, row |-> r]
TimersFor(c, r) == {t \in Timer : t.crash = c /\ t.row = r}

(* It waits in one queue and nothing was done for it, or it waits in none    *)
(* and each row that wants it was called, has a timer or lost its call.      *)
InQueue(c) ==
  \/ One(dqueue, {c}) /\ None(equeue, {c})
  \/ None(dqueue, {c}) /\ One(equeue, {c}) /\ ~OwnService(heard[c])
Untouched(c) ==
  \A r \in RowId : /\ None(calls, {CallFor(c, r)}) /\ None(timers, TimersFor(c, r))
                   /\ CallFor(c, r) \notin lost
OneOutcome(c, r) ==
  \/ One(calls, {CallFor(c, r)}) /\ None(timers, TimersFor(c, r)) /\ CallFor(c, r) \notin lost
  \/ None(calls, {CallFor(c, r)}) /\ One(timers, TimersFor(c, r)) /\ CallFor(c, r) \notin lost
  \/ None(calls, {CallFor(c, r)}) /\ None(timers, TimersFor(c, r)) /\ CallFor(c, r) \in lost
Settled(c) ==
  /\ None(dqueue, {c}) /\ None(equeue, {c})
  /\ \A r \in RowId :
       IF Wanted(Table[r], heard[c]) THEN OneOutcome(c, r)
       ELSE None(calls, {CallFor(c, r)}) /\ None(timers, TimersFor(c, r))
Stage(c) == (InQueue(c) /\ Untouched(c)) \/ Settled(c)
Stages == \A c \in DOMAIN heard : Stage(c)

LEMMA WantedIs ==
  ASSUME NEW r \in RowId, NEW n \in News
  PROVE  Wanted(Table[r], n) <=> Matches(Table[r], n) /\ ~OwnService(n)
  <1> DEFINE f == Table[r].friend
  <1>1. f \in Name
    BY RowIds DEF Row
  <1> HIDE DEF f
  <1>2. f = [subject |-> f.subject, spaced |-> f.spaced] /\ f.spaced \in BOOLEAN
    BY <1>1 DEF Name
  <1>3. f = [subject |-> n.subject, spaced |-> FALSE]
          <=> f.subject = n.subject /\ ~f.spaced
    <2>1. CASE f.subject = n.subject /\ ~f.spaced
      <3>1. f.spaced = FALSE
        BY <1>2, <2>1
      <3> QED
        BY <1>2, <2>1, <3>1
    <2>2. CASE f = [subject |-> n.subject, spaced |-> FALSE]
      BY <2>2
    <2> QED
      BY <2>1, <2>2
  <1> QED
    BY <1>3 DEF Wanted, Matches, OwnService, f

(* A step that does nothing about a crash.                                   *)
KeepsAs(p, q, V) == (None(q, V) => None(p, V)) /\ (One(q, V) => One(p, V))
Passes(c) ==
  /\ heard'[c] = heard[c]
  /\ KeepsAs(dqueue', dqueue, {c}) /\ KeepsAs(equeue', equeue, {c})
  /\ \A r \in RowId : /\ KeepsAs(calls', calls, {CallFor(c, r)})
                      /\ KeepsAs(timers', timers, TimersFor(c, r))
                      /\ CallFor(c, r) \in lost' <=> CallFor(c, r) \in lost

LEMMA PassesKeeps ==
  ASSUME NEW c, Stage(c), Passes(c)
  PROVE  Stage(c)'
  <1>1. CASE InQueue(c) /\ Untouched(c)
    <2>1. InQueue(c)'
      BY <1>1 DEF InQueue, Passes, KeepsAs
    <2>2. Untouched(c)'
      BY <1>1 DEF Untouched, Passes, KeepsAs
    <2> QED
      BY <2>1, <2>2 DEF Stage
  <1>2. CASE Settled(c)
    <2>1. None(dqueue', {c}) /\ None(equeue', {c})
      BY <1>2 DEF Settled, Passes, KeepsAs
    <2>2. ASSUME NEW r \in RowId
          PROVE  IF Wanted(Table[r], heard'[c]) THEN OneOutcome(c, r)'
                 ELSE None(calls', {CallFor(c, r)}) /\ None(timers', TimersFor(c, r))
      <3>1. heard'[c] = heard[c]
        BY DEF Passes
      <3>2. CASE Wanted(Table[r], heard[c])
        <4>1. OneOutcome(c, r)
          BY <1>2, <3>2 DEF Settled
        <4>2. OneOutcome(c, r)'
          BY <4>1 DEF OneOutcome, Passes, KeepsAs
        <4> QED
          BY <3>1, <3>2, <4>2
      <3>3. CASE ~Wanted(Table[r], heard[c])
        BY <1>2, <3>1, <3>3 DEF Settled, Passes, KeepsAs
      <3> QED
        BY <3>2, <3>3
    <2>3. Settled(c)'
      BY <2>1, <2>2 DEF Settled
    <2> QED
      BY <2>3 DEF Stage
  <1> QED
    BY <1>1, <1>2 DEF Stage

LEMMA TimersForIs ==
  ASSUME TypeOK, NEW k \in DOMAIN timers, NEW c, NEW r
  PROVE  /\ timers[k] \in Timer
         /\ timers[k] \in TimersFor(c, r) <=> timers[k].crash = c /\ timers[k].row = r
  <1>1. timers[k] \in Timer
    <2> HIDE DEF Timer
    <2> QED
      BY LenProperties DEF TypeOK
  <1> QED
    BY <1>1 DEF TimersFor

LEMMA QueuesTyped ==
  ASSUME TypeOK
  PROVE  /\ dqueue \in Seq(DOMAIN heard) /\ equeue \in Seq(DOMAIN heard)
         /\ timers \in Seq(Timer) /\ calls \in Seq(Call)
         /\ DOMAIN heard \subseteq Nat
         /\ \A k \in DOMAIN dqueue : dqueue[k] \in DOMAIN heard
         /\ \A k \in DOMAIN equeue : equeue[k] \in DOMAIN heard
  <1>1. /\ dqueue \in Seq(DOMAIN heard) /\ equeue \in Seq(DOMAIN heard)
        /\ timers \in Seq(Timer) /\ calls \in Seq(Call) /\ heard \in Seq(News)
    BY DEF TypeOK
  <1> QED
    BY <1>1, LenProperties

LEMMA HeardStage ==
  ASSUME Known, Stages, NEW n \in News, Heard(n)
  PROVE  Stages'
  <1>0. TypeOK
    BY DEF Known
  <1>1. /\ heard \in Seq(News) /\ heard' = Append(heard, n)
        /\ dqueue' = Append(dqueue, Len(heard'))
        /\ UNCHANGED <<equeue, timers, proxy, phase, calls, lost>>
    BY <1>0 DEF Heard, TypeOK
  <1> DEFINE new == Len(heard) + 1
  <1>2. /\ DOMAIN heard' = DOMAIN heard \cup {new} /\ new \notin DOMAIN heard
        /\ Len(heard') = new /\ new \in Nat /\ DOMAIN heard \subseteq Nat
        /\ \A c \in DOMAIN heard : heard'[c] = heard[c]
    BY <1>1, LenProperties, AppendProperties
  <1>3. PICK m : m = new
    OBVIOUS
  <1> HIDE DEF new
  <1>4. dqueue \in Seq(Nat) /\ dqueue' = Append(dqueue, m) /\ m \in Nat
    <2>1. dqueue \in Seq(Nat)
      BY <1>0, <1>2, QueuesTyped, SeqGrows
    <2> QED
      BY <1>1, <1>2, <1>3, <2>1
  <1>5. ASSUME NEW c \in DOMAIN heard
        PROVE  Stage(c)'
    <2>1. KeepsAs(dqueue', dqueue, {c})
      <3>1. m \notin {c}
        BY <1>2, <1>3
      <3> QED
        BY <1>4, <3>1, PlacesAppend DEF KeepsAs
    <2>2. Passes(c)
      BY <1>1, <1>2, <2>1 DEF Passes, KeepsAs
    <2> QED
      BY <2>2, PassesKeeps DEF Stages
  <1>6. Stage(m)'
    <2>1. None(dqueue, {m}) /\ None(equeue, {m})
      BY <1>0, <1>2, <1>3, QueuesTyped DEF None, Places
    <2>2. One(dqueue', {m}) /\ None(equeue', {m})
      <3>1. m \in {m}
        OBVIOUS
      <3> QED
        BY <1>1, <1>4, <2>1, <3>1, PlacesAppend
    <2>3. ASSUME NEW r \in RowId
          PROVE  /\ None(calls', {CallFor(m, r)}) /\ None(timers', TimersFor(m, r))
                 /\ CallFor(m, r) \notin lost'
      <3>1. /\ \A k \in DOMAIN calls : calls[k].crash # m
            /\ \A k \in DOMAIN timers : timers[k].crash # m
            /\ \A w \in lost : w.crash # m
        BY <1>2, <1>3 DEF Known
      <3>2. CallFor(m, r).crash = m
        BY DEF CallFor
      <3>3. None(calls, {CallFor(m, r)}) /\ CallFor(m, r) \notin lost
        BY <3>1, <3>2 DEF None, Places
      <3>4. None(timers, TimersFor(m, r))
        BY <3>1 DEF None, Places, TimersFor
      <3> QED
        BY <1>1, <3>3, <3>4
    <2>4. InQueue(m)' /\ Untouched(m)'
      BY <2>2, <2>3 DEF InQueue, Untouched
    <2> QED
      BY <2>4 DEF Stage
  <1> QED
    BY <1>2, <1>3, <1>5, <1>6 DEF Stages

LEMMA DispatcherStage ==
  ASSUME Known, Stages, DispatcherStep
  PROVE  Stages'
  <1>0. TypeOK
    BY DEF Known
  <1>1. PICK h : h = Head(dqueue)
    OBVIOUS
  <1>2. /\ dqueue \in Seq(DOMAIN heard) /\ dqueue # <<>> /\ dqueue' = Tail(dqueue)
        /\ equeue \in Seq(DOMAIN heard)
        /\ equeue' = IF OwnService(heard[h]) THEN equeue ELSE Append(equeue, h)
        /\ UNCHANGED <<timers, proxy, phase, heard, calls, lost>>
    BY <1>0, <1>1 DEF DispatcherStep, TypeOK
  <1>3. h \in DOMAIN heard
    BY <1>1, <1>2, HeadTyped
  <1>4. ASSUME NEW c \in DOMAIN heard, c # h
        PROVE  Stage(c)'
    <2>1. h \notin {c}
      BY <1>4
    <2>2. KeepsAs(dqueue', dqueue, {c})
      BY <1>1, <1>2, <2>1, PlacesTail DEF KeepsAs
    <2>3. KeepsAs(equeue', equeue, {c})
      BY <1>2, <1>3, <2>1, PlacesAppend DEF KeepsAs
    <2>4. Passes(c)
      BY <1>2, <2>2, <2>3 DEF Passes, KeepsAs
    <2> QED
      BY <2>4, PassesKeeps DEF Stages
  <1>5. Stage(h)'
    <2>1. h \in {h} /\ Head(dqueue) \in {h}
      BY <1>1
    <2>2. ~None(dqueue, {h})
      BY <1>2, <2>1, PlacesTail
    <2>3. One(dqueue, {h}) /\ None(equeue, {h}) /\ Untouched(h)
      <3>1. InQueue(h) /\ Untouched(h)
        BY <1>3, <2>2 DEF Stages, Stage, Settled
      <3> QED
        BY <2>2, <3>1 DEF InQueue
    <2>4. None(dqueue', {h})
      BY <1>2, <2>1, <2>3, PlacesTail
    <2>5. Untouched(h)'
      BY <1>2, <2>3 DEF Untouched
    <2>6. CASE ~OwnService(heard[h])
      <3>1. One(equeue', {h})
        BY <1>2, <1>3, <2>1, <2>3, <2>6, PlacesAppend
      <3>2. InQueue(h)'
        BY <1>2, <2>4, <2>6, <3>1 DEF InQueue
      <3> QED
        BY <2>5, <3>2 DEF Stage
    <2>7. CASE OwnService(heard[h])
      <3>1. None(equeue', {h})
        BY <1>2, <2>3, <2>7
      <3>2. \A r \in RowId : ~Wanted(Table[r], heard'[h])
        BY <1>2, <2>7 DEF Wanted, OwnService
      <3>3. Settled(h)'
        BY <2>4, <2>5, <3>1, <3>2 DEF Settled, Untouched
      <3> QED
        BY <3>3 DEF Stage
    <2> QED
      BY <2>6, <2>7
  <1> QED
    BY <1>2, <1>4, <1>5 DEF Stages

LEMMA CallForIs ==
  ASSUME NEW c, NEW r
  PROVE  CallFor(c, r).crash = c /\ CallFor(c, r).row = r
  BY DEF CallFor

LEMMA ProcessStage ==
  ASSUME Known, Stages, NEW ok \in BOOLEAN, do_process_friend_crash_event(ok)
  PROVE  Stages'
  <1>0. TypeOK
    BY DEF Known
  <1>1. PICK h : h = Head(equeue)
    OBVIOUS
  <1>2. PICK found : found = foreach_service_friend(h)
    OBVIOUS
  <1>3. /\ equeue \in Seq(DOMAIN heard) /\ equeue # <<>> /\ equeue' = Tail(equeue)
        /\ timers' = IF ok THEN timers \o found ELSE timers
        /\ lost' = IF ok THEN lost
                   ELSE lost \cup {CallFor(h, found[k].row) : k \in DOMAIN found}
        /\ UNCHANGED <<dqueue, proxy, phase, heard, calls>>
    BY <1>0, <1>1, <1>2 DEF do_process_friend_crash_event, TypeOK, CallFor
  <1>4. h \in DOMAIN heard
    BY <1>1, <1>3, HeadTyped
  <1>5. h \in Nat /\ heard[h] \in News
    BY <1>0, <1>4, HeardTyped
  <1>6. /\ found \in Seq(Timer)
        /\ \A k \in DOMAIN found :
             /\ found[k] \in Timer /\ found[k].crash = h
             /\ Matches(Table[found[k].row], heard[h])
        /\ \A j, k \in DOMAIN found : j < k => found[j].row < found[k].row
        /\ \A r \in RowId : Matches(Table[r], heard[h]) =>
             \E k \in DOMAIN found : found[k].row = r
    BY <1>2, <1>5, FoundProperties
  <1>7. timers \in Seq(Timer) /\ DOMAIN found \subseteq Nat
    BY <1>0, <1>6, LenProperties DEF TypeOK
  <1>8. ASSUME NEW c \in DOMAIN heard, c # h
        PROVE  Stage(c)'
    <2>1. Head(equeue) \notin {c}
      BY <1>1, <1>8
    <2>2. KeepsAs(equeue', equeue, {c})
      BY <1>3, <2>1, PlacesTail DEF KeepsAs
    <2>3. ASSUME NEW r \in RowId
          PROVE  /\ KeepsAs(timers', timers, TimersFor(c, r))
                 /\ CallFor(c, r) \in lost' <=> CallFor(c, r) \in lost
      <3>1. None(found, TimersFor(c, r))
        BY <1>6, <1>8 DEF None, Places, TimersFor
      <3>2. None(timers, TimersFor(c, r)) => None(timers', TimersFor(c, r))
        BY <1>3, <1>6, <1>7, <3>1, PlacesConcat
      <3>3. One(timers, TimersFor(c, r)) => One(timers', TimersFor(c, r))
        BY <1>3, <1>6, <1>7, <3>1, PlacesConcat
      <3>4. \A s : CallFor(h, s) # CallFor(c, r)
        BY <1>8, CallForIs
      <3> QED
        BY <1>3, <3>2, <3>3, <3>4 DEF KeepsAs
    <2>4. Passes(c)
      BY <1>3, <2>2, <2>3 DEF Passes, KeepsAs
    <2> QED
      BY <2>4, PassesKeeps DEF Stages
  <1>9. Settled(h)'
    <2>1. h \in {h} /\ Head(equeue) \in {h}
      BY <1>1
    <2>2. ~None(equeue, {h})
      BY <1>3, <2>1, PlacesTail
    <2>3. /\ None(dqueue, {h}) /\ One(equeue, {h}) /\ Untouched(h)
          /\ ~OwnService(heard[h])
      <3>1. InQueue(h) /\ Untouched(h)
        BY <1>4, <2>2 DEF Stages, Stage, Settled
      <3> QED
        BY <2>2, <3>1 DEF InQueue
    <2>4. None(dqueue', {h}) /\ None(equeue', {h})
      BY <1>3, <2>1, <2>3, PlacesTail
    <2>5. ASSUME NEW r \in RowId
          PROVE  IF Wanted(Table[r], heard'[h]) THEN OneOutcome(h, r)'
                 ELSE None(calls', {CallFor(h, r)}) /\ None(timers', TimersFor(h, r))
      <3>1. /\ None(calls', {CallFor(h, r)}) /\ None(timers, TimersFor(h, r))
            /\ CallFor(h, r) \notin lost /\ heard' = heard
        BY <1>3, <2>3 DEF Untouched
      <3>2. Wanted(Table[r], heard[h]) <=> Matches(Table[r], heard[h])
        BY <1>5, <2>3, WantedIs
      <3>3. CASE Matches(Table[r], heard[h])
        <4>1. PICK k \in DOMAIN found : found[k].row = r
          BY <1>6, <3>3
        <4>2. Places(found, TimersFor(h, r)) = {k}
          <5>1. k \in Places(found, TimersFor(h, r))
            BY <1>6, <4>1 DEF Places, TimersFor
          <5>2. ASSUME NEW j \in Places(found, TimersFor(h, r))
                PROVE  j = k
            <6>1. j \in DOMAIN found /\ found[j].row = r
              BY <5>2 DEF Places, TimersFor
            <6>2. ~(found[j].row < found[k].row) /\ ~(found[k].row < found[j].row)
              BY <4>1, <6>1, RowIds
            <6>3. ~(j < k) /\ ~(k < j)
              BY <1>6, <6>1, <6>2
            <6> QED
              BY <1>7, <6>1, <6>3
          <5> QED
            BY <5>1, <5>2
        <4>3. One(found, TimersFor(h, r))
          BY <4>2 DEF One
        <4>4. CASE ok
          <5>1. One(timers', TimersFor(h, r)) /\ CallFor(h, r) \notin lost'
            BY <1>3, <1>6, <1>7, <3>1, <4>3, <4>4, PlacesConcat
          <5>2. OneOutcome(h, r)'
            BY <3>1, <5>1 DEF OneOutcome
          <5> QED
            BY <3>1, <3>2, <3>3, <5>2
        <4>5. CASE ~ok
          <5>1. None(timers', TimersFor(h, r)) /\ CallFor(h, r) \in lost'
            BY <1>3, <3>1, <4>1, <4>5
          <5>2. OneOutcome(h, r)'
            BY <3>1, <5>1 DEF OneOutcome
          <5> QED
            BY <3>1, <3>2, <3>3, <5>2
        <4> QED
          BY <4>4, <4>5
      <3>4. CASE ~Matches(Table[r], heard[h])
        <4>1. None(found, TimersFor(h, r))
          BY <1>6, <3>4 DEF None, Places, TimersFor
        <4>2. None(timers', TimersFor(h, r))
          BY <1>3, <1>6, <1>7, <3>1, <4>1, PlacesConcat
        <4> QED
          BY <3>1, <3>2, <3>4, <4>2
      <3> QED
        BY <3>3, <3>4
    <2> QED
      BY <2>4, <2>5 DEF Settled
  <1> QED
    BY <1>3, <1>8, <1>9 DEF Stages, Stage

LEMMA TimerStage ==
  ASSUME Known, Stages, NEW i \in DOMAIN timers, friendtimer_callback(i)
  PROVE  Stages'
  <1>0. TypeOK
    BY DEF Known
  <1>1. PICK h, s : h = timers[i].crash /\ s = timers[i].row
    OBVIOUS
  <1>2. PICK call : call = CallFor(h, s)
    OBVIOUS
  <1>3. /\ timers \in Seq(Timer) /\ timers' = RemoveAt(timers, i)
        /\ \/ calls' = Append(calls, call) /\ lost' = lost
           \/ lost' = lost \cup {call} /\ calls' = calls
        /\ UNCHANGED <<dqueue, equeue, proxy, phase, heard>>
    BY <1>0, <1>1, <1>2 DEF friendtimer_callback, Detached, TypeOK, CallFor
  <1>4. h \in DOMAIN heard /\ s \in RowId /\ timers[i] \in Timer
    BY <1>0, <1>1, TimersForIs DEF Known, Timer
  <1>5. calls \in Seq(Call) /\ call \in Call
    <2>1. h \in Nat
      BY <1>0, <1>4, HeardTyped
    <2> QED
      BY <1>0, <1>2, <1>4, <2>1 DEF TypeOK, Call, CallFor
  <1>6. ASSUME NEW c \in DOMAIN heard, NEW r \in RowId, c # h \/ r # s
        PROVE  /\ KeepsAs(calls', calls, {CallFor(c, r)})
               /\ KeepsAs(timers', timers, TimersFor(c, r))
               /\ CallFor(c, r) \in lost' <=> CallFor(c, r) \in lost
    <2>1. call # CallFor(c, r)
      BY <1>2, <1>6, CallForIs
    <2>2. timers[i] \notin TimersFor(c, r)
      BY <1>1, <1>6 DEF TimersFor
    <2>3. KeepsAs(timers', timers, TimersFor(c, r))
      BY <1>3, <2>2, PlacesRemoved DEF KeepsAs
    <2>4. KeepsAs(calls', calls, {CallFor(c, r)})
      <3>1. call \notin {CallFor(c, r)}
        BY <2>1
      <3>2. CASE calls' = calls
        BY <3>2 DEF KeepsAs
      <3>3. CASE calls' = Append(calls, call)
        <4> HIDE DEF Call
        <4> QED
          BY <1>5, <3>1, <3>3, PlacesAppend DEF KeepsAs
      <3> QED
        BY <1>3, <3>2, <3>3
    <2> QED
      BY <1>3, <2>1, <2>3, <2>4
  <1>7. ASSUME NEW c \in DOMAIN heard, c # h
        PROVE  Stage(c)'
    <2>1. Passes(c)
      BY <1>3, <1>6, <1>7 DEF Passes, KeepsAs
    <2> QED
      BY <2>1, PassesKeeps DEF Stages
  <1>8. Settled(h)'
    <2>1. timers[i] \in TimersFor(h, s)
      BY <1>1, <1>4 DEF TimersFor
    <2>2. ~None(timers, TimersFor(h, s))
      BY <1>3, <2>1, PlacesRemoved
    <2>3. Settled(h)
      BY <1>4, <2>2 DEF Stages, Stage, Untouched
    <2>4. /\ One(timers, TimersFor(h, s)) /\ None(calls, {CallFor(h, s)})
          /\ CallFor(h, s) \notin lost /\ Wanted(Table[s], heard[h])
      BY <1>4, <2>2, <2>3 DEF Settled, OneOutcome
    <2>5. None(timers', TimersFor(h, s))
      BY <1>3, <2>1, <2>4, PlacesRemoved
    <2>6. OneOutcome(h, s)'
      <3>1. CASE calls' = Append(calls, call) /\ lost' = lost
        <4>1. call \in {CallFor(h, s)}
          BY <1>2
        <4>2. One(calls', {CallFor(h, s)})
          <5> HIDE DEF Call
          <5> QED
            BY <1>5, <2>4, <3>1, <4>1, PlacesAppend
        <4> QED
          BY <2>4, <2>5, <3>1, <4>2 DEF OneOutcome
      <3>2. CASE lost' = lost \cup {call} /\ calls' = calls
        BY <1>2, <2>4, <2>5, <3>2 DEF OneOutcome
      <3> QED
        BY <1>3, <3>1, <3>2
    <2>7. ASSUME NEW r \in RowId, r # s
          PROVE  IF Wanted(Table[r], heard'[h]) THEN OneOutcome(h, r)'
                 ELSE None(calls', {CallFor(h, r)}) /\ None(timers', TimersFor(h, r))
      <3>1. /\ KeepsAs(calls', calls, {CallFor(h, r)})
            /\ KeepsAs(timers', timers, TimersFor(h, r))
            /\ CallFor(h, r) \in lost' <=> CallFor(h, r) \in lost
            /\ heard' = heard
        BY <1>3, <1>4, <1>6, <2>7
      <3>2. CASE Wanted(Table[r], heard[h])
        <4>1. OneOutcome(h, r)
          BY <2>3, <3>2 DEF Settled
        <4>2. OneOutcome(h, r)'
          BY <3>1, <4>1 DEF OneOutcome, KeepsAs
        <4> QED
          BY <3>1, <3>2, <4>2
      <3>3. CASE ~Wanted(Table[r], heard[h])
        BY <2>3, <3>1, <3>3 DEF Settled, KeepsAs
      <3> QED
        BY <3>2, <3>3
    <2>8. \A r \in RowId :
            IF Wanted(Table[r], heard'[h]) THEN OneOutcome(h, r)'
            ELSE None(calls', {CallFor(h, r)}) /\ None(timers', TimersFor(h, r))
      <3> SUFFICES ASSUME NEW r \in RowId
                   PROVE  IF Wanted(Table[r], heard'[h]) THEN OneOutcome(h, r)'
                          ELSE /\ None(calls', {CallFor(h, r)})
                               /\ None(timers', TimersFor(h, r))
        OBVIOUS
      <3>1. CASE r = s
        <4>1. Wanted(Table[r], heard'[h])
          BY <1>3, <2>4, <3>1
        <4>2. OneOutcome(h, r)'
          BY <2>6, <3>1
        <4> QED
          BY <4>1, <4>2
      <3>2. CASE r # s
        BY <2>7, <3>2
      <3> QED
        BY <3>1, <3>2
    <2> QED
      BY <1>3, <2>3, <2>8 DEF Settled
  <1> QED
    BY <1>3, <1>7, <1>8 DEF Stages, Stage

LEMMA TickStage ==
  ASSUME Known, Stages, Tick
  PROVE  Stages'
  <1>0. TypeOK
    BY DEF Known
  <1>1. /\ timers' \in Seq(Timer) /\ DOMAIN timers' = DOMAIN timers
        /\ \A i \in DOMAIN timers :
             timers'[i].crash = timers[i].crash /\ timers'[i].row = timers[i].row
        /\ UNCHANGED <<dqueue, equeue, proxy, phase, heard, calls, lost>>
    BY <1>0, TickMeans DEF Tick
  <1>2. \A k \in DOMAIN timers : timers'[k] \in Timer
    <2> HIDE DEF Timer
    <2> QED
      BY <1>1, LenProperties
  <1>3. ASSUME NEW c, NEW r
        PROVE  KeepsAs(timers', timers, TimersFor(c, r))
    <2>1. \A k \in DOMAIN timers : timers'[k] \in TimersFor(c, r)
                                     <=> timers[k] \in TimersFor(c, r)
      BY <1>0, <1>1, <1>2, TimersForIs DEF TimersFor
    <2> QED
      BY <1>1, <2>1, PlacesSame DEF KeepsAs
  <1>4. ASSUME NEW c \in DOMAIN heard
        PROVE  Stage(c)'
    <2>1. Passes(c)
      BY <1>1, <1>3 DEF Passes, KeepsAs
    <2> QED
      BY <2>1, PassesKeeps DEF Stages
  <1> QED
    BY <1>1, <1>4 DEF Stages

LEMMA StopStage ==
  ASSUME Known, Stages, Stop
  PROVE  Stages'
  <1>0. TypeOK
    BY DEF Known
  <1>1. /\ lost' = lost \cup Waiting
        /\ dqueue' = <<>> /\ equeue' = <<>> /\ timers' = <<>>
        /\ UNCHANGED <<heard, calls>>
    BY DEF Stop
  <1>2. ASSUME NEW c \in DOMAIN heard
        PROVE  Settled(c)'
    <2>1. None(dqueue', {c}) /\ None(equeue', {c})
      BY <1>1, PlacesEmpty
    <2>2. ASSUME NEW r \in RowId
          PROVE  IF Wanted(Table[r], heard'[c]) THEN OneOutcome(c, r)'
                 ELSE None(calls', {CallFor(c, r)}) /\ None(timers', TimersFor(c, r))
      <3>1. None(timers', TimersFor(c, r)) /\ calls' = calls /\ heard' = heard
        BY <1>1, PlacesEmpty
      <3>2. heard[c] \in News
        BY <1>0, <1>2, HeardTyped
      <3>3. CASE ~Wanted(Table[r], heard[c])
        BY <1>2, <3>1, <3>3 DEF Stages, Stage, Untouched, Settled
      <3>4. CASE Wanted(Table[r], heard[c]) /\ InQueue(c) /\ Untouched(c)
        <4>1. c \in Range(dqueue) \cup Range(equeue)
          <5>1. One(dqueue, {c}) \/ One(equeue, {c})
            BY <3>4 DEF InQueue
          <5> QED
            BY <5>1 DEF One, Places, Range
        <4>2. CallFor(c, r) \in Waiting
          BY <3>2, <3>4, <4>1, WantedIs DEF Waiting, CallFor
        <4>3. OneOutcome(c, r)'
          BY <1>1, <3>1, <3>4, <4>2 DEF Untouched, OneOutcome
        <4> QED
          BY <3>1, <3>4, <4>3
      <3>5. CASE Wanted(Table[r], heard[c]) /\ Settled(c)
        <4>1. OneOutcome(c, r)
          BY <3>5 DEF Settled
        <4>2. CASE One(calls, {CallFor(c, r)}) /\ None(timers, TimersFor(c, r))
                   /\ CallFor(c, r) \notin lost
          <5>1. \A k \in DOMAIN timers : ~(timers[k].crash = c /\ timers[k].row = r)
            BY <1>0, <4>2, TimersForIs DEF None, Places
          <5>2. c \notin Range(dqueue) \cup Range(equeue)
            BY <3>5 DEF Settled, None, Places, Range
          <5>3. CallFor(c, r) \notin Waiting
            BY <5>1, <5>2, CallForIs DEF Waiting
          <5> QED
            BY <1>1, <3>1, <3>5, <4>2, <5>3 DEF OneOutcome
        <4>3. CASE None(calls, {CallFor(c, r)}) /\ One(timers, TimersFor(c, r))
          <5>1. PICK k \in DOMAIN timers : timers[k].crash = c /\ timers[k].row = r
            BY <1>0, <4>3, TimersForIs DEF One, Places
          <5>2. CallFor(c, r) \in Waiting
            BY <5>1 DEF Waiting, CallFor
          <5> QED
            BY <1>1, <3>1, <3>5, <4>3, <5>2 DEF OneOutcome
        <4>4. CASE None(calls, {CallFor(c, r)}) /\ CallFor(c, r) \in lost
          BY <1>1, <3>1, <3>5, <4>4 DEF OneOutcome
        <4> QED
          BY <4>1, <4>2, <4>3, <4>4 DEF OneOutcome
      <3> QED
        BY <1>2, <3>3, <3>4, <3>5 DEF Stages, Stage
    <2> QED
      BY <2>1, <2>2 DEF Settled
  <1> QED
    BY <1>1, <1>2 DEF Stages, Stage

LEMMA StagesStep == Known /\ Stages /\ [Next]_vars => Stages'
  <1> SUFFICES ASSUME Known, Stages, [Next]_vars
               PROVE  Stages'
    OBVIOUS
  <1>1. CASE UNCHANGED <<dqueue, equeue, timers, heard, calls, lost>>
    <2>1. ASSUME NEW c \in DOMAIN heard
          PROVE  Stage(c)'
      <3>1. Passes(c)
        BY <1>1 DEF Passes, KeepsAs
      <3> QED
        BY <3>1, PassesKeeps DEF Stages
    <2> QED
      BY <1>1, <2>1 DEF Stages
  <1>2. ASSUME NEW ok \in BOOLEAN, rmg_executor_set_proxy(ok)
        PROVE  Stages'
    BY <1>1, <1>2 DEF rmg_executor_set_proxy
  <1>3. CASE Start
    BY <1>1, <1>3 DEF Start
  <1>4. CASE UNCHANGED vars
    BY <1>1, <1>4 DEF vars
  <1> QED
    BY <1>2, <1>3, <1>4, HeardStage, DispatcherStage, ProcessStage, TimerStage, TickStage,
       StopStage DEF Next, FriendTimerExpires

LEMMA StagesInit == Init => Stages
  <1>1. Init => DOMAIN heard = {}
    BY DEF Init
  <1> QED
    BY <1>1 DEF Stages

(* A crash leads to no call and no timer but those of the rows that want it  *)
(* (do_friend_service_failed_event, rmg_journal_get_services_for_friend).    *)
THEOREM NoOthers == Spec => []NoOtherCalls
  <1>1. Known /\ Stages => NoOtherCalls
    <2> SUFFICES ASSUME Known, Stages, NEW w \in [crash : DOMAIN heard, row : RowId],
                        ~Wanted(Table[w.row], heard[w.crash])
                 PROVE  CallsOf(w) \cup TimersOf(w) = {}
      BY DEF NoOtherCalls
    <2>1. PICK c \in DOMAIN heard, r \in RowId : w = CallFor(c, r)
      BY DEF CallFor
    <2>2. None(calls, {CallFor(c, r)}) /\ None(timers, TimersFor(c, r))
      <3>1. ~Wanted(Table[r], heard[c])
        BY <2>1, CallForIs
      <3>2. (InQueue(c) /\ Untouched(c)) \/ Settled(c)
        BY DEF Stages, Stage
      <3> QED
        BY <3>1, <3>2 DEF Untouched, Settled
    <2>3. CallsOf(w) = {}
      BY <2>1, <2>2 DEF CallsOf, None, Places
    <2>4. TimersOf(w) = {}
      BY <2>1, <2>2, CallForIs, TimersForIs DEF TimersOf, None, Places, Known
    <2> QED
      BY <2>3, <2>4
  <1> QED
    BY KnownInit, KnownStep, StagesInit, StagesStep, <1>1, PTL DEF Spec

(* Each row that wants a crash is called for it once, will be, or lost its   *)
(* call to an error or a stop; none is forgotten and none is called twice    *)
(* (do_process_friend_crash_event, friendtimer_callback).                    *)
THEOREM CallsOnce == Spec => []EachCrashCallsOnce
  <1>1. Known /\ Stages => EachCrashCallsOnce
    <2> SUFFICES ASSUME Known, Stages, NEW w \in [crash : DOMAIN heard, row : RowId],
                        Wanted(Table[w.row], heard[w.crash])
                 PROVE  Cardinality(CallsOf(w)) + Cardinality(TimersOf(w))
                          + Cardinality(QueuedIn(dqueue, w)) + Cardinality(QueuedIn(equeue, w))
                          = IF w \in lost THEN 0 ELSE 1
      BY DEF EachCrashCallsOnce
    <2>1. PICK c \in DOMAIN heard, r \in RowId : w = CallFor(c, r)
      BY DEF CallFor
    <2>2. /\ CallsOf(w) = Places(calls, {CallFor(c, r)})
          /\ TimersOf(w) = Places(timers, TimersFor(c, r))
          /\ QueuedIn(dqueue, w) = Places(dqueue, {c})
          /\ QueuedIn(equeue, w) = Places(equeue, {c})
      <3>1. CallsOf(w) = Places(calls, {CallFor(c, r)})
        BY <2>1 DEF CallsOf, Places
      <3>2. TimersOf(w) = Places(timers, TimersFor(c, r))
        BY <2>1, CallForIs, TimersForIs DEF TimersOf, Places, Known
      <3>3. \A q : QueuedIn(q, w) = Places(q, {c})
        BY <2>1, CallForIs DEF QueuedIn, Places
      <3> QED
        BY <3>1, <3>2, <3>3
    <2>3. ASSUME NEW q, NEW V
          PROVE  /\ None(q, V) => Cardinality(Places(q, V)) = 0
                 /\ One(q, V) => Cardinality(Places(q, V)) = 1
      BY FS_EmptySet, FS_Singleton DEF None, One
    <2>4. CASE InQueue(c) /\ Untouched(c)
      <3>1. w \notin lost /\ None(calls, {CallFor(c, r)}) /\ None(timers, TimersFor(c, r))
        BY <2>1, <2>4 DEF Untouched
      <3>2. Cardinality(CallsOf(w)) = 0 /\ Cardinality(TimersOf(w)) = 0
        BY <2>2, <2>3, <3>1
      <3>3. CASE One(dqueue, {c}) /\ None(equeue, {c})
        <4>1. /\ Cardinality(QueuedIn(dqueue, w)) = 1
              /\ Cardinality(QueuedIn(equeue, w)) = 0
          BY <2>2, <2>3, <3>3
        <4> QED
          BY <3>1, <3>2, <4>1
      <3>4. CASE None(dqueue, {c}) /\ One(equeue, {c})
        <4>1. /\ Cardinality(QueuedIn(dqueue, w)) = 0
              /\ Cardinality(QueuedIn(equeue, w)) = 1
          BY <2>2, <2>3, <3>4
        <4> QED
          BY <3>1, <3>2, <4>1
      <3> QED
        BY <2>4, <3>3, <3>4 DEF InQueue
    <2>5. CASE Settled(c)
      <3>1. None(dqueue, {c}) /\ None(equeue, {c}) /\ OneOutcome(c, r)
        <4>1. Wanted(Table[r], heard[c])
          BY <2>1, CallForIs
        <4> QED
          BY <2>5, <4>1 DEF Settled
      <3>2. /\ Cardinality(QueuedIn(dqueue, w)) = 0
            /\ Cardinality(QueuedIn(equeue, w)) = 0
        BY <2>2, <2>3, <3>1
      <3>3. \/ /\ Cardinality(CallsOf(w)) = 1 /\ Cardinality(TimersOf(w)) = 0
               /\ w \notin lost
            \/ /\ Cardinality(CallsOf(w)) = 0 /\ Cardinality(TimersOf(w)) = 1
               /\ w \notin lost
            \/ /\ Cardinality(CallsOf(w)) = 0 /\ Cardinality(TimersOf(w)) = 0
               /\ w \in lost
        <4>1. /\ None(calls, {CallFor(c, r)}) => Cardinality(CallsOf(w)) = 0
              /\ One(calls, {CallFor(c, r)}) => Cardinality(CallsOf(w)) = 1
          BY <2>2, <2>3
        <4>2. /\ None(timers, TimersFor(c, r)) => Cardinality(TimersOf(w)) = 0
              /\ One(timers, TimersFor(c, r)) => Cardinality(TimersOf(w)) = 1
          BY <2>2, <2>3
        <4> QED
          BY <2>1, <3>1, <4>1, <4>2 DEF OneOutcome
      <3> QED
        BY <3>2, <3>3
    <2> QED
      BY <2>4, <2>5 DEF Stages, Stage
  <1> QED
    BY KnownInit, KnownStep, StagesInit, StagesStep, <1>1, PTL DEF Spec

-----------------------------------------------------------------------------
(* The order of the calls of one crash.                                      *)

(* Its timers are attached in the table's order, and one with no longer a    *)
(* delay has no more time left.                                              *)
TimersInOrder ==
  \A j, k \in DOMAIN timers :
    timers[j].crash = timers[k].crash
      => /\ j < k => timers[j].row < timers[k].row
         /\ Table[timers[j].row].delay <= Table[timers[k].row].delay
              => timers[j].left <= timers[k].left

(* No timer runs yet for a crash that is about to be looked up.              *)
LEMMA HeadUntouched ==
  ASSUME Known, Stages, equeue # <<>>
  PROVE  \A k \in DOMAIN timers : timers[k].crash # Head(equeue)
  <1>0. TypeOK /\ equeue \in Seq(DOMAIN heard)
    BY DEF Known, TypeOK
  <1>1. PICK h : h = Head(equeue)
    OBVIOUS
  <1>2. h \in DOMAIN heard /\ h \in {h}
    BY <1>0, <1>1, HeadTyped
  <1>3. ~None(equeue, {h})
    BY <1>0, <1>1, <1>2, PlacesTail
  <1>4. Untouched(h)
    BY <1>2, <1>3 DEF Stages, Stage, Settled
  <1>5. ASSUME NEW k \in DOMAIN timers, timers[k].crash = h
        PROVE  FALSE
    <2>1. timers[k].row \in RowId
      BY <1>0, TimersForIs DEF Timer
    <2>2. PICK r \in RowId : r = timers[k].row
      BY <2>1
    <2>3. timers[k] \in TimersFor(h, r)
      BY <1>0, <1>5, <2>2, TimersForIs
    <2> QED
      BY <1>4, <2>2, <2>3 DEF Untouched, None, Places
  <1> QED
    BY <1>1, <1>5

(* The timers of a crash are attached together.                              *)
LEMMA ProcessInOrder ==
  ASSUME Known, Stages, TimersInOrder, NEW ok \in BOOLEAN,
         do_process_friend_crash_event(ok)
  PROVE  TimersInOrder'
  <1>0. TypeOK
    BY DEF Known
  <1>1. PICK h : h = Head(equeue)
    OBVIOUS
  <1>2. PICK found : found = foreach_service_friend(h)
    OBVIOUS
  <1>3. /\ equeue \in Seq(DOMAIN heard) /\ equeue # <<>>
        /\ timers' \in {timers, timers \o found}
    BY <1>0, <1>1, <1>2 DEF do_process_friend_crash_event, TypeOK
  <1>4. h \in Nat /\ heard[h] \in News
    BY <1>0, <1>1, <1>3, HeadTyped, HeardTyped
  <1>5. /\ found \in Seq(Timer) /\ timers \in Seq(Timer)
        /\ \A k \in DOMAIN found :
             /\ found[k].crash = h /\ found[k].left = Table[found[k].row].delay
        /\ \A j, k \in DOMAIN found : j < k => found[j].row < found[k].row
    BY <1>0, <1>2, <1>4, FoundProperties DEF TypeOK
  <1>6. \A k \in DOMAIN timers : timers[k].crash # h
    BY <1>1, <1>3, HeadUntouched
  <1>7. CASE timers' = timers
    BY <1>7 DEF TimersInOrder
  <1>8. CASE timers' = timers \o found
    <2>1. \A k \in DOMAIN timers' :
             \/ k \in DOMAIN timers /\ timers'[k] = timers[k]
             \/ \E i \in DOMAIN found : timers'[k] = found[i] /\ k = Len(timers) + i
      BY <1>5, <1>8, ConcatElements
    <2>2. Len(timers) \in Nat /\ DOMAIN found \subseteq Nat
      BY <1>5, LenProperties
    <2>3. ASSUME NEW j \in DOMAIN timers', NEW k \in DOMAIN timers',
                 timers'[j].crash = timers'[k].crash
          PROVE  /\ j < k => timers'[j].row < timers'[k].row
                 /\ Table[timers'[j].row].delay <= Table[timers'[k].row].delay
                      => timers'[j].left <= timers'[k].left
      <3>1. CASE timers'[k].crash = h
        <4>1. PICK a \in DOMAIN found : timers'[j] = found[a] /\ j = Len(timers) + a
          BY <1>6, <2>1, <2>3, <3>1
        <4>2. PICK b \in DOMAIN found : timers'[k] = found[b] /\ k = Len(timers) + b
          BY <1>6, <2>1, <3>1
        <4>3. j < k => a < b
          BY <2>2, <4>1, <4>2
        <4>4. j < k => timers'[j].row < timers'[k].row
          BY <1>5, <4>1, <4>2, <4>3
        <4>5. /\ timers'[j].left = Table[timers'[j].row].delay
              /\ timers'[k].left = Table[timers'[k].row].delay
          BY <1>5, <4>1, <4>2
        <4> QED
          BY <4>4, <4>5
      <3>2. CASE timers'[k].crash # h
        <4>1. /\ j \in DOMAIN timers /\ timers'[j] = timers[j]
              /\ k \in DOMAIN timers /\ timers'[k] = timers[k]
          BY <1>5, <2>1, <2>3, <3>2
        <4> QED
          BY <2>3, <4>1 DEF TimersInOrder
      <3> QED
        BY <3>1, <3>2
    <2> QED
      BY <2>3 DEF TimersInOrder
  <1> QED
    BY <1>3, <1>7, <1>8

(* One that expires leaves the others as they are.                           *)
LEMMA TimerInOrder ==
  ASSUME Known, TimersInOrder, NEW i \in DOMAIN timers, friendtimer_callback(i)
  PROVE  TimersInOrder'
  <1>1. timers \in Seq(Timer) /\ timers' = RemoveAt(timers, i)
    BY DEF friendtimer_callback, Detached, Known, TypeOK
  <1>2. PICK from : LeftBy(timers', timers, i, from)
    BY <1>1, RemovedFrom
  <1>3. \A k \in DOMAIN timers' : from[k] \in DOMAIN timers /\ timers'[k] = timers[from[k]]
    BY <1>2 DEF LeftBy
  <1>4. ASSUME NEW j \in DOMAIN timers', NEW k \in DOMAIN timers',
               timers'[j].crash = timers'[k].crash
        PROVE  /\ j < k => timers'[j].row < timers'[k].row
               /\ Table[timers'[j].row].delay <= Table[timers'[k].row].delay
                    => timers'[j].left <= timers'[k].left
    <2>1. j < k => from[j] < from[k]
      BY <1>2, <1>4 DEF LeftBy
    <2> QED
      BY <1>3, <1>4, <2>1 DEF TimersInOrder
  <1> QED
    BY <1>4 DEF TimersInOrder

LEMMA InOrderStep == Known /\ Stages /\ TimersInOrder /\ [Next]_vars => TimersInOrder'
  <1> SUFFICES ASSUME Known, Stages, TimersInOrder, [Next]_vars
               PROVE  TimersInOrder'
    OBVIOUS
  <1>0. TypeOK
    BY DEF Known
  <1>1. CASE UNCHANGED timers
    BY <1>1 DEF TimersInOrder
  <1>2. CASE Tick
    <2>1. /\ DOMAIN timers' = DOMAIN timers
          /\ \A k \in DOMAIN timers :
               /\ timers'[k].crash = timers[k].crash /\ timers'[k].row = timers[k].row
               /\ timers'[k].left = IF timers[k].left > 0 THEN timers[k].left - 1
                                    ELSE timers[k].left
      BY <1>0, <1>2, TickMeans
    <2>2. \A k \in DOMAIN timers : timers[k].left \in Nat
      BY <1>0, TimersForIs DEF Timer
    <2>3. \A j, k \in DOMAIN timers :
            timers[j].left <= timers[k].left => timers'[j].left <= timers'[k].left
      BY <2>1, <2>2
    <2> QED
      BY <2>1, <2>3 DEF TimersInOrder
  <1>3. CASE Stop
    <2>1. DOMAIN timers' = {}
      BY <1>3 DEF Stop
    <2> QED
      BY <2>1 DEF TimersInOrder
  <1>4. ASSUME NEW n \in News, Heard(n)
        PROVE  TimersInOrder'
    BY <1>1, <1>4 DEF Heard
  <1>5. CASE DispatcherStep
    BY <1>1, <1>5 DEF DispatcherStep
  <1>6. ASSUME NEW ok \in BOOLEAN, rmg_executor_set_proxy(ok)
        PROVE  TimersInOrder'
    BY <1>1, <1>6 DEF rmg_executor_set_proxy
  <1>7. CASE Start
    BY <1>1, <1>7 DEF Start
  <1>8. CASE UNCHANGED vars
    BY <1>1, <1>8 DEF vars
  <1> QED
    BY <1>2, <1>3, <1>4, <1>5, <1>6, <1>7, <1>8, ProcessInOrder, TimerInOrder
    DEF Next, FriendTimerExpires

LEMMA LastAppended ==
  ASSUME NEW S, NEW q \in Seq(S), NEW x
  PROVE  Append(q, x) # q /\ Append(q, x)[Len(q) + 1] = x
  <1>1. q \in Seq(S \cup {x}) /\ x \in S \cup {x}
    BY SeqGrows
  <1>2. Len(Append(q, x)) = Len(q) + 1 /\ Append(q, x)[Len(q) + 1] = x /\ Len(q) \in Nat
    BY <1>1, AppendProperties, LenProperties
  <1> QED
    BY <1>2

(* Only a timer that expires makes a call, and it makes its own.             *)
LEMMA CalledByTimer ==
  ASSUME Known, [Next]_vars, NEW t, CalledFor(t)
  PROVE  \E k \in DOMAIN timers :
           /\ friendtimer_callback(k)
           /\ timers[k].crash = t.crash /\ timers[k].row = t.row
  <1> DEFINE call(u) == [crash |-> u.crash, row |-> u.row]
  <1>1. calls \in Seq(Call) /\ calls' = Append(calls, call(t))
    BY DEF Known, TypeOK, CalledFor
  <1>2. \A x : Append(calls, x) # calls /\ Append(calls, x)[Len(calls) + 1] = x
    BY <1>1, LastAppended
  <1>3. calls' # calls
    BY <1>1, <1>2
  <1>4. PICK k \in DOMAIN timers : friendtimer_callback(k)
    BY <1>3 DEF Next, vars, Heard, DispatcherStep, do_process_friend_crash_event,
       rmg_executor_set_proxy, FriendTimerExpires, Tick, Stop, Start
  <1>5. calls' = Append(calls, call(timers[k]))
    BY <1>3, <1>4 DEF friendtimer_callback
  <1>6. call(timers[k]) = call(t)
    BY <1>1, <1>2, <1>5
  <1> QED
    BY <1>4, <1>6

(* An action with no longer a delay than another of the same crash is        *)
(* overtaken by it only if it is listed later and both are due               *)
(* (foreach_service_friend, friendtimer_callback).                           *)
THEOREM KeepsDelays == Spec => DelaysKept
  <1> DEFINE Order ==
        \A i, j \in DOMAIN timers :
          /\ CalledFor(timers[i])
          /\ j # i /\ timers[j].crash = timers[i].crash
          /\ Table[timers[j].row].delay <= Table[timers[i].row].delay
          => timers[j].row > timers[i].row /\ timers[j].left = 0
  <1>1. Init => TimersInOrder
    <2>1. Init => DOMAIN timers = {}
      BY DEF Init
    <2> QED
      BY <2>1 DEF TimersInOrder
  <1>2. ASSUME Known, TimersInOrder, [Next]_vars
        PROVE  Order
    <2> SUFFICES ASSUME NEW i \in DOMAIN timers, NEW j \in DOMAIN timers,
                        CalledFor(timers[i]), j # i, timers[j].crash = timers[i].crash,
                        Table[timers[j].row].delay <= Table[timers[i].row].delay
                 PROVE  timers[j].row > timers[i].row /\ timers[j].left = 0
      OBVIOUS
    <2>1. PICK k \in DOMAIN timers :
            /\ friendtimer_callback(k)
            /\ timers[k].crash = timers[i].crash /\ timers[k].row = timers[i].row
      BY <1>2, CalledByTimer
    <2>2. \A l \in DOMAIN timers : l \in Nat /\ timers[l].left \in Nat /\ timers[l].row \in Nat
      <3>1. timers \in Seq(Timer)
        BY <1>2 DEF Known, TypeOK
      <3>2. \A l \in DOMAIN timers : l \in Nat /\ timers[l] \in Timer
        <4> HIDE DEF Timer
        <4> QED
          BY <3>1, LenProperties
      <3> QED
        BY <3>2, RowIds DEF Timer
    <2>3. i = k
      BY <1>2, <2>1, <2>2 DEF TimersInOrder
    <2>4. timers[i].left = 0 /\ \A l \in DOMAIN timers : l < i => timers[l].left > 0
      BY <2>1, <2>3 DEF friendtimer_callback, Due
    <2>5. timers[j].left <= timers[i].left
      BY <1>2 DEF TimersInOrder
    <2>6. timers[j].left = 0 /\ i < j
      BY <2>2, <2>4, <2>5
    <2> QED
      BY <1>2, <2>2, <2>6 DEF TimersInOrder
  <1> HIDE DEF Order
  <1>3. Known /\ TimersInOrder /\ [Next]_vars => [Order]_vars
    BY <1>2
  <1>4. Spec => [][Order]_vars
    BY KnownInit, KnownStep, StagesInit, StagesStep, InOrderStep, <1>1, <1>3, PTL DEF Spec
  <1>5. [][Order]_vars <=> DelaysKept
    BY DEF Order, DelaysKept
  <1> QED
    BY <1>4, <1>5

=============================================================================
