-------------------------- MODULE ThreadPoolProofs --------------------------
(***************************************************************************)
(* Proofs about ThreadPool, for any number of workers, clients and tasks.  *)
(***************************************************************************)
EXTENDS ThreadPool, TLAPS, FiniteSetTheorems, FunctionTheorems

-----------------------------------------------------------------------------
(* The queue.                                                              *)

\* The insert position of ucb_pqueue_push lies within the queue.
LEMMA InsertPositionInQueue ==
    ASSUME NEW S, NEW q \in Seq(S), NEW p, NEW prio
    PROVE  InsertPosition(q, p, prio) \in 0..Len(q)
  <1> DEFINE before == {i \in 1..Len(q) : prio[q[i]] >= p}
  <1>1. Len(q) \in Nat
    OBVIOUS
  <1>2. /\ IsFiniteSet(1..Len(q))
        /\ Cardinality(1..Len(q)) = Len(q)
    BY <1>1, FS_Interval, SMTT(30)
  <1>3. before \subseteq 1..Len(q)
    OBVIOUS
  <1>4. /\ IsFiniteSet(before)
        /\ Cardinality(before) <= Cardinality(1..Len(q))
    BY <1>2, <1>3, FS_Subset
  <1>5. Cardinality(before) \in Nat
    BY <1>4, FS_CardinalityType
  <1> QED
    BY <1>1, <1>2, <1>4, <1>5 DEF InsertPosition

\* ucb_pqueue_push keeps a queue of tasks a queue of tasks.
LEMMA InsertType ==
    ASSUME NEW S, NEW q \in Seq(S), NEW item \in S, NEW prio
    PROVE  /\ Insert(q, item, prio) \in Seq(S)
           /\ Len(Insert(q, item, prio)) = Len(q) + 1
  <1> DEFINE pos == InsertPosition(q, prio[item], prio)
             at(i) == IF i <= pos THEN q[i] ELSE IF i = pos + 1 THEN item ELSE q[i - 1]
  <1>1. pos \in 0..Len(q) /\ Len(q) \in Nat
    BY InsertPositionInQueue
  <1> HIDE DEF pos
  <1>2. \A i \in 1..(Len(q) + 1) : at(i) \in S
    BY <1>1
  <1> HIDE DEF at
  <1>3. [i \in 1..(Len(q) + 1) |-> at(i)] \in Seq(S)
    BY <1>1, <1>2
  <1>4. Len([i \in 1..(Len(q) + 1) |-> at(i)]) = Len(q) + 1
    BY <1>1, <1>3
  <1> QED
    BY <1>3, <1>4 DEF Insert, pos, at

\* A set of positions that holds every position in front of one of its own is the
\* beginning of the queue.
LEMMA InitialPositions ==
    ASSUME NEW n \in Nat, NEW P \in SUBSET (1..n),
           \A i \in P : \A j \in 1..i : j \in P
    PROVE  P = 1..Cardinality(P)
  <1>0. \A m \in Nat : IsFiniteSet(1..m) /\ Cardinality(1..m) = m
    BY FS_Interval
  <1>1. IsFiniteSet(P) /\ Cardinality(P) \in Nat
    BY <1>0, FS_Subset, FS_CardinalityType
  <1>2. ASSUME NEW i \in 1..Cardinality(P), i \notin P PROVE FALSE
    <2>1. P \subseteq 1..(i - 1)
      BY <1>1, <1>2
    <2>2. i - 1 \in Nat
      BY <1>1
    <2>3. IsFiniteSet(1..(i - 1)) /\ Cardinality(1..(i - 1)) = i - 1
      BY <1>0, <2>2
    <2>4. Cardinality(P) <= Cardinality(1..(i - 1))
      BY <2>1, <2>3, FS_Subset
    <2> QED
      BY <1>1, <2>3, <2>4
  <1>3. ASSUME NEW i \in P PROVE i \in 1..Cardinality(P)
    <2>1. 1..i \subseteq P /\ i \in Nat
      OBVIOUS
    <2>2. Cardinality(1..i) <= Cardinality(P)
      BY <1>1, <2>1, FS_Subset
    <2> QED
      BY <1>0, <1>1, <2>1, <2>2
  <1> QED
    BY <1>2, <1>3

\* A pushed item joins the queue's items, and those keep their places among themselves.
LEMMA InsertPositions ==
    ASSUME NEW S, NEW q \in Seq(S), NEW item \in S, NEW prio
    PROVE  \E pos \in 0..Len(q) :
              /\ pos = InsertPosition(q, prio[item], prio)
              /\ Len(Insert(q, item, prio)) = Len(q) + 1
              /\ \A i \in 1..(Len(q) + 1) :
                    Insert(q, item, prio)[i] =
                       IF i <= pos THEN q[i] ELSE IF i = pos + 1 THEN item ELSE q[i - 1]
  <1> DEFINE pos == InsertPosition(q, prio[item], prio)
  <1>1. pos \in 0..Len(q) /\ Len(q) \in Nat
    BY InsertPositionInQueue
  <1>2. Len(Insert(q, item, prio)) = Len(q) + 1
    BY InsertType
  <1>3. \A i \in 1..(Len(q) + 1) :
           Insert(q, item, prio)[i] =
              IF i <= pos THEN q[i] ELSE IF i = pos + 1 THEN item ELSE q[i - 1]
    BY DEF Insert
  <1> QED
    BY <1>1, <1>2, <1>3

InSeq(t, q) == \E i \in 1..Len(q) : q[i] = t
Distinct(q) == \A i, j \in 1..Len(q) : q[i] = q[j] => i = j

\* The items of a queue after a push are those before it and the new one.
LEMMA InsertItems ==
    ASSUME NEW S, NEW q \in Seq(S), NEW item \in S, NEW prio
    PROVE  \A t : InSeq(t, Insert(q, item, prio)) <=> InSeq(t, q) \/ t = item
  <1> DEFINE r == Insert(q, item, prio)
  <1>1. PICK pos \in 0..Len(q) :
           /\ Len(r) = Len(q) + 1
           /\ \A i \in 1..(Len(q) + 1) :
                 r[i] = IF i <= pos THEN q[i] ELSE IF i = pos + 1 THEN item ELSE q[i - 1]
    BY InsertPositions
  <1>2. Len(q) \in Nat
    OBVIOUS
  <1> HIDE DEF r
  <1>3. ASSUME NEW t, NEW i \in 1..Len(r), r[i] = t PROVE InSeq(t, q) \/ t = item
    BY <1>1, <1>2, <1>3 DEF InSeq
  <1>4. ASSUME NEW i \in 1..Len(q) PROVE InSeq(q[i], r)
    <2>1. CASE i <= pos
      BY <1>1, <1>2, <2>1 DEF InSeq
    <2>2. CASE i > pos
      <3>1. i + 1 \in 1..Len(r) /\ r[i + 1] = q[i]
        BY <1>1, <1>2, <2>2
      <3> QED
        BY <3>1 DEF InSeq
    <2> QED
      BY <2>1, <2>2, <1>2
  <1>5. InSeq(item, r)
    <2>1. pos + 1 \in 1..Len(r) /\ r[pos + 1] = item
      BY <1>1, <1>2
    <2> QED
      BY <2>1 DEF InSeq
  <1> QED
    BY <1>3, <1>4, <1>5 DEF InSeq, r

\* A push of an item that is not queued leaves every item queued once.
LEMMA InsertDistinct ==
    ASSUME NEW S, NEW q \in Seq(S), NEW item \in S, NEW prio
    PROVE  Distinct(q) /\ ~InSeq(item, q) => Distinct(Insert(q, item, prio))
  <1> DEFINE r == Insert(q, item, prio)
  <1>1. PICK pos \in 0..Len(q) :
           /\ Len(r) = Len(q) + 1
           /\ \A i \in 1..(Len(q) + 1) :
                 r[i] = IF i <= pos THEN q[i] ELSE IF i = pos + 1 THEN item ELSE q[i - 1]
    BY InsertPositions
  <1>2. Len(q) \in Nat
    OBVIOUS
  <1> HIDE DEF r
  <1>3. ASSUME Distinct(q), ~InSeq(item, q),
               NEW i \in 1..Len(r), NEW j \in 1..Len(r), r[i] = r[j]
        PROVE  i = j
    BY <1>1, <1>2, <1>3, SMTT(30) DEF Distinct, InSeq
  <1> QED
    BY <1>3 DEF Distinct, r

Ordered(q, prio) == \A i, j \in 1..Len(q) : i <= j => prio[q[i]] >= prio[q[j]]

\* A push keeps the queue in the order of the priorities.
LEMMA InsertOrdered ==
    ASSUME NEW S, NEW q \in Seq(S), NEW item \in S, NEW prio
    PROVE  (\A t \in S : prio[t] \in Int) /\ Ordered(q, prio)
              => Ordered(Insert(q, item, prio), prio)
  <1> DEFINE r == Insert(q, item, prio)
             before == {i \in 1..Len(q) : prio[q[i]] >= prio[item]}
  <1>1. PICK pos \in 0..Len(q) :
           /\ pos = InsertPosition(q, prio[item], prio)
           /\ Len(r) = Len(q) + 1
           /\ \A i \in 1..(Len(q) + 1) :
                 r[i] = IF i <= pos THEN q[i] ELSE IF i = pos + 1 THEN item ELSE q[i - 1]
    BY InsertPositions
  <1> HIDE DEF r
  <1> SUFFICES ASSUME \A t \in S : prio[t] \in Int, Ordered(q, prio)
               PROVE  Ordered(r, prio)
    BY DEF r
  <1>2. /\ Len(q) \in Nat
        /\ \A i \in 1..Len(q) : q[i] \in S /\ prio[q[i]] \in Int
        /\ prio[item] \in Int
    OBVIOUS
  <1>3. before = 1..pos
    <2>1. \A i \in before : \A j \in 1..i : j \in before
      <3>1. ASSUME NEW i \in before, NEW j \in 1..i PROVE j \in before
        <4>1. i \in 1..Len(q) /\ j \in 1..Len(q) /\ j <= i
          BY <1>2
        <4>2. prio[q[j]] >= prio[q[i]] /\ prio[q[i]] >= prio[item]
          BY <4>1 DEF Ordered
        <4> QED
          BY <1>2, <4>1, <4>2
      <3> QED
        BY <3>1
    <2>2. before \in SUBSET (1..Len(q))
      OBVIOUS
    <2> HIDE DEF before
    <2>3. before = 1..Cardinality(before)
      BY <1>2, <2>1, <2>2, InitialPositions
    <2>4. pos = Cardinality(before)
      BY <1>1 DEF InsertPosition, before
    <2> QED
      BY <2>3, <2>4
  <1>4. /\ \A i \in 1..pos : prio[q[i]] >= prio[item]
        /\ \A i \in (pos + 1)..Len(q) : prio[item] >= prio[q[i]]
    <2>1. \A i \in 1..Len(q) : i \in 1..pos <=> prio[q[i]] >= prio[item]
      BY <1>3
    <2> QED
      BY <1>1, <1>2, <2>1
  <1>5. ASSUME NEW i \in 1..Len(r), NEW j \in 1..Len(r), i < j
        PROVE  prio[r[i]] >= prio[r[j]]
    <2>1. \A k, l \in 1..Len(q) : k <= l => prio[q[k]] >= prio[q[l]]
      BY DEF Ordered
    <2>2. i \in 1..(Len(q) + 1) /\ j \in 1..(Len(q) + 1)
      BY <1>1
    <2>3. CASE j <= pos
      <3>1. i \in 1..Len(q) /\ j \in 1..Len(q) /\ i <= j
        BY <1>2, <1>5, <2>2, <2>3
      <3>2. r[i] = q[i] /\ r[j] = q[j]
        BY <1>1, <1>2, <1>5, <2>2, <2>3
      <3> QED
        BY <2>1, <3>1, <3>2
    <2>4. CASE i <= pos /\ j = pos + 1
      BY <1>1, <1>2, <1>4, <1>5, <2>2, <2>4, SMTT(30)
    <2>5. CASE i <= pos /\ j > pos + 1
      <3>1. i \in 1..Len(q) /\ j - 1 \in 1..Len(q) /\ i <= j - 1
        BY <1>2, <2>2, <2>5
      <3>2. r[i] = q[i] /\ r[j] = q[j - 1]
        BY <1>1, <1>2, <2>2, <2>5
      <3> QED
        BY <2>1, <3>1, <3>2
    <2>6. CASE i = pos + 1
      <3>1. j - 1 \in (pos + 1)..Len(q) /\ r[j] = q[j - 1] /\ r[i] = item
        BY <1>1, <1>2, <1>5, <2>2, <2>6
      <3> QED
        BY <1>4, <3>1
    <2>7. CASE i > pos + 1
      <3>1. i - 1 \in 1..Len(q) /\ j - 1 \in 1..Len(q) /\ i - 1 <= j - 1
        BY <1>2, <1>5, <2>2, <2>7
      <3>2. r[i] = q[i - 1] /\ r[j] = q[j - 1]
        BY <1>1, <1>2, <1>5, <2>2, <2>7
      <3> QED
        BY <2>1, <3>1, <3>2
    <2> QED
      BY <1>1, <1>2, <1>5, <2>2, <2>3, <2>4, <2>5, <2>6, <2>7
  <1>6. ASSUME NEW i \in 1..Len(r) PROVE prio[r[i]] >= prio[r[i]]
    <2>1. r \in Seq(S)
      BY InsertType DEF r
    <2>2. r[i] \in S
      BY <2>1
    <2>3. prio[r[i]] \in Int
      BY <2>2
    <2> QED
      BY <2>3
  <1>7. ASSUME NEW i \in 1..Len(r), NEW j \in 1..Len(r), i <= j
        PROVE  prio[r[i]] >= prio[r[j]]
    <2>1. i \in Int /\ j \in Int
      OBVIOUS
    <2>2. i < j \/ i = j
      BY <1>7, <2>1
    <2> QED
      BY <1>5, <1>6, <2>2
  <1> QED
    BY <1>7 DEF Ordered

\* The queue after a pop: its items are the others, each still queued once.
LEMMA TailItems ==
    ASSUME NEW S, NEW q \in Seq(S), q # <<>>, Distinct(q)
    PROVE  /\ InSeq(Head(q), q)
           /\ \A t : InSeq(t, Tail(q)) <=> InSeq(t, q) /\ t # Head(q)
           /\ Distinct(Tail(q))
  <1>1. /\ Len(q) \in Nat /\ Len(q) >= 1
        /\ Head(q) = q[1]
        /\ Len(Tail(q)) = Len(q) - 1
        /\ \A i \in 1..(Len(q) - 1) : Tail(q)[i] = q[i + 1]
    OBVIOUS
  <1>2. InSeq(Head(q), q)
    BY <1>1 DEF InSeq
  <1>3. ASSUME NEW t, InSeq(t, Tail(q)) PROVE InSeq(t, q) /\ t # Head(q)
    <2>1. PICK i \in 1..(Len(q) - 1) : Tail(q)[i] = t
      BY <1>1, <1>3 DEF InSeq
    <2>2. q[i + 1] = t /\ i + 1 \in 1..Len(q) /\ 1 \in 1..Len(q) /\ i + 1 # 1
      BY <1>1, <2>1
    <2> QED
      BY <1>1, <2>2 DEF InSeq, Distinct
  <1>4. ASSUME NEW t, InSeq(t, q), t # Head(q) PROVE InSeq(t, Tail(q))
    <2>1. PICK i \in 1..Len(q) : q[i] = t
      BY <1>4 DEF InSeq
    <2>2. i - 1 \in 1..(Len(q) - 1) /\ Tail(q)[i - 1] = t
      BY <1>1, <1>4, <2>1
    <2> QED
      BY <1>1, <2>2 DEF InSeq
  <1>5. Distinct(Tail(q))
    <2>1. ASSUME NEW i \in 1..(Len(q) - 1), NEW j \in 1..(Len(q) - 1),
                 q[i + 1] = q[j + 1]
          PROVE  i = j
      <3>1. i + 1 \in 1..Len(q) /\ j + 1 \in 1..Len(q)
        BY <1>1
      <3>2. i + 1 = j + 1
        BY <2>1, <3>1 DEF Distinct
      <3> QED
        BY <3>2
    <2> QED
      BY <1>1, <2>1 DEF Distinct
  <1> QED
    BY <1>2, <1>3, <1>4, <1>5
\* A pop leaves the others in their order, and takes one of the highest priority.
LEMMA TailOrdered ==
    ASSUME NEW S, NEW q \in Seq(S), q # <<>>, NEW prio
    PROVE  Ordered(q, prio) =>
              /\ Ordered(Tail(q), prio)
              /\ \A t : InSeq(t, q) => prio[Head(q)] >= prio[t]
  <1>1. /\ Len(q) \in Nat /\ Len(q) >= 1
        /\ Head(q) = q[1]
        /\ Len(Tail(q)) = Len(q) - 1
        /\ \A i \in 1..(Len(q) - 1) : Tail(q)[i] = q[i + 1]
    OBVIOUS
  <1> SUFFICES ASSUME Ordered(q, prio)
               PROVE  /\ Ordered(Tail(q), prio)
                      /\ \A t : InSeq(t, q) => prio[Head(q)] >= prio[t]
    OBVIOUS
  <1>2. ASSUME NEW i \in 1..(Len(q) - 1), NEW j \in 1..(Len(q) - 1), i <= j
        PROVE  prio[q[i + 1]] >= prio[q[j + 1]]
    <2>1. i + 1 \in 1..Len(q) /\ j + 1 \in 1..Len(q) /\ i + 1 <= j + 1
      BY <1>1, <1>2
    <2> QED
      BY <2>1 DEF Ordered
  <1>3. Ordered(Tail(q), prio)
    BY <1>1, <1>2 DEF Ordered
  <1>4. ASSUME NEW t, InSeq(t, q) PROVE prio[Head(q)] >= prio[t]
    <2>1. PICK i \in 1..Len(q) : q[i] = t
      BY <1>4 DEF InSeq
    <2>2. 1 \in 1..Len(q) /\ 1 <= i
      BY <1>1
    <2> QED
      BY <1>1, <2>1, <2>2 DEF Ordered
  <1> QED
    BY <1>3, <1>4

-----------------------------------------------------------------------------
(* Type correctness.  That num_running stays in 0..NumThreads needs the    *)
(* other invariants; here it is an integer.                                *)

ThreadTypes ==
    /\ lock \in Threads \cup {Free}
    /\ running \in BOOLEAN /\ stop \in BOOLEAN /\ retired \in BOOLEAN
    /\ num_running \in Int
    /\ pc \in [Threads -> WorkerLocs \cup ClientLocs]
    /\ \A w \in Workers : pc[w] \in WorkerLocs
    /\ \A c \in Clients : pc[c] \in ClientLocs

TaskTypes ==
    /\ tasks \in Seq(Tasks)
    /\ task \in [Threads -> Tasks \cup {NoTask}]
    /\ fate \in [Tasks -> Fates]
    /\ \A c \in Clients : pc[c] \in {"add_lock", "add_cs"} => task[c] \in Tasks
    /\ \A w \in Workers : pc[w] = "w_run" => task[w] \in Tasks

\* A thread that leaves cond_wait stays in the function it is in.
LEMMA RelockType ==
    /\ \A loc \in WorkerLocs : Relock(loc) \in WorkerLocs
    /\ \A loc \in ClientLocs : Relock(loc) \in ClientLocs
  BY DEF Relock, WorkerLocs, ClientLocs

\* The workers are numbered from 0, and no client is one of them.
LEMMA ThreadSets ==
    /\ Threads = Workers \cup Clients
    /\ \A c \in Clients : c \notin Workers
    /\ Free \notin Threads
    /\ \A w \in Workers : w \in Nat
  BY ClientsAssumption, NumThreadsAssumption DEF Threads, Workers

\* ucb_threadpool_new leaves every thread outside the pool's functions.
LEMMA ThreadTypesInit == Init => ThreadTypes
  <1>1. "none" \in WorkerLocs /\ "out" \in ClientLocs
    BY DEF WorkerLocs, ClientLocs
  <1>2. ASSUME Init PROVE /\ pc \in [Threads -> WorkerLocs \cup ClientLocs]
                          /\ \A w \in Workers : pc[w] \in WorkerLocs
                          /\ \A c \in Clients : pc[c] \in ClientLocs
    BY <1>1, <1>2, ThreadSets DEF Init
  <1>3. ASSUME Init PROVE lock \in Threads \cup {Free} /\ num_running \in Int
    BY <1>3 DEF Init
  <1>4. ASSUME Init PROVE running \in BOOLEAN /\ stop \in BOOLEAN /\ retired \in BOOLEAN
    BY <1>4, Zenon DEF Init
  <1> QED
    BY <1>2, <1>3, <1>4 DEF ThreadTypes

\* Workers stay in ucb_threadpool_worker and clients in the functions they may call,
\* with a task in hand where the code has one.
LEMMA ThreadTypesStep == ThreadTypes /\ [Next]_vars => ThreadTypes'
  <1> SUFFICES ASSUME ThreadTypes, [Next]_vars PROVE ThreadTypes'
    OBVIOUS
  <1> USE ThreadSets DEF ThreadTypes
  <1>1. CASE UNCHANGED vars
    BY <1>1 DEF vars
  <1>2. ASSUME NEW t \in Threads, Acquire(t) PROVE ThreadTypes'
    BY <1>2 DEF Acquire, LockPoints, WorkerLocs, ClientLocs
  <1>3. ASSUME NEW t \in Threads, SpuriousWakeup(t) PROVE ThreadTypes'
    BY <1>3, RelockType DEF SpuriousWakeup, Goto
  <1>4. ASSUME NEW w \in Workers, WorkerStep(w) PROVE ThreadTypes'
    <2>1. CASE WorkerSleep(w)
      BY <2>1 DEF WorkerSleep, Goto, Unlock, WorkerLocs
    <2>2. CASE WorkerExit(w)
      BY <2>2 DEF WorkerExit, Goto, Unlock, WorkerLocs
    <2>3. CASE WorkerTake(w)
      BY <2>3 DEF WorkerTake, CountUp, Goto, Unlock, WorkerLocs
    <2>4. CASE WorkerRun(w)
      BY <2>4 DEF WorkerRun, Goto, WorkerLocs
    <2>5. CASE WorkerFinish(w)
      <3>1. "w_lock" \in WorkerLocs
        BY DEF WorkerLocs
      <3> QED
        BY <2>5, <3>1, RelockType DEF WorkerFinish, CountDown, Move, Unlock
    <2> QED
      BY <1>4, <2>1, <2>2, <2>3, <2>4, <2>5 DEF WorkerStep
  <1>5. ASSUME NEW c \in Clients, CallStep(c) PROVE ThreadTypes'
    <2>1. ASSUME NEW t \in Tasks, CallAdd(c, t) PROVE ThreadTypes'
      BY <2>1 DEF CallAdd, Goto, ClientLocs
    <2>2. CASE Call(c)
      BY <2>2 DEF Call, Entry, Goto, ClientLocs
    <2>3. CASE CallFree(c)
      BY <2>3 DEF CallFree, Goto, ClientLocs
    <2> QED
      BY <1>5, <2>1, <2>2, <2>3 DEF CallStep
  <1>6. ASSUME NEW c \in Clients, ClientStep(c) PROVE ThreadTypes'
    <2>1. ASSUME NEW loc \in ClientLocs, StartAll(c, loc), lock' \in {lock, Free},
                 UNCHANGED <<num_running, retired>>
          PROVE  ThreadTypes'
      BY <2>1 DEF StartAll, WorkerLocs
    <2>2. ASSUME NEW n \in 0..(NumThreads - 1), StartSome(c, n),
                 UNCHANGED <<num_running, retired>>
          PROVE  ThreadTypes'
      <3>1. "w_lock" \in WorkerLocs /\ "reap_threads" \in ClientLocs
        BY DEF WorkerLocs, ClientLocs
      <3>2. 1..n \subseteq Workers
        BY NumThreadsAssumption DEF Workers
      <3>3. pc' \in [Threads -> WorkerLocs \cup ClientLocs]
        BY <2>2, <3>1, <3>2, RelockType DEF StartSome, TaskWaiters
      <3>4. \A w \in Workers : pc'[w] \in WorkerLocs
        BY <2>2, <3>1, <3>2, RelockType DEF StartSome
      <3>5. \A d \in Clients : pc'[d] \in ClientLocs
        BY <2>2, <3>1, <3>2, RelockType DEF StartSome
      <3> QED
        BY <2>2, <3>3, <3>4, <3>5 DEF StartSome, StopStarted, Unlock
    <2>3. CASE AddTask(c)
      BY <2>3, RelockType, "out" \in ClientLocs DEF AddTask, Move, Unlock, ClientLocs
    <2>4. CASE AddTaskFail(c)
      BY <2>4 DEF AddTaskFail, Goto, Unlock, ClientLocs
    <2>5. CASE Start(c)
      <3>1. CASE running
        BY <2>5, <3>1 DEF Start, Goto, Unlock, ClientLocs
      <3>2. CASE ~running
        BY <2>1, <2>2, <2>5, <3>2, NumThreadsAssumption DEF Start, Unlock, ClientLocs
      <3> QED
        BY <3>1, <3>2
    <2>6. ASSUME NEW w \in Workers, JoinThread(c, w) PROVE ThreadTypes'
      BY <2>6 DEF JoinThread, Goto, WorkerLocs
    <2>7. CASE JoinThreadsDone(c)
      BY <2>7 DEF JoinThreadsDone, Goto, ClientLocs
    <2>8. CASE ReapFinal(c)
      BY <2>8 DEF ReapFinal, Stopped, Goto, Unlock, ClientLocs
    <2>9. CASE WaitEnter(c)
      <3>1. CASE ~running /\ tasks # <<>>
        BY <2>1, <2>2, <2>9, <3>1, NumThreadsAssumption DEF WaitEnter, ClientLocs
      <3>2. CASE ~(~running /\ tasks # <<>>)
        BY <2>9, <3>2 DEF WaitEnter, Goto, ClientLocs
      <3> QED
        BY <3>1, <3>2
    <2>10. CASE WaitSleep(c)
      BY <2>10 DEF WaitSleep, Goto, Unlock, ClientLocs
    <2>11. CASE WaitReturn(c)
      BY <2>11 DEF WaitReturn, Goto, Unlock, ClientLocs
    <2>12. CASE JoinIdle(c)
      BY <2>12 DEF JoinIdle, JoinReturn, Goto, Unlock, ClientLocs
    <2>13. CASE JoinStop(c)
      <3>1. "join_loop" \in ClientLocs
        BY DEF ClientLocs
      <3> QED
        BY <2>13, <3>1, RelockType DEF JoinStop, Move
    <2>14. CASE JoinSleep(c)
      BY <2>14 DEF JoinSleep, Goto, Unlock, ClientLocs
    <2>15. CASE JoinIdleWorkers(c)
      BY <2>15 DEF JoinIdleWorkers, AfterJoinLoop, Goto, Unlock, ClientLocs
    <2>16. CASE JoinFinal(c)
      BY <2>16 DEF JoinFinal, Stopped, JoinReturn, Goto, Unlock, ClientLocs
    <2>17. CASE Release(c)
      BY <2>17 DEF Release, Goto, ClientLocs
    <2> QED
      BY <1>6, <2>3, <2>4, <2>5, <2>6, <2>7, <2>8, <2>9, <2>10, <2>11, <2>12,
         <2>13, <2>14, <2>15, <2>16, <2>17 DEF ClientStep
  <1> QED
    BY <1>1, <1>2, <1>3, <1>4, <1>5, <1>6 DEF Next
-----------------------------------------------------------------------------
(* The mutex.                                                              *)

\* No thread that waits for the lock or sleeps is in a critical section.
LEMMA CriticalLocs ==
    Critical = {"w_check", "w_finish", "add_cs", "start_cs", "wait_cs", "wait_loop",
                "join_cs", "join_loop", "join_final", "reap_final"}
  BY DEF Critical, LockPoints

\* A thread that leaves cond_wait does not hold the lock yet.
LEMMA RelockOutside == \A loc : loc \notin Critical => Relock(loc) \notin Critical
  BY CriticalLocs DEF Relock

\* Init and every step keep the lock with the thread in a critical section.
LEMMA LockDisciplineInit == Init => LockDiscipline
  <1>1. "none" \notin Critical /\ "out" \notin Critical
    BY CriticalLocs
  <1> QED
    BY <1>1, ThreadSets DEF Init, LockDiscipline

\* Every step of worker, add_task, start, wait_all, join and free keeps it there.
LEMMA LockDisciplineStep ==
    ThreadTypes /\ LockDiscipline /\ [Next]_vars => LockDiscipline'
  <1> SUFFICES ASSUME ThreadTypes, LockDiscipline, [Next]_vars PROVE LockDiscipline'
    OBVIOUS
  <1> USE ThreadSets DEF LockDiscipline
  <1>0. pc \in [Threads -> WorkerLocs \cup ClientLocs]
    BY DEF ThreadTypes
  <1>1. CASE UNCHANGED vars
    BY <1>1 DEF vars
  <1>2. ASSUME NEW t \in Threads, Acquire(t) PROVE LockDiscipline'
    BY <1>0, <1>2 DEF Acquire, Critical
  <1>3. ASSUME NEW t \in Threads, SpuriousWakeup(t) PROVE LockDiscipline'
    <2>1. pc[t] \notin Critical
      BY <1>3, CriticalLocs DEF SpuriousWakeup, TaskWaiters, FinishWaiters
    <2> QED
      BY <1>0, <1>3, <2>1, RelockOutside DEF SpuriousWakeup, Goto
  <1>4. ASSUME NEW w \in Workers, WorkerStep(w) PROVE LockDiscipline'
    <2>1. CASE WorkerSleep(w)
      BY <1>0, <2>1, CriticalLocs DEF WorkerSleep, Goto, Unlock
    <2>2. CASE WorkerExit(w)
      BY <1>0, <2>2, CriticalLocs DEF WorkerExit, Goto, Unlock
    <2>3. CASE WorkerTake(w)
      BY <1>0, <2>3, CriticalLocs DEF WorkerTake, Goto, Unlock
    <2>4. CASE WorkerRun(w)
      BY <1>0, <2>4, CriticalLocs DEF WorkerRun, Goto
    <2>5. CASE WorkerFinish(w)
      BY <1>0, <2>5, RelockOutside, CriticalLocs DEF WorkerFinish, Move, Unlock
    <2> QED
      BY <1>4, <2>1, <2>2, <2>3, <2>4, <2>5 DEF WorkerStep
  <1>5. ASSUME NEW c \in Clients, CallStep(c) PROVE LockDiscipline'
    <2>1. ASSUME NEW t \in Tasks, CallAdd(c, t) PROVE LockDiscipline'
      BY <1>0, <2>1, CriticalLocs DEF CallAdd, Goto
    <2>2. CASE Call(c)
      BY <1>0, <2>2, CriticalLocs DEF Call, Entry, Goto
    <2>3. CASE CallFree(c)
      BY <1>0, <2>3, CriticalLocs DEF CallFree, Goto
    <2> QED
      BY <1>5, <2>1, <2>2, <2>3 DEF CallStep
  <1>6. ASSUME NEW c \in Clients, ClientStep(c) PROVE LockDiscipline'
    <2>1. ASSUME pc[c] \in {"start_cs", "wait_cs"},
                 \/ StartAll(c, "out") /\ Unlock
                 \/ StartAll(c, "wait_loop") /\ UNCHANGED lock
                 \/ \E n \in 0..(NumThreads - 1) : StartSome(c, n)
          PROVE  LockDiscipline'
      <3>1. CASE StartAll(c, "out") /\ Unlock
        BY <1>0, <2>1, <3>1, CriticalLocs DEF StartAll, Unlock
      <3>2. CASE StartAll(c, "wait_loop") /\ UNCHANGED lock
        BY <1>0, <2>1, <3>2, CriticalLocs DEF StartAll
      <3>3. ASSUME NEW n \in 0..(NumThreads - 1), StartSome(c, n) PROVE LockDiscipline'
        <4>1. 1..n \subseteq Workers
          BY NumThreadsAssumption DEF Workers
        <4> QED
          BY <1>0, <2>1, <3>3, <4>1, RelockOutside, CriticalLocs
          DEF StartSome, TaskWaiters, Unlock
      <3> QED
        BY <2>1, <3>1, <3>2, <3>3
    <2>2. CASE AddTask(c)
      BY <1>0, <2>2, RelockOutside, CriticalLocs DEF AddTask, Move, Unlock
    <2>3. CASE AddTaskFail(c)
      BY <1>0, <2>3, CriticalLocs DEF AddTaskFail, Goto, Unlock
    <2>4. CASE Start(c)
      <3>1. CASE running
        BY <1>0, <2>4, <3>1, CriticalLocs DEF Start, Goto, Unlock
      <3>2. CASE ~running
        BY <2>1, <2>4, <3>2 DEF Start
      <3> QED
        BY <3>1, <3>2
    <2>5. ASSUME NEW w \in Workers, JoinThread(c, w) PROVE LockDiscipline'
      BY <1>0, <2>5, CriticalLocs DEF JoinThread, Goto
    <2>6. CASE JoinThreadsDone(c)
      BY <1>0, <2>6, CriticalLocs DEF JoinThreadsDone, Goto
    <2>7. CASE ReapFinal(c)
      BY <1>0, <2>7, CriticalLocs DEF ReapFinal, Goto, Unlock
    <2>8. CASE WaitEnter(c)
      <3>1. CASE ~running /\ tasks # <<>>
        BY <2>1, <2>8, <3>1 DEF WaitEnter
      <3>2. CASE ~(~running /\ tasks # <<>>)
        BY <1>0, <2>8, <3>2, CriticalLocs DEF WaitEnter, Goto
      <3> QED
        BY <3>1, <3>2
    <2>9. CASE WaitSleep(c)
      BY <1>0, <2>9, CriticalLocs DEF WaitSleep, Goto, Unlock
    <2>10. CASE WaitReturn(c)
      BY <1>0, <2>10, CriticalLocs DEF WaitReturn, Goto, Unlock
    <2>11. CASE JoinIdle(c)
      BY <1>0, <2>11, CriticalLocs DEF JoinIdle, JoinReturn, Goto, Unlock
    <2>12. CASE JoinStop(c)
      BY <1>0, <2>12, RelockOutside, CriticalLocs DEF JoinStop, Move
    <2>13. CASE JoinSleep(c)
      BY <1>0, <2>13, CriticalLocs DEF JoinSleep, Goto, Unlock
    <2>14. CASE JoinIdleWorkers(c)
      BY <1>0, <2>14, CriticalLocs DEF JoinIdleWorkers, AfterJoinLoop, Goto, Unlock
    <2>15. CASE JoinFinal(c)
      BY <1>0, <2>15, CriticalLocs DEF JoinFinal, JoinReturn, Goto, Unlock
    <2>16. CASE Release(c)
      BY <1>0, <2>16, CriticalLocs DEF Release, Goto
    <2> QED
      BY <1>6, <2>2, <2>3, <2>4, <2>5, <2>6, <2>7, <2>8, <2>9, <2>10, <2>11, <2>12,
         <2>13, <2>14, <2>15, <2>16 DEF ClientStep
  <1> QED
    BY <1>1, <1>2, <1>3, <1>4, <1>5, <1>6 DEF Next
-----------------------------------------------------------------------------
(* Who may be where: a client is only inside functions that Ops lets it    *)
(* call, and only a start that may fail is reaped.                         *)

ReapLocs  == {"reap_threads", "reap_lock", "reap_final"}
Starts(c) == ~(Ops[c] \subseteq {"add_task"})

Entitled ==
    \A c \in Clients :
        /\ pc[c] \in {"start_lock", "start_cs"} \cup WaitLocs => Starts(c)
        /\ pc[c] \in ReapLocs => StartMayFail /\ Starts(c)
        /\ pc[c] \in WaitLocs => "wait_all" \in Ops[c]
        /\ pc[c] \in JoinLocs => JoinsWorkers(c)

\* Initially no client is in start, wait_all or join.
LEMMA EntitledInit == Init => Entitled
  BY ThreadSets DEF Init, Entitled, ReapLocs, WaitLocs, JoinLocs

\* A client is in the code that starts, reaps or joins only if it may make that call.
LEMMA EntitledStep == ThreadTypes /\ Entitled /\ [Next]_vars => Entitled'
  <1> SUFFICES ASSUME ThreadTypes, Entitled, [Next]_vars PROVE Entitled'
    OBVIOUS
  <1> USE ThreadSets DEF Entitled, ReapLocs, WaitLocs, JoinLocs
  <1>0. pc \in [Threads -> WorkerLocs \cup ClientLocs]
    BY DEF ThreadTypes
  <1>1. CASE UNCHANGED vars
    BY <1>1 DEF vars
  <1>2. ASSUME NEW t \in Threads, Acquire(t) PROVE Entitled'
    BY <1>0, <1>2 DEF Acquire, LockPoints
  <1>3. ASSUME NEW t \in Threads, SpuriousWakeup(t) PROVE Entitled'
    BY <1>0, <1>3 DEF SpuriousWakeup, Goto, Relock, TaskWaiters, FinishWaiters
  <1>4. ASSUME NEW w \in Workers, WorkerStep(w) PROVE Entitled'
    <2>1. CASE WorkerFinish(w)
      BY <1>0, <2>1 DEF WorkerFinish, Move, Relock
    <2> QED
      BY <1>0, <1>4, <2>1
      DEF WorkerStep, WorkerSleep, WorkerExit, WorkerTake, WorkerRun, Goto
  <1>5. ASSUME NEW c \in Clients, CallStep(c) PROVE Entitled'
    BY <1>0, <1>5 DEF CallStep, CallAdd, Call, Entry, CallFree, Goto, Starts, JoinsWorkers
  <1>6. ASSUME NEW c \in Clients, ClientStep(c) PROVE Entitled'
    <2>1. ASSUME pc[c] \in {"start_cs", "wait_cs"},
                 \/ \E loc \in {"out", "wait_loop"} :
                       StartAll(c, loc) /\ (loc = "wait_loop" => pc[c] = "wait_cs")
                 \/ \E n \in 0..(NumThreads - 1) : StartSome(c, n)
          PROVE  Entitled'
      <3>1. ASSUME NEW n \in 0..(NumThreads - 1), StartSome(c, n) PROVE Entitled'
        <4>1. 1..n \subseteq Workers
          BY NumThreadsAssumption DEF Workers
        <4> QED
          BY <1>0, <2>1, <3>1, <4>1 DEF StartSome, TaskWaiters
      <3> QED
        BY <1>0, <2>1, <3>1 DEF StartAll
    <2>2. CASE Start(c)
      BY <1>0, <2>1, <2>2 DEF Start, Goto
    <2>3. CASE WaitEnter(c)
      BY <1>0, <2>1, <2>3 DEF WaitEnter, Goto
    <2>4. CASE AddTask(c) \/ AddTaskFail(c)
      BY <1>0, <2>4 DEF AddTask, AddTaskFail, Move, Goto, Relock
    <2>5. CASE \/ \E w \in Workers : JoinThread(c, w)
               \/ JoinThreadsDone(c) \/ ReapFinal(c)
      BY <1>0, <2>5 DEF JoinThread, JoinThreadsDone, ReapFinal, Goto
    <2>6. CASE WaitSleep(c) \/ WaitReturn(c)
      BY <1>0, <2>6 DEF WaitSleep, WaitReturn, Goto
    <2>7. CASE JoinIdle(c) \/ JoinStop(c) \/ JoinSleep(c)
      BY <1>0, <2>7 DEF JoinIdle, JoinStop, JoinSleep, JoinReturn, Move, Goto, Relock
    <2>8. CASE JoinIdleWorkers(c) \/ JoinFinal(c) \/ Release(c)
      BY <1>0, <2>8
      DEF JoinIdleWorkers, AfterJoinLoop, JoinFinal, JoinReturn, Release, Goto
    <2> QED
      BY <1>6, <2>2, <2>3, <2>4, <2>5, <2>6, <2>7, <2>8 DEF ClientStep
  <1> QED
    BY <1>1, <1>2, <1>3, <1>4, <1>5, <1>6 DEF Next
-----------------------------------------------------------------------------
(* The workers and the pool's state.  WorkersMatchState alone is not       *)
(* inductive: that no worker is left when join or a failed start reports   *)
(* needs to know that `stop` stays set meanwhile, because no other client  *)
(* can be closing or starting the pool.                                    *)

ClosedLocs  == {"join_lock2", "join_final", "reap_lock", "reap_final"}
ClosingLocs == {"join_loop", "join_sleep", "join_relock", "join_threads",
                "reap_threads"} \cup ClosedLocs

OneCloser ==
    /\ \A c \in Clients : pc[c] \in ClosingLocs => running /\ stop
    /\ \A c, d \in Clients : pc[c] \in ClosingLocs /\ pc[d] \in ClosingLocs => c = d
    /\ \A c \in Clients : pc[c] \in ClosedLocs => \A w \in Workers : pc[w] = "none"
    /\ stop => \E c \in Clients : pc[c] \in ClosingLocs

PoolState == WorkersMatchState /\ OneCloser

\* A new pool does not run, has no worker, and nobody closes it.
LEMMA PoolStateInit == Init => PoolState
  BY ThreadSets, Zenon
  DEF Init, PoolState, WorkersMatchState, OneCloser, ClosingLocs, ClosedLocs

\* Nobody else is closing the pool when a client enters join with the pool running.
LEMMA JoinerAlone ==
    ASSUME Entitled, NEW c \in Clients, pc[c] \in JoinLocs,
           NEW d \in Clients, c # d
    PROVE  pc[d] \notin ClosingLocs
  BY JoinContract DEF Entitled, Starts, ClosingLocs, ClosedLocs, JoinLocs, ReapLocs

\* Starting all workers, stopping those of a failed start, and joining them keep the
\* workers in step with `running` and `stop`, and leave one thread at most to close the pool.
LEMMA PoolStateStep ==
    ThreadTypes /\ Entitled /\ PoolState /\ [Next]_vars => PoolState'
  <1> SUFFICES ASSUME ThreadTypes, Entitled, PoolState, [Next]_vars PROVE PoolState'
    OBVIOUS
  <1> USE ThreadSets
      DEF PoolState, WorkersMatchState, OneCloser, ClosingLocs, ClosedLocs
  <1>0. pc \in [Threads -> WorkerLocs \cup ClientLocs]
    BY DEF ThreadTypes
  <1>1. CASE UNCHANGED vars
    BY <1>1 DEF vars
  <1>2. ASSUME NEW t \in Threads, Acquire(t) PROVE PoolState'
    BY <1>0, <1>2 DEF Acquire, LockPoints
  <1>3. ASSUME NEW t \in Threads, SpuriousWakeup(t) PROVE PoolState'
    BY <1>0, <1>3 DEF SpuriousWakeup, Goto, Relock, TaskWaiters, FinishWaiters
  <1>4. ASSUME NEW w \in Workers, WorkerStep(w) PROVE PoolState'
    <2>1. CASE WorkerFinish(w)
      BY <1>0, <2>1 DEF WorkerFinish, Move, Relock
    <2>2. CASE WorkerSleep(w) \/ WorkerExit(w)
      BY <1>0, <2>2 DEF WorkerSleep, WorkerExit, Goto
    <2>3. CASE WorkerTake(w) \/ WorkerRun(w)
      BY <1>0, <2>3 DEF WorkerTake, WorkerRun, Goto
    <2> QED
      BY <1>4, <2>1, <2>2, <2>3 DEF WorkerStep
  <1>5. ASSUME NEW c \in Clients, CallStep(c) PROVE PoolState'
    BY <1>0, <1>5 DEF CallStep, CallAdd, Call, Entry, CallFree, Goto
  <1>6. ASSUME NEW c \in Clients, ClientStep(c) PROVE PoolState'
    <2>1. ASSUME ~running, pc[c] \in {"start_cs", "wait_cs"},
                 \/ \E loc \in {"out", "wait_loop"} : StartAll(c, loc)
                 \/ \E n \in 0..(NumThreads - 1) : StartSome(c, n)
          PROVE  PoolState'
      <3>1. ASSUME NEW n \in 0..(NumThreads - 1), StartSome(c, n) PROVE PoolState'
        <4>1. 1..n \subseteq Workers
          BY NumThreadsAssumption DEF Workers
        <4> QED
          BY <1>0, <2>1, <3>1, <4>1 DEF StartSome, StopStarted, TaskWaiters
      <3>2. ASSUME NEW loc \in {"out", "wait_loop"}, StartAll(c, loc) PROVE PoolState'
        BY <1>0, <2>1, <3>2 DEF StartAll
      <3> QED
        BY <2>1, <3>1, <3>2
    <2>2. CASE Start(c)
      <3>1. CASE running
        BY <1>0, <2>2, <3>1 DEF Start, Goto
      <3> QED
        BY <2>1, <2>2, <3>1 DEF Start
    <2>3. CASE WaitEnter(c)
      <3>1. CASE ~running /\ tasks # <<>>
        BY <2>1, <2>3, <3>1 DEF WaitEnter
      <3>2. CASE ~(~running /\ tasks # <<>>)
        BY <1>0, <2>3, <3>2 DEF WaitEnter, Goto
      <3> QED
        BY <3>1, <3>2
    <2>4. CASE AddTask(c) \/ AddTaskFail(c)
      BY <1>0, <2>4 DEF AddTask, AddTaskFail, Move, Goto, Relock
    <2>5. ASSUME NEW w \in Workers, JoinThread(c, w) PROVE PoolState'
      BY <1>0, <2>5 DEF JoinThread, Goto
    <2>6. CASE JoinThreadsDone(c)
      BY <1>0, <2>6 DEF JoinThreadsDone, Goto
    <2>7. CASE ReapFinal(c)
      BY <1>0, <2>7 DEF ReapFinal, Stopped, Goto
    <2>8. CASE WaitSleep(c) \/ WaitReturn(c)
      BY <1>0, <2>8 DEF WaitSleep, WaitReturn, Goto
    <2>9. CASE JoinIdle(c)
      BY <1>0, <2>9 DEF JoinIdle, JoinReturn, Goto
    <2>10. CASE JoinStop(c)
      BY <1>0, <2>10, JoinerAlone DEF JoinStop, JoinLocs, Move, Relock
    <2>11. CASE JoinSleep(c) \/ JoinIdleWorkers(c)
      BY <1>0, <2>11 DEF JoinSleep, JoinIdleWorkers, AfterJoinLoop, Goto
    <2>12. CASE JoinFinal(c)
      BY <1>0, <2>12 DEF JoinFinal, Stopped, JoinReturn, Goto
    <2>13. CASE Release(c)
      BY <1>0, <2>13 DEF Release, Goto
    <2> QED
      BY <1>6, <2>2, <2>3, <2>4, <2>5, <2>6, <2>7, <2>8, <2>9, <2>10, <2>11, <2>12,
         <2>13 DEF ClientStep
  <1> QED
    BY <1>1, <1>2, <1>3, <1>4, <1>5, <1>6 DEF Next
-----------------------------------------------------------------------------
(* The count of running tasks.                                             *)

\* The workers between taking and finishing a task are finitely many, at most num_threads.
LEMMA BusyFinite ==
    /\ IsFiniteSet(Busy)
    /\ Cardinality(Busy) \in 0..NumThreads
  <1>1. /\ IsFiniteSet(Workers)
        /\ Cardinality(Workers) = NumThreads
    BY NumThreadsAssumption, FS_Interval DEF Workers
  <1>2. Busy \subseteq Workers
    BY DEF Busy
  <1>3. IsFiniteSet(Busy) /\ Cardinality(Busy) <= NumThreads
    BY <1>1, <1>2, FS_Subset
  <1> QED
    BY <1>3, FS_CardinalityType, NumThreadsAssumption

\* num_running starts at 0 with no task in hand.
LEMMA RunningCountInit == Init => RunningCount
  <1> SUFFICES ASSUME Init PROVE RunningCount
    OBVIOUS
  <1>1. Busy = {}
    BY ThreadSets DEF Init, Busy
  <1> QED
    BY <1>1, FS_EmptySet DEF Init, RunningCount

\* num_running is counted up with the take and down after the task has run.
LEMMA RunningCountStep ==
    ThreadTypes /\ PoolState /\ RunningCount /\ [Next]_vars => RunningCount'
  <1> SUFFICES ASSUME ThreadTypes, PoolState, RunningCount, [Next]_vars
               PROVE  RunningCount'
    OBVIOUS
  <1> USE ThreadSets
  <1> DEFINE SameBusy == Busy' = Busy /\ num_running' = num_running
  <1>0. pc \in [Threads -> WorkerLocs \cup ClientLocs]
    BY DEF ThreadTypes
  <1>1. CASE UNCHANGED vars
    BY <1>1 DEF vars, Busy, RunningCount
  <1>2. ASSUME NEW t \in Threads, Acquire(t) PROVE SameBusy
    BY <1>0, <1>2 DEF Acquire, LockPoints, Busy
  <1>3. ASSUME NEW t \in Threads, SpuriousWakeup(t) PROVE SameBusy
    BY <1>0, <1>3 DEF SpuriousWakeup, Goto, Relock, TaskWaiters, FinishWaiters, Busy
  <1>4. ASSUME NEW w \in Workers, WorkerStep(w) PROVE RunningCount'
    <2>1. CASE WorkerTake(w)
      <3>1. w \notin Busy /\ Busy' = Busy \cup {w}
        BY <1>0, <2>1 DEF WorkerTake, Goto, Busy
      <3>2. Cardinality(Busy') = Cardinality(Busy) + 1
        BY <3>1, BusyFinite, FS_AddElement
      <3> QED
        BY <2>1, <3>2 DEF WorkerTake, CountUp, RunningCount
    <2>2. CASE WorkerFinish(w)
      <3>1. w \in Busy /\ Busy' = Busy \ {w}
        BY <1>0, <2>2 DEF WorkerFinish, Move, Relock, Busy
      <3>2. Cardinality(Busy') = Cardinality(Busy) - 1
        BY <3>1, BusyFinite, FS_RemoveElement
      <3> QED
        BY <2>2, <3>2 DEF WorkerFinish, CountDown, RunningCount
    <2>3. CASE WorkerSleep(w) \/ WorkerExit(w) \/ WorkerRun(w)
      <3>1. SameBusy
        BY <1>0, <2>3 DEF WorkerSleep, WorkerExit, WorkerRun, Goto, Busy
      <3> QED
        BY <3>1 DEF RunningCount
    <2> QED
      BY <1>4, <2>1, <2>2, <2>3 DEF WorkerStep
  <1>5. ASSUME NEW c \in Clients, CallStep(c) PROVE SameBusy
    BY <1>0, <1>5 DEF CallStep, CallAdd, Call, Entry, CallFree, Goto, Busy
  <1>6. ASSUME NEW c \in Clients, ClientStep(c) PROVE SameBusy
    \* A pool that is started has no worker yet.
    <2>1. ASSUME ~running, num_running' = num_running,
                 \/ \E loc \in {"out", "wait_loop"} : StartAll(c, loc)
                 \/ \E n \in 0..(NumThreads - 1) : StartSome(c, n)
          PROVE  SameBusy
      <3>1. Busy = {}
        BY <2>1 DEF PoolState, WorkersMatchState, Busy
      <3>2. \A w \in Workers : pc'[w] \in {"w_lock", "none"}
        BY <2>1 DEF StartAll, StartSome, TaskWaiters, PoolState, WorkersMatchState
      <3>3. Busy' = {}
        BY <3>2 DEF Busy
      <3> QED
        BY <2>1, <3>1, <3>3
    <2>2. CASE Start(c)
      <3>1. CASE running
        BY <1>0, <2>2, <3>1 DEF Start, Goto, Busy
      <3> QED
        BY <2>1, <2>2, <3>1 DEF Start
    <2>3. CASE WaitEnter(c)
      <3>1. CASE ~running /\ tasks # <<>>
        BY <2>1, <2>3, <3>1 DEF WaitEnter
      <3>2. CASE ~(~running /\ tasks # <<>>)
        BY <1>0, <2>3, <3>2 DEF WaitEnter, Goto, Busy
      <3> QED
        BY <3>1, <3>2
    <2>4. CASE AddTask(c) \/ AddTaskFail(c)
      BY <1>0, <2>4 DEF AddTask, AddTaskFail, Move, Goto, Relock, Busy
    <2>5. CASE \/ \E w \in Workers : JoinThread(c, w)
               \/ JoinThreadsDone(c) \/ ReapFinal(c)
      BY <1>0, <2>5 DEF JoinThread, JoinThreadsDone, ReapFinal, Goto, Busy
    <2>6. CASE WaitSleep(c) \/ WaitReturn(c)
      BY <1>0, <2>6 DEF WaitSleep, WaitReturn, Goto, Busy
    <2>7. CASE JoinIdle(c) \/ JoinStop(c) \/ JoinSleep(c)
      BY <1>0, <2>7
      DEF JoinIdle, JoinStop, JoinSleep, JoinReturn, Move, Goto, Relock, Busy
    <2>8. CASE JoinIdleWorkers(c) \/ JoinFinal(c) \/ Release(c)
      BY <1>0, <2>8
      DEF JoinIdleWorkers, AfterJoinLoop, JoinFinal, JoinReturn, Release, Goto, Busy
    <2> QED
      BY <1>6, <2>2, <2>3, <2>4, <2>5, <2>6, <2>7, <2>8 DEF ClientStep
  <1> QED
    BY <1>1, <1>2, <1>3, <1>4, <1>5, <1>6 DEF Next, RunningCount
-----------------------------------------------------------------------------
(* What a step does to the tasks.                                          *)

Adding(c) == pc[c] \in {"add_lock", "add_cs"}
NoneEntersAdd == \A c \in Clients : Adding(c)' => Adding(c)

\* The steps that leave every task where it is.
TasksStay ==
    /\ UNCHANGED <<tasks, task, fate>>
    /\ \A w \in Workers : pc'[w] = "w_run" <=> pc[w] = "w_run"
    /\ NoneEntersAdd

\* The steps of join and free that discard what is queued.
TasksDiscarded ==
    /\ \E c \in Clients : JoinIdle(c) \/ JoinFinal(c) \/ Release(c)
    /\ Discard /\ UNCHANGED task
    /\ \A w \in Workers : pc'[w] = pc[w]
    /\ NoneEntersAdd

TaskSteps ==
    \/ TasksStay
    \/ TasksDiscarded
    \/ \E w \in Workers : WorkerTake(w) \/ WorkerRun(w)
    \/ \E c \in Clients : AddTask(c) \/ AddTaskFail(c) \/ \E t \in Tasks : CallAdd(c, t)

\* Only a worker that takes or runs a task, add_task, join and free touch the tasks.
LEMMA StepOfTasks == ThreadTypes /\ PoolState /\ [Next]_vars => TaskSteps
  <1> SUFFICES ASSUME ThreadTypes, PoolState, [Next]_vars PROVE TaskSteps
    OBVIOUS
  <1> USE ThreadSets DEF NoneEntersAdd, Adding
  <1>0. pc \in [Threads -> WorkerLocs \cup ClientLocs]
    BY DEF ThreadTypes
  <1>1. CASE UNCHANGED vars
    BY <1>1 DEF vars, TaskSteps, TasksStay
  <1>2. ASSUME NEW t \in Threads, Acquire(t) \/ SpuriousWakeup(t) PROVE TasksStay
    BY <1>0, <1>2
    DEF Acquire, LockPoints, SpuriousWakeup, Goto, Relock, TaskWaiters, FinishWaiters,
        TasksStay
  <1>3. ASSUME NEW w \in Workers, WorkerStep(w)
        PROVE  TasksStay \/ WorkerTake(w) \/ WorkerRun(w)
    <2>1. CASE WorkerFinish(w)
      BY <1>0, <2>1 DEF WorkerFinish, Move, Relock, TasksStay
    <2>2. CASE WorkerSleep(w) \/ WorkerExit(w)
      BY <1>0, <2>2 DEF WorkerSleep, WorkerExit, Goto, TasksStay
    <2> QED
      BY <1>3, <2>1, <2>2 DEF WorkerStep
  <1>4. ASSUME NEW c \in Clients, Call(c) \/ CallFree(c) PROVE TasksStay
    BY <1>0, <1>4 DEF Call, Entry, CallFree, Goto, TasksStay
  <1>5. ASSUME NEW c \in Clients, ClientStep(c)
        PROVE  TasksStay \/ TasksDiscarded \/ AddTask(c) \/ AddTaskFail(c)
    <2>1. ASSUME ~running, UNCHANGED <<tasks, task, fate>>,
                 \/ \E loc \in {"out", "wait_loop"} : StartAll(c, loc)
                 \/ \E n \in 0..(NumThreads - 1) : StartSome(c, n)
          PROVE  TasksStay
      <3>1. ASSUME NEW loc \in {"out", "wait_loop"}, StartAll(c, loc) PROVE TasksStay
        BY <1>0, <2>1, <3>1 DEF StartAll, PoolState, WorkersMatchState, TasksStay
      <3>2. ASSUME NEW n \in 0..(NumThreads - 1), StartSome(c, n) PROVE TasksStay
        <4>1. 1..n \subseteq Workers
          BY NumThreadsAssumption DEF Workers
        <4> QED
          BY <1>0, <2>1, <3>2, <4>1
          DEF StartSome, TaskWaiters, PoolState, WorkersMatchState, TasksStay
      <3> QED
        BY <2>1, <3>1, <3>2
    <2>2. CASE Start(c)
      <3>1. CASE running
        BY <1>0, <2>2, <3>1 DEF Start, Goto, TasksStay
      <3> QED
        BY <2>1, <2>2, <3>1 DEF Start
    <2>3. CASE WaitEnter(c)
      <3>1. CASE ~running /\ tasks # <<>>
        BY <2>1, <2>3, <3>1 DEF WaitEnter
      <3>2. CASE ~(~running /\ tasks # <<>>)
        BY <1>0, <2>3, <3>2 DEF WaitEnter, Goto, TasksStay
      <3> QED
        BY <3>1, <3>2
    <2>4. CASE \/ \E w \in Workers : JoinThread(c, w)
               \/ JoinThreadsDone(c) \/ ReapFinal(c)
      BY <1>0, <2>4 DEF JoinThread, JoinThreadsDone, ReapFinal, Goto, TasksStay
    <2>5. CASE WaitSleep(c) \/ WaitReturn(c)
      BY <1>0, <2>5 DEF WaitSleep, WaitReturn, Goto, TasksStay
    <2>6. CASE JoinIdle(c) \/ JoinFinal(c) \/ Release(c)
      BY <1>0, <2>6
      DEF JoinIdle, JoinFinal, JoinReturn, Release, Goto, TasksDiscarded
    <2>7. CASE JoinStop(c) \/ JoinSleep(c) \/ JoinIdleWorkers(c)
      BY <1>0, <2>7
      DEF JoinStop, JoinSleep, JoinIdleWorkers, AfterJoinLoop, Move, Goto, Relock,
          TasksStay
    <2> QED
      BY <1>5, <2>2, <2>3, <2>4, <2>5, <2>6, <2>7 DEF ClientStep
  <1> QED
    BY <1>1, <1>2, <1>3, <1>4, <1>5 DEF Next, CallStep, TaskSteps

-----------------------------------------------------------------------------
(* The types of the queue, of the local `task` and of the history.         *)

\* The queue of a new pool is empty and no worker has a task.
LEMMA TaskTypesInit == Init => TaskTypes
  <1> SUFFICES ASSUME Init PROVE TaskTypes
    OBVIOUS
  <1>1. (\A c \in Clients : pc[c] = "out") /\ \A w \in Workers : pc[w] = "none"
    BY ThreadSets DEF Init
  <1>2. "new" \in Fates
    BY DEF Fates
  <1> QED
    BY <1>1, <1>2 DEF Init, TaskTypes

\* What is queued, taken, executed or discarded is always a task.
LEMMA TaskTypesStep == ThreadTypes /\ PoolState /\ TaskTypes /\ [Next]_vars => TaskTypes'
  <1> SUFFICES ASSUME ThreadTypes, TaskTypes, TaskSteps PROVE TaskTypes'
    BY StepOfTasks
  <1> USE ThreadSets DEF TaskTypes, Adding, NoneEntersAdd
  <1>0. /\ pc \in [Threads -> WorkerLocs \cup ClientLocs]
        /\ {"queued", "running", "done", "discarded"} \subseteq Fates
    BY DEF ThreadTypes, Fates
  <1>1. CASE TasksStay
    BY <1>1 DEF TasksStay
  <1>2. CASE TasksDiscarded
    BY <1>0, <1>2 DEF TasksDiscarded, Discard
  <1>3. ASSUME NEW w \in Workers, WorkerTake(w) PROVE TaskTypes'
    <2>1. Head(tasks) \in Tasks /\ Tail(tasks) \in Seq(Tasks)
      BY <1>3 DEF WorkerTake, MayTake
    <2> QED
      BY <1>0, <1>3, <2>1 DEF WorkerTake, Goto
  <1>4. ASSUME NEW w \in Workers, WorkerRun(w) PROVE TaskTypes'
    BY <1>0, <1>4 DEF WorkerRun, Goto
  <1>5. ASSUME NEW c \in Clients, AddTask(c) PROVE TaskTypes'
    <2>1. task[c] \in Tasks
      BY <1>5 DEF AddTask
    <2>2. Insert(tasks, task[c], Prio) \in Seq(Tasks)
      BY <2>1, InsertType
    <2>3. /\ \A d \in Clients : Adding(d)' => d # c /\ Adding(d)
          /\ \A w \in Workers : pc'[w] = "w_run" => pc[w] = "w_run"
      BY <1>0, <1>5 DEF AddTask, Move, Relock
    <2> QED
      BY <1>0, <1>5, <2>2, <2>3 DEF AddTask
  <1>6. ASSUME NEW c \in Clients, AddTaskFail(c) PROVE TaskTypes'
    BY <1>0, <1>6 DEF AddTaskFail, Goto
  <1>7. ASSUME NEW c \in Clients, NEW t \in Tasks, CallAdd(c, t) PROVE TaskTypes'
    BY <1>0, <1>7 DEF CallAdd, Goto
  <1> QED
    BY <1>1, <1>2, <1>3, <1>4, <1>5, <1>6, <1>7 DEF TaskSteps

-----------------------------------------------------------------------------
(* Where each task is.  OnePlace needs to know that a task in the hand of  *)
(* add_task is not queued yet, and in one hand only.                       *)

Handed ==
    \A c \in Clients : Adding(c) =>
        /\ fate[task[c]] = "new"
        /\ \A d \in Clients : Adding(d) /\ task[d] = task[c] => d = c

\* TaskPlaces is OnePlace, with its parts named, and Handed.
RunBy(t, w) == pc[w] = "w_run" /\ task[w] = t
TaskPlaces ==
    /\ \A t \in Tasks : fate[t] = "queued" <=> InSeq(t, tasks)
    /\ Distinct(tasks) /\ Ordered(tasks, Prio)
    /\ \A t \in Tasks : fate[t] = "running" <=> \E w \in Workers : RunBy(t, w)
    /\ \A v, w \in Workers : \A t : RunBy(t, v) /\ RunBy(t, w) => v = w
    /\ Handed

\* A new pool has no task anywhere.
LEMMA TaskPlacesInit == Init => TaskPlaces
  <1> SUFFICES ASSUME Init PROVE TaskPlaces
    OBVIOUS
  <1>1. \A t : ~InSeq(t, tasks)
    BY DEF Init, InSeq
  <1>2. Distinct(tasks) /\ Ordered(tasks, Prio)
    BY DEF Init, Distinct, Ordered
  <1>3. \A c \in Clients : pc[c] = "out"
    BY ThreadSets DEF Init
  <1>4. \A w \in Workers : pc[w] = "none"
    BY ThreadSets DEF Init
  <1> QED
    BY <1>1, <1>2, <1>3, <1>4 DEF Init, TaskPlaces, RunBy, Handed, Adding

\* A task moves from add_task's caller to the queue, from there to the worker that pops
\* it, and from there out of the pool; it is never copied on the way.
LEMMA TaskPlacesStep ==
    ThreadTypes /\ PoolState /\ TaskTypes /\ TaskPlaces /\ [Next]_vars => TaskPlaces'
  <1> SUFFICES ASSUME ThreadTypes, TaskTypes, TaskPlaces, TaskSteps PROVE TaskPlaces'
    BY StepOfTasks
  <1> USE ThreadSets DEF TaskPlaces, Handed
  <1>0. /\ pc \in [Threads -> WorkerLocs \cup ClientLocs]
        /\ task \in [Threads -> Tasks \cup {NoTask}]
        /\ fate \in [Tasks -> Fates]
        /\ tasks \in Seq(Tasks)
        /\ \A c \in Clients : Adding(c) => task[c] \in Tasks
    BY DEF ThreadTypes, TaskTypes, Adding
  <1>1. CASE TasksStay
    <2>1. \A w \in Workers : \A t : RunBy(t, w)' <=> RunBy(t, w)
      BY <1>1 DEF TasksStay, RunBy
    <2> QED
      BY <1>1, <2>1 DEF TasksStay, NoneEntersAdd
  <1>2. CASE TasksDiscarded
    <2>1. \A w \in Workers : \A t : RunBy(t, w)' <=> RunBy(t, w)
      BY <1>2 DEF TasksDiscarded, RunBy
    <2>2. /\ tasks' = <<>> /\ \A t : ~InSeq(t, tasks')
          /\ Distinct(tasks') /\ Ordered(tasks', Prio)
      BY <1>2 DEF TasksDiscarded, Discard, Distinct, Ordered, InSeq
    <2>3. \A t \in Tasks : /\ fate'[t] # "queued"
                           /\ fate'[t] = "running" <=> fate[t] = "running"
                           /\ fate[t] = "new" => fate'[t] = "new"
      BY <1>2 DEF TasksDiscarded, Discard
    <2> QED
      BY <1>0, <1>2, <2>1, <2>2, <2>3 DEF TasksDiscarded, NoneEntersAdd
  <1>3. ASSUME NEW w \in Workers, WorkerTake(w) PROVE TaskPlaces'
    <2> DEFINE h == Head(tasks)
    <2>1. tasks # <<>> /\ h \in Tasks
      BY <1>0, <1>3 DEF WorkerTake, MayTake
    <2>2. /\ InSeq(h, tasks)
          /\ \A t : InSeq(t, tasks') <=> InSeq(t, tasks) /\ t # h
          /\ Distinct(tasks') /\ Ordered(tasks', Prio)
      BY <1>0, <1>3, <2>1, TailItems, TailOrdered DEF WorkerTake
    <2> HIDE DEF h
    <2>3. /\ fate' = [fate EXCEPT ![h] = "running"]
          /\ task' = [task EXCEPT ![w] = h]
          /\ pc' = [pc EXCEPT ![w] = "w_run"] /\ pc[w] = "w_check"
      BY <1>3 DEF WorkerTake, Goto, h
    <2>4. \A t : \A v \in Workers : RunBy(t, v)' <=> RunBy(t, v) \/ (t = h /\ v = w)
      BY <1>0, <2>3 DEF RunBy
    <2>5. \A c \in Clients : (Adding(c)' <=> Adding(c)) /\ task'[c] = task[c]
      BY <1>0, <2>3 DEF Adding
    <2> QED
      BY <1>0, <2>1, <2>2, <2>3, <2>4, <2>5
  <1>4. ASSUME NEW w \in Workers, WorkerRun(w) PROVE TaskPlaces'
    <2>1. RunBy(task[w], w)
      BY <1>4 DEF WorkerRun, RunBy
    <2>2. \A t : \A v \in Workers : RunBy(t, v)' <=> RunBy(t, v) /\ v # w
      BY <1>0, <1>4 DEF WorkerRun, Goto, RunBy
    <2>3. \A c \in Clients : (Adding(c)' <=> Adding(c)) /\ task'[c] = task[c]
      BY <1>0, <1>4 DEF WorkerRun, Goto, Adding
    <2>4. \A t \in Tasks : fate'[t] = IF t = task[w] THEN "done" ELSE fate[t]
      BY <1>0, <1>4 DEF WorkerRun
    <2>5. tasks' = tasks
      BY <1>4 DEF WorkerRun
    <2>6. task[w] \in Tasks => fate[task[w]] = "running"
      BY <2>1
    <2>7. \A t \in Tasks : fate'[t] = "queued" <=> InSeq(t, tasks')
      BY <2>4, <2>5, <2>6
    <2>8. \A t \in Tasks : fate'[t] = "running" <=> \E v \in Workers : RunBy(t, v)'
      <3>1. ASSUME NEW t \in Tasks, t # task[w]
            PROVE  (\E v \in Workers : RunBy(t, v)') <=> fate[t] = "running"
        <4>1. ~RunBy(t, w)
          BY <3>1 DEF RunBy
        <4> QED
          BY <2>2, <4>1
      <3>2. ASSUME NEW t, t = task[w] PROVE \A v \in Workers : ~RunBy(t, v)'
        BY <2>1, <2>2, <3>2
      <3> QED
        BY <2>4, <3>1, <3>2
    <2>9. \A c \in Clients : Adding(c)' => fate'[task'[c]] = "new"
      BY <1>0, <2>3, <2>4, <2>6
    <2> QED
      BY <2>2, <2>3, <2>5, <2>7, <2>8, <2>9
  <1>5. ASSUME NEW c \in Clients, AddTask(c) PROVE TaskPlaces'
    <2> DEFINE a == task[c]
    <2>1. a \in Tasks /\ fate[a] = "new" /\ ~InSeq(a, tasks)
      BY <1>0, <1>5 DEF AddTask, Adding
    <2>2. /\ \A t : InSeq(t, tasks') <=> InSeq(t, tasks) \/ t = a
          /\ Distinct(tasks') /\ Ordered(tasks', Prio)
      BY <1>0, <1>5, <2>1, InsertItems, InsertDistinct, InsertOrdered, PrioAssumption
      DEF AddTask
    <2> HIDE DEF a
    <2>3. /\ fate' = [fate EXCEPT ![a] = "queued"]
          /\ task' = [task EXCEPT ![c] = NoTask]
      BY <1>5 DEF AddTask, a
    <2>4. \A t : \A v \in Workers : RunBy(t, v)' <=> RunBy(t, v)
      BY <1>0, <1>5, <2>3 DEF RunBy, AddTask, Move, Relock
    <2>5. \A d \in Clients : Adding(d)' => d # c /\ Adding(d) /\ task'[d] = task[d]
      BY <1>0, <1>5, <2>3 DEF AddTask, Move, Relock, Adding
    <2>6. Adding(c)
      BY <1>5 DEF AddTask, Adding
    <2> QED
      BY <1>0, <2>1, <2>2, <2>3, <2>4, <2>5, <2>6 DEF a
  <1>6. ASSUME NEW c \in Clients, AddTaskFail(c) PROVE TaskPlaces'
    <2>1. \A t : \A v \in Workers : RunBy(t, v)' <=> RunBy(t, v)
      BY <1>0, <1>6 DEF RunBy, AddTaskFail, Goto
    <2>2. \A d \in Clients : Adding(d)' => Adding(d) /\ task'[d] = task[d]
      BY <1>0, <1>6 DEF AddTaskFail, Goto, Adding
    <2> QED
      BY <1>0, <1>6, <2>1, <2>2 DEF AddTaskFail
  <1>7. ASSUME NEW c \in Clients, NEW t \in Tasks, CallAdd(c, t) PROVE TaskPlaces'
    <2>1. \A u : \A v \in Workers : RunBy(u, v)' <=> RunBy(u, v)
      BY <1>0, <1>7 DEF RunBy, CallAdd, Goto
    <2>2. \A d \in Clients : d # c => (Adding(d)' <=> Adding(d)) /\ task'[d] = task[d]
      BY <1>0, <1>7 DEF CallAdd, Goto, Adding
    <2>3. task'[c] = t /\ fate[t] = "new" /\ \A d \in Clients : task[d] # t
      BY <1>0, <1>7 DEF CallAdd
    <2>4. UNCHANGED <<tasks, fate>>
      BY <1>7 DEF CallAdd
    <2> QED
      BY <1>0, <2>1, <2>2, <2>3, <2>4
  <1> QED
    BY <1>1, <1>2, <1>3, <1>4, <1>5, <1>6, <1>7 DEF TaskSteps

-----------------------------------------------------------------------------
(* ucb_threadpool_free.  ReleasedAlone needs to know that the client that  *)
(* frees the pool is the only one inside it from the moment of the call.   *)

GoneLocs == {"release", "freed"}

FreesAlone(c) ==
    pc[c] \in JoinLocs \cup GoneLocs /\ \A d \in Clients : d # c => pc[d] = "out"

Retirement ==
    /\ retired => \E c \in Clients : FreesAlone(c)
    /\ \A c \in Clients : pc[c] \in GoneLocs => retired /\ ~running /\ tasks = <<>>

\* Nobody has freed a new pool.
LEMMA RetirementInit == Init => Retirement
  BY ThreadSets DEF Init, Retirement, GoneLocs

\* After ucb_threadpool_free is called no other call begins, and it releases the pool only
\* after its own join has stopped it and emptied the queue.
LEMMA RetirementStep == ThreadTypes /\ Retirement /\ [Next]_vars => Retirement'
  <1> SUFFICES ASSUME ThreadTypes, Retirement, [Next]_vars PROVE Retirement'
    OBVIOUS
  <1> USE ThreadSets DEF Retirement, FreesAlone, GoneLocs, JoinLocs
  <1>0. pc \in [Threads -> WorkerLocs \cup ClientLocs]
    BY DEF ThreadTypes
  <1>1. CASE UNCHANGED vars
    BY <1>1 DEF vars
  <1>2. ASSUME NEW t \in Threads, Acquire(t) PROVE Retirement'
    BY <1>0, <1>2 DEF Acquire, LockPoints
  <1>3. ASSUME NEW t \in Threads, SpuriousWakeup(t) PROVE Retirement'
    BY <1>0, <1>3 DEF SpuriousWakeup, Goto, Relock, TaskWaiters, FinishWaiters
  <1>4. ASSUME NEW w \in Workers, WorkerStep(w) PROVE Retirement'
    <2>1. CASE WorkerFinish(w)
      BY <1>0, <2>1 DEF WorkerFinish, Move, Relock
    <2>2. CASE WorkerSleep(w) \/ WorkerExit(w) \/ WorkerRun(w)
      BY <1>0, <2>2 DEF WorkerSleep, WorkerExit, WorkerRun, Goto
    <2>3. CASE WorkerTake(w)
      BY <1>0, <2>3 DEF WorkerTake, MayTake, Goto
    <2> QED
      BY <1>4, <2>1, <2>2, <2>3 DEF WorkerStep
  <1>5. ASSUME NEW c \in Clients, CallStep(c) PROVE Retirement'
    <2>1. CASE CallFree(c)
      BY <1>0, <2>1 DEF CallFree, Goto
    <2> QED
      BY <1>0, <1>5, <2>1 DEF CallStep, CallAdd, Call, Entry, Goto
  <1>6. ASSUME NEW c \in Clients, ClientStep(c) PROVE Retirement'
    <2>1. ASSUME ~running, pc[c] \in {"start_cs", "wait_cs"},
                 UNCHANGED <<tasks, retired>>,
                 \/ \E loc \in {"out", "wait_loop"} : StartAll(c, loc)
                 \/ \E n \in 0..(NumThreads - 1) : StartSome(c, n)
          PROVE  Retirement'
      <3>1. ~retired
        BY <2>1
      <3>2. ASSUME NEW d \in Clients PROVE pc'[d] \notin GoneLocs
        BY <2>1, <3>1, NumThreadsAssumption
        DEF StartAll, StartSome, TaskWaiters, Workers
      <3> QED
        BY <2>1, <3>1, <3>2
    <2>2. CASE Start(c)
      <3>1. CASE running
        BY <1>0, <2>2, <3>1 DEF Start, Goto
      <3> QED
        BY <2>1, <2>2, <3>1 DEF Start
    <2>3. CASE WaitEnter(c)
      <3>1. CASE ~running /\ tasks # <<>>
        BY <2>1, <2>3, <3>1 DEF WaitEnter
      <3>2. CASE ~(~running /\ tasks # <<>>)
        BY <1>0, <2>3, <3>2 DEF WaitEnter, Goto
      <3> QED
        BY <3>1, <3>2
    <2>4. CASE AddTask(c) \/ AddTaskFail(c)
      BY <1>0, <2>4 DEF AddTask, AddTaskFail, Move, Goto, Relock
    <2>5. ASSUME NEW w \in Workers, JoinThread(c, w) PROVE Retirement'
      BY <1>0, <2>5 DEF JoinThread, Goto
    <2>6. CASE JoinThreadsDone(c) \/ ReapFinal(c)
      BY <1>0, <2>6 DEF JoinThreadsDone, ReapFinal, Stopped, Goto
    <2>7. CASE WaitSleep(c) \/ WaitReturn(c)
      BY <1>0, <2>7 DEF WaitSleep, WaitReturn, Goto
    <2>8. CASE JoinIdle(c) \/ JoinFinal(c)
      BY <1>0, <2>8 DEF JoinIdle, JoinFinal, Stopped, Discard, JoinReturn, Goto
    <2>9. CASE JoinStop(c) \/ JoinSleep(c) \/ JoinIdleWorkers(c)
      BY <1>0, <2>9
      DEF JoinStop, JoinSleep, JoinIdleWorkers, AfterJoinLoop, Move, Goto, Relock
    <2>10. CASE Release(c)
      BY <1>0, <2>10 DEF Release, Discard, Goto
    <2> QED
      BY <1>6, <2>2, <2>3, <2>4, <2>5, <2>6, <2>7, <2>8, <2>9, <2>10 DEF ClientStep
  <1> QED
    BY <1>1, <1>2, <1>3, <1>4, <1>5, <1>6 DEF Next

-----------------------------------------------------------------------------
(* The wakeups of task_notify.                                             *)

Awake == {w \in Workers : pc[w] \in {"w_lock", "w_check"}}

WakeupsSuffice ==
    /\ TaskWaiters # {} => Len(tasks) <= Cardinality(Awake)
    /\ stop => TaskWaiters = {}

\* The workers on their way to the queue can be counted.
LEMMA AwakeFinite ==
    /\ IsFiniteSet(Awake) /\ Cardinality(Awake) \in Nat
    /\ IsFiniteSet(Awake') /\ Cardinality(Awake') \in Nat
    /\ Awake \subseteq Awake' => Cardinality(Awake) <= Cardinality(Awake')
  <1>1. IsFiniteSet(Workers)
    BY NumThreadsAssumption, FS_Interval DEF Workers
  <1>2. Awake \subseteq Workers /\ Awake' \subseteq Workers
    BY DEF Awake
  <1>3. IsFiniteSet(Awake) /\ IsFiniteSet(Awake')
    BY <1>1, <1>2, FS_Subset
  <1>4. Awake \subseteq Awake' => Cardinality(Awake) <= Cardinality(Awake')
    BY <1>3, FS_Subset
  <1> QED
    BY <1>3, <1>4, FS_CardinalityType

\* A new pool has no sleeping worker.
LEMMA WakeupsSufficeInit == Init => WakeupsSuffice
  BY ThreadSets DEF Init, WakeupsSuffice, TaskWaiters

\* add_task wakes a worker for the task it queues, a worker takes one task, and
\* join and a failed start wake every worker when they set `stop`.
LEMMA WakeupsSufficeStep ==
    ThreadTypes /\ TaskTypes /\ PoolState /\ WakeupsSuffice /\ [Next]_vars
        => WakeupsSuffice'
  <1> SUFFICES ASSUME ThreadTypes, TaskTypes, PoolState, WakeupsSuffice, [Next]_vars
               PROVE  WakeupsSuffice'
    OBVIOUS
  <1> USE ThreadSets
  <1> DEFINE NothingLost == /\ tasks' = tasks /\ Awake \subseteq Awake'
                            /\ TaskWaiters' \subseteq TaskWaiters
                            /\ stop' => stop
             NobodySleeps == TaskWaiters' = {}
             QueueEmpty == tasks' = <<>> /\ (stop' => TaskWaiters' = {})
  <1>0. /\ pc \in [Threads -> WorkerLocs \cup ClientLocs]
        /\ tasks \in Seq(Tasks) /\ Len(tasks) \in Nat
    BY DEF ThreadTypes, TaskTypes
  <1>a. ASSUME NothingLost PROVE WakeupsSuffice'
    BY <1>0, <1>a, AwakeFinite DEF WakeupsSuffice
  <1>b. ASSUME NobodySleeps PROVE WakeupsSuffice'
    BY <1>b DEF WakeupsSuffice
  <1>c. ASSUME QueueEmpty PROVE WakeupsSuffice'
    BY <1>c, AwakeFinite DEF WakeupsSuffice
  <1>1. CASE UNCHANGED vars
    BY <1>1, <1>a DEF vars, TaskWaiters, Awake
  <1>2. ASSUME NEW t \in Threads, Acquire(t) PROVE NothingLost
    BY <1>0, <1>2 DEF Acquire, LockPoints, TaskWaiters, Awake
  <1>3. ASSUME NEW t \in Threads, SpuriousWakeup(t) PROVE NothingLost
    BY <1>0, <1>3 DEF SpuriousWakeup, Goto, Relock, TaskWaiters, FinishWaiters, Awake
  <1>4. ASSUME NEW w \in Workers, WorkerStep(w) PROVE WakeupsSuffice'
    <2>1. CASE WorkerSleep(w)
      BY <1>c, <2>1 DEF WorkerSleep
    <2>2. CASE WorkerExit(w)
      <3>1. NobodySleeps
        BY <1>0, <2>2 DEF WorkerExit, Goto, WakeupsSuffice, TaskWaiters
      <3> QED
        BY <1>b, <3>1
    <2>3. CASE WorkerTake(w)
      <3>1. w \in Awake /\ Awake' = Awake \ {w} /\ TaskWaiters' = TaskWaiters
        BY <1>0, <2>3 DEF WorkerTake, Goto, Awake, TaskWaiters
      <3>2. Cardinality(Awake') = Cardinality(Awake) - 1
        BY <3>1, AwakeFinite, FS_RemoveElement
      <3>3. Len(tasks') = Len(tasks) - 1 /\ stop' = stop
        BY <1>0, <2>3 DEF WorkerTake, MayTake
      <3> QED
        BY <1>0, <3>1, <3>2, <3>3, AwakeFinite DEF WakeupsSuffice
    <2>4. CASE WorkerRun(w)
      <3>1. NothingLost
        BY <1>0, <2>4 DEF WorkerRun, Goto, Awake, TaskWaiters
      <3> QED
        BY <1>a, <3>1
    <2>5. CASE WorkerFinish(w)
      <3>1. NothingLost
        BY <1>0, <2>5 DEF WorkerFinish, Move, Relock, Awake, TaskWaiters
      <3> QED
        BY <1>a, <3>1
    <2> QED
      BY <1>4, <2>1, <2>2, <2>3, <2>4, <2>5 DEF WorkerStep
  <1>5. ASSUME NEW c \in Clients, CallStep(c) PROVE NothingLost
    BY <1>0, <1>5 DEF CallStep, CallAdd, Call, Entry, CallFree, Goto, Awake, TaskWaiters
  <1>6. ASSUME NEW c \in Clients, ClientStep(c) PROVE WakeupsSuffice'
    <2>1. ASSUME ~running,
                 \/ \E loc \in {"out", "wait_loop"} : StartAll(c, loc)
                 \/ \E n \in 0..(NumThreads - 1) : StartSome(c, n)
          PROVE  NobodySleeps
      <3>1. \A w \in Workers : pc'[w] \in {"w_lock", "none"}
        BY <2>1 DEF StartAll, StartSome, TaskWaiters, PoolState, WorkersMatchState
      <3> QED
        BY <3>1 DEF TaskWaiters
    <2>2. CASE Start(c)
      <3>1. CASE running
        <4>1. NothingLost
          BY <1>0, <2>2, <3>1 DEF Start, Goto, Awake, TaskWaiters
        <4> QED
          BY <1>a, <4>1
      <3> QED
        BY <1>b, <2>1, <2>2, <3>1 DEF Start
    <2>3. CASE WaitEnter(c)
      <3>1. CASE ~running /\ tasks # <<>>
        BY <1>b, <2>1, <2>3, <3>1 DEF WaitEnter
      <3>2. CASE ~(~running /\ tasks # <<>>)
        <4>1. NothingLost
          BY <1>0, <2>3, <3>2 DEF WaitEnter, Goto, Awake, TaskWaiters
        <4> QED
          BY <1>a, <4>1
      <3> QED
        BY <3>1, <3>2
    <2>4. CASE AddTask(c)
      <3>1. CASE TaskWaiters = {}
        <4>1. NobodySleeps
          BY <1>0, <2>4, <3>1 DEF AddTask, AddWakes, Signalled, Move, Relock, TaskWaiters
        <4> QED
          BY <1>b, <4>1
      <3>2. CASE TaskWaiters # {}
        <4>1. running
          BY <3>2 DEF TaskWaiters, PoolState, WorkersMatchState
        <4>2. PICK w \in TaskWaiters : Move(c, "out", {w})
          BY <2>4, <3>2, <4>1 DEF AddTask, AddWakes, Signalled
        <4>3. w \notin Awake /\ Awake' = Awake \cup {w} /\ TaskWaiters' \subseteq TaskWaiters
          BY <1>0, <2>4, <4>2 DEF AddTask, Move, Relock, TaskWaiters, Awake
        <4>4. Cardinality(Awake') = Cardinality(Awake) + 1
          BY <4>3, AwakeFinite, FS_AddElement
        <4>5. Len(tasks') = Len(tasks) + 1
          <5>1. task[c] \in Tasks
            BY <2>4 DEF AddTask, TaskTypes
          <5> QED
            BY <1>0, <2>4, <5>1, InsertType DEF AddTask
        <4>6. stop' = stop
          BY <2>4 DEF AddTask
        <4> QED
          BY <1>0, <3>2, <4>3, <4>4, <4>5, <4>6, AwakeFinite DEF WakeupsSuffice
      <3> QED
        BY <3>1, <3>2
    <2>5. CASE AddTaskFail(c)
      <3>1. NothingLost
        BY <1>0, <2>5 DEF AddTaskFail, Goto, Awake, TaskWaiters
      <3> QED
        BY <1>a, <3>1
    <2>6. CASE \/ \E w \in Workers : JoinThread(c, w)
               \/ JoinThreadsDone(c) \/ ReapFinal(c)
      <3>1. NothingLost
        BY <1>0, <2>6
        DEF JoinThread, JoinThreadsDone, ReapFinal, Stopped, Goto, Awake, TaskWaiters
      <3> QED
        BY <1>a, <3>1
    <2>7. CASE WaitSleep(c) \/ WaitReturn(c)
      <3>1. NothingLost
        BY <1>0, <2>7 DEF WaitSleep, WaitReturn, Goto, Awake, TaskWaiters
      <3> QED
        BY <1>a, <3>1
    <2>8. CASE JoinIdle(c) \/ JoinFinal(c) \/ Release(c)
      <3>1. QueueEmpty
        BY <1>0, <2>8
        DEF JoinIdle, JoinFinal, Stopped, Release, Discard, JoinReturn, Goto,
            WakeupsSuffice, TaskWaiters
      <3> QED
        BY <1>c, <3>1
    <2>9. CASE JoinStop(c)
      <3>1. NobodySleeps
        BY <1>0, <2>9 DEF JoinStop, JoinWakes, Move, Relock, TaskWaiters
      <3> QED
        BY <1>b, <3>1
    <2>10. CASE JoinSleep(c) \/ JoinIdleWorkers(c)
      <3>1. NothingLost
        BY <1>0, <2>10
        DEF JoinSleep, JoinIdleWorkers, AfterJoinLoop, Goto, Awake, TaskWaiters
      <3> QED
        BY <1>a, <3>1
    <2> QED
      BY <1>6, <2>2, <2>3, <2>4, <2>5, <2>6, <2>7, <2>8, <2>9, <2>10 DEF ClientStep
  <1> QED
    BY <1>1, <1>2, <1>3, <1>4, <1>5, <1>6, <1>a DEF Next

-----------------------------------------------------------------------------
(* The wakeups of finished_notify.  ucb_threadpool_worker signals one      *)
(* waiter for each task it finishes, so nobody is stranded if one thread   *)
(* at most makes the calls that wait.                                      *)

Blocks(c) == Ops[c] \cap {"wait_all", "join", "free"} # {}
OneWaiter == \A c, d \in Clients : c # d /\ Blocks(c) => ~Blocks(d)

\* While a client sleeps on finished_notify, no other one is in wait_all, join or free.
LEMMA SleeperAlone ==
    ASSUME OneWaiter, ThreadTypes, Entitled, Retirement,
           NEW c \in FinishWaiters, NEW d \in Clients, d # c
    PROVE  pc[d] \notin WaitLocs \cup JoinLocs \cup GoneLocs
  <1>1. c \in Clients /\ pc[c] \in {"wait_sleep", "join_sleep"}
    BY DEF FinishWaiters
  <1>2. Blocks(c)
    BY <1>1 DEF Entitled, Blocks, WaitLocs, JoinLocs, JoinsWorkers
  <1>3. pc[d] \notin WaitLocs \cup JoinLocs
    BY <1>1, <1>2 DEF Entitled, Blocks, OneWaiter, JoinsWorkers
  <1>4. pc[d] \notin GoneLocs
    BY <1>1 DEF Retirement, FreesAlone, GoneLocs, JoinLocs
  <1> QED
    BY <1>3, <1>4

\* Nobody waits at first.
LEMMA NoStrandedWaiterInit == Init => NoStrandedWaiter
  BY ThreadSets DEF Init, NoStrandedWaiter, FinishWaiters

\* The only waiter is woken by the task that was the last one, and the queue that it
\* waits for is emptied by nobody else.
LEMMA NoStrandedWaiterStep ==
    ASSUME OneWaiter
    PROVE  ThreadTypes /\ Entitled /\ Retirement /\ RunningCount /\ NoStrandedWaiter
              /\ [Next]_vars => NoStrandedWaiter'
  <1> SUFFICES ASSUME ThreadTypes, Entitled, Retirement, RunningCount, NoStrandedWaiter,
                      [Next]_vars
               PROVE  NoStrandedWaiter'
    OBVIOUS
  <1> USE ThreadSets
  <1> DEFINE Waits(c) == pc[c] = "wait_sleep"
             Joins(c) == pc[c] = "join_sleep"
             SameWaiters == \A c \in Clients : /\ Waits(c)' => Waits(c)
                                               /\ Joins(c)' => Joins(c)
             NothingLost == /\ SameWaiters
                            /\ num_running > 0 => num_running' > 0
                            /\ tasks # <<>> => tasks' # <<>>
  <1>0. /\ pc \in [Threads -> WorkerLocs \cup ClientLocs]
        /\ num_running \in Nat
    BY BusyFinite DEF ThreadTypes, RunningCount
  <1>a. ASSUME NothingLost PROVE NoStrandedWaiter'
    BY <1>a DEF NoStrandedWaiter, FinishWaiters
  <1>1. CASE UNCHANGED vars
    BY <1>1, <1>a DEF vars
  <1>2. ASSUME NEW t \in Threads, Acquire(t) PROVE NothingLost
    BY <1>0, <1>2 DEF Acquire, LockPoints
  <1>3. ASSUME NEW t \in Threads, SpuriousWakeup(t) PROVE NothingLost
    BY <1>0, <1>3 DEF SpuriousWakeup, Goto, Relock, TaskWaiters, FinishWaiters
  <1>4. ASSUME NEW w \in Workers, WorkerStep(w) PROVE NoStrandedWaiter'
    <2>1. CASE WorkerTake(w)
      <3>1. num_running' > 0
        BY <1>0, <2>1 DEF WorkerTake, CountUp
      <3> QED
        BY <3>1 DEF NoStrandedWaiter
    <2>2. CASE WorkerFinish(w)
      <3>1. PICK woken \in FinishWakes : Move(w, "w_lock", woken)
        BY <2>2 DEF WorkerFinish
      <3>2. \A c, d \in FinishWaiters : c = d
        BY SleeperAlone DEF FinishWaiters, WaitLocs, JoinLocs
      <3>3. woken = FinishWaiters
        BY <3>1, <3>2 DEF FinishWakes, Signalled
      <3>4. FinishWaiters' = {}
        BY <1>0, <2>2, <3>1, <3>3 DEF WorkerFinish, Move, Relock, FinishWaiters
      <3> QED
        BY <3>4 DEF NoStrandedWaiter
    <2>3. CASE WorkerSleep(w) \/ WorkerExit(w) \/ WorkerRun(w)
      <3>1. NothingLost
        BY <1>0, <2>3 DEF WorkerSleep, WorkerExit, WorkerRun, Goto
      <3> QED
        BY <1>a, <3>1
    <2> QED
      BY <1>4, <2>1, <2>2, <2>3 DEF WorkerStep
  <1>5. ASSUME NEW c \in Clients, CallStep(c) PROVE NothingLost
    BY <1>0, <1>5 DEF CallStep, CallAdd, Call, Entry, CallFree, Goto
  <1>6. ASSUME NEW c \in Clients, ClientStep(c) PROVE NoStrandedWaiter'
    <2>1. ASSUME UNCHANGED <<tasks, num_running>>,
                 \/ \E loc \in {"out", "wait_loop"} : StartAll(c, loc)
                 \/ \E n \in 0..(NumThreads - 1) : StartSome(c, n)
          PROVE  NothingLost
      <3>1. ASSUME NEW n \in 0..(NumThreads - 1), StartSome(c, n) PROVE SameWaiters
        BY <1>0, <3>1, NumThreadsAssumption DEF StartSome, TaskWaiters, Relock, Workers
      <3>2. ASSUME NEW loc \in {"out", "wait_loop"}, StartAll(c, loc) PROVE SameWaiters
        BY <1>0, <3>2 DEF StartAll
      <3> QED
        BY <2>1, <3>1, <3>2
    <2>2. CASE Start(c)
      <3>1. CASE running
        <4>1. NothingLost
          BY <1>0, <2>2, <3>1 DEF Start, Goto
        <4> QED
          BY <1>a, <4>1
      <3> QED
        BY <1>a, <2>1, <2>2, <3>1 DEF Start
    <2>3. CASE WaitEnter(c)
      <3>1. CASE ~running /\ tasks # <<>>
        BY <1>a, <2>1, <2>3, <3>1 DEF WaitEnter
      <3>2. CASE ~(~running /\ tasks # <<>>)
        <4>1. NothingLost
          BY <1>0, <2>3, <3>2 DEF WaitEnter, Goto
        <4> QED
          BY <1>a, <4>1
      <3> QED
        BY <3>1, <3>2
    <2>4. CASE AddTask(c)
      <3>1. tasks' # <<>>
        <4>1. tasks' = Insert(tasks, task[c], Prio)
          BY <2>4 DEF AddTask
        <4>2. DOMAIN tasks' = 1..(Len(tasks) + 1)
          BY <4>1 DEF Insert
        <4> QED
          BY <4>2
      <3>2. SameWaiters /\ num_running' = num_running
        BY <1>0, <2>4 DEF AddTask, Move, Relock
      <3> QED
        BY <1>a, <3>1, <3>2
    <2>5. CASE AddTaskFail(c)
      <3>1. NothingLost
        BY <1>0, <2>5 DEF AddTaskFail, Goto
      <3> QED
        BY <1>a, <3>1
    <2>6. CASE \/ \E w \in Workers : JoinThread(c, w)
               \/ JoinThreadsDone(c) \/ ReapFinal(c)
      <3>1. NothingLost
        BY <1>0, <2>6 DEF JoinThread, JoinThreadsDone, ReapFinal, Goto
      <3> QED
        BY <1>a, <3>1
    <2>7. CASE WaitSleep(c) \/ JoinSleep(c)
      <3>1. \A d \in Clients : d # c => (Waits(d)' => Waits(d)) /\ (Joins(d)' => Joins(d))
        BY <1>0, <2>7 DEF WaitSleep, JoinSleep, Goto
      <3>2. num_running' > 0 \/ (pc'[c] = "wait_sleep" /\ tasks' # <<>>)
        BY <1>0, <2>7 DEF WaitSleep, AllDone, JoinSleep, Goto
      <3>3. UNCHANGED <<num_running, tasks>>
        BY <2>7 DEF WaitSleep, JoinSleep
      <3> QED
        BY <3>1, <3>2, <3>3 DEF NoStrandedWaiter, FinishWaiters
    <2>8. CASE WaitReturn(c) \/ JoinStop(c) \/ JoinIdleWorkers(c)
      <3>1. NothingLost
        BY <1>0, <2>8
        DEF WaitReturn, JoinStop, JoinIdleWorkers, AfterJoinLoop, Move, Goto, Relock
      <3> QED
        BY <1>a, <3>1
    <2>9. CASE JoinIdle(c) \/ JoinFinal(c) \/ Release(c)
      <3>1. pc[c] \in JoinLocs \cup GoneLocs /\ c \notin FinishWaiters
        BY <2>9 DEF JoinIdle, JoinFinal, Release, JoinLocs, GoneLocs, FinishWaiters
      <3>2. FinishWaiters = {}
        BY <3>1, SleeperAlone
      <3>3. SameWaiters
        BY <1>0, <2>9 DEF JoinIdle, JoinFinal, JoinReturn, Release, Goto
      <3> QED
        BY <3>2, <3>3 DEF NoStrandedWaiter, FinishWaiters
    <2> QED
      BY <1>6, <2>2, <2>3, <2>4, <2>5, <2>6, <2>7, <2>8, <2>9 DEF ClientStep
  <1> QED
    BY <1>1, <1>2, <1>3, <1>4, <1>5, <1>6, <1>a DEF Next

-----------------------------------------------------------------------------
(* The theorems.                                                           *)

Inv ==
    /\ ThreadTypes /\ TaskTypes /\ LockDiscipline /\ Entitled /\ PoolState
    /\ RunningCount /\ TaskPlaces /\ Retirement /\ WakeupsSuffice

\* Every reachable state of the pool satisfies the inductive invariant.
THEOREM Invariance == Spec => []Inv
  <1>1. Init => Inv
    BY ThreadTypesInit, TaskTypesInit, LockDisciplineInit, EntitledInit, PoolStateInit,
       RunningCountInit, TaskPlacesInit, RetirementInit, WakeupsSufficeInit DEF Inv
  <1>2. Inv /\ [Next]_vars => Inv'
    BY ThreadTypesStep, TaskTypesStep, LockDisciplineStep, EntitledStep, PoolStateStep,
       RunningCountStep, TaskPlacesStep, RetirementStep, WakeupsSufficeStep DEF Inv
  <1> QED
    BY <1>1, <1>2, PTL DEF Spec

\* Every variable keeps the type of the field it stands for; in particular the
\* size_t num_running never wraps below 0 and never exceeds num_threads.
THEOREM TypeCorrect == Spec => []TypeOK
  <1>1. Inv => TypeOK
    BY BusyFinite DEF Inv, ThreadTypes, TaskTypes, RunningCount, TypeOK
  <1> QED
    BY <1>1, Invariance, PTL

\* Each path of worker, add_task, start, wait_all, join and free acquires and
\* releases the pool's mutex in pairs, the hand-over of the locked mutex to
\* ucb_threadpool_reap_partial included.
THEOREM LockCorrect == Spec => []LockDiscipline
  BY Invariance, PTL DEF Inv

\* num_running is the number of workers between taking and finishing a task.
THEOREM RunningCountCorrect == Spec => []RunningCount
  BY Invariance, PTL DEF Inv

\* A pool that is not running has no worker left, and one that runs has them all.
THEOREM WorkersCorrect == Spec => []WorkersMatchState
  BY Invariance, PTL DEF Inv, PoolState

\* No worker is joined by two threads at the same time.
THEOREM OneJoiner == Spec => []SingleJoiner
  <1>1. ASSUME PoolState PROVE SingleJoiner
    <2>1. \A c, d \in Joining : c = d
      BY <1>1 DEF PoolState, OneCloser, ClosingLocs, Joining
    <2>2. Joining = {} \/ \E c \in Joining : Joining = {c}
      BY <2>1
    <2>3. \A c : Cardinality({c}) = 1
      BY FS_Singleton
    <2> QED
      BY <2>2, <2>3, FS_EmptySet DEF SingleJoiner
  <1> QED
    BY <1>1, Invariance, PTL DEF Inv

\* A queued task is in the queue once, and a running one in the hands of one worker.
THEOREM OnePlaceCorrect == Spec => []OnePlace
  <1>1. Inv => OnePlace
    BY DEF Inv, TaskPlaces, InSeq, Distinct, RunBy, OnePlace
  <1> QED
    BY <1>1, Invariance, PTL

\* A worker sleeps only while enough others are on their way to the queue.
THEOREM NoWakeupLost == Spec => []NoIdleWorker
  <1>1. Inv => NoIdleWorker
    BY DEF Inv, WakeupsSuffice, NoIdleWorker, Awake
  <1> QED
    BY <1>1, Invariance, PTL

\* ucb_threadpool_free releases a pool that no thread uses and that holds no task.
LEMMA ReleaseAlone == Inv => ReleasedAlone
  <1> SUFFICES ASSUME Inv, NEW c \in Clients, pc[c] \in GoneLocs
               PROVE  /\ lock = Free
                      /\ \A w \in Workers : pc[w] = "none"
                      /\ \A d \in Clients \ {c} : pc[d] = "out"
                      /\ \A t \in Tasks : fate[t] \in {"new", "done", "discarded"}
    BY DEF ReleasedAlone, GoneLocs
  <1>1. ~running /\ tasks = <<>> /\ \A d \in Clients : d # c => pc[d] = "out"
    BY DEF Inv, Retirement, FreesAlone, GoneLocs, JoinLocs
  <1>2. \A w \in Workers : pc[w] = "none"
    BY <1>1 DEF Inv, PoolState, WorkersMatchState
  <1>3. lock = Free
    <2>1. \A t \in Threads : pc[t] \notin Critical
      BY <1>1, <1>2, ThreadSets, CriticalLocs DEF GoneLocs
    <2> QED
      BY <2>1 DEF Inv, LockDiscipline, ThreadTypes
  <1>4. ASSUME NEW t \in Tasks PROVE fate[t] \in {"new", "done", "discarded"}
    <2>1. fate[t] # "queued"
      BY <1>1 DEF Inv, TaskPlaces, InSeq
    <2>2. fate[t] # "running"
      BY <1>2 DEF Inv, TaskPlaces, RunBy
    <2> QED
      BY <2>1, <2>2 DEF Inv, TaskTypes, Fates
  <1> QED
    BY <1>1, <1>2, <1>3, <1>4

\* If one thread at most makes the calls that wait, a caller of wait_all or join sleeps
\* only while a task has yet to finish; together with the two results above.
THEOREM NobodyIsStranded ==
    ASSUME OneWaiter
    PROVE  Spec => []NobodyStranded
  <1> DEFINE WInv == Inv /\ NoStrandedWaiter
  <1>1. Init => WInv
    BY ThreadTypesInit, TaskTypesInit, LockDisciplineInit, EntitledInit, PoolStateInit,
       RunningCountInit, TaskPlacesInit, RetirementInit, WakeupsSufficeInit,
       NoStrandedWaiterInit DEF Inv
  <1>2. WInv /\ [Next]_vars => WInv'
    BY ThreadTypesStep, TaskTypesStep, LockDisciplineStep, EntitledStep, PoolStateStep,
       RunningCountStep, TaskPlacesStep, RetirementStep, WakeupsSufficeStep,
       NoStrandedWaiterStep DEF Inv
  <1>3. WInv => NobodyStranded
    <2>1. Inv => NoIdleWorker
      BY DEF Inv, WakeupsSuffice, NoIdleWorker, Awake
    <2> QED
      BY <2>1, ReleaseAlone DEF NobodyStranded
  <1> HIDE DEF WInv
  <1> QED
    BY <1>1, <1>2, <1>3, PTL DEF Spec
-----------------------------------------------------------------------------
(* What a call may and may not do.                                         *)

\* A client that is not asleep moves by its own steps only.
LEMMA ClientMoves ==
    ASSUME ThreadTypes, [Next]_vars, NEW c \in Clients, pc'[c] # pc[c],
           pc[c] \notin {"wait_sleep", "join_sleep"}
    PROVE  Acquire(c) \/ ClientStep(c) \/ CallStep(c)
  <1> USE ThreadSets
  <1>0. pc \in [Threads -> WorkerLocs \cup ClientLocs]
    BY DEF ThreadTypes
  <1>1. CASE UNCHANGED vars
    BY <1>1 DEF vars
  <1>2. ASSUME NEW t \in Threads, Acquire(t) \/ SpuriousWakeup(t) PROVE Acquire(c)
    BY <1>0, <1>2 DEF Acquire, SpuriousWakeup, TaskWaiters, FinishWaiters, Goto
  <1>3. ASSUME NEW w \in Workers, WorkerStep(w) PROVE FALSE
    <2>1. CASE WorkerFinish(w)
      BY <1>0, <2>1 DEF WorkerFinish, FinishWakes, Signalled, FinishWaiters, Move, Relock
    <2> QED
      BY <1>0, <1>3, <2>1
      DEF WorkerStep, WorkerSleep, WorkerExit, WorkerTake, WorkerRun, Goto
  <1>4. ASSUME NEW d \in Clients, d # c, CallStep(d) PROVE FALSE
    BY <1>0, <1>4 DEF CallStep, CallAdd, Call, CallFree, Goto
  <1>5. ASSUME NEW d \in Clients, d # c, ClientStep(d) PROVE FALSE
    <2>1. pc[c] = Relock(pc[c])
      BY DEF Relock, ThreadTypes, ClientLocs
    <2>2. ASSUME NEW n \in 0..(NumThreads - 1), StartSome(d, n) PROVE FALSE
      <3>1. 1..n \subseteq Workers
        BY NumThreadsAssumption DEF Workers
      <3> QED
        BY <1>5, <2>2, <3>1 DEF StartSome, TaskWaiters
    <2>3. ASSUME NEW loc, StartAll(d, loc) PROVE FALSE
      BY <1>5, <2>3 DEF StartAll
    <2>4. CASE Start(d) \/ WaitEnter(d)
      BY <1>0, <1>5, <2>2, <2>3, <2>4 DEF Start, WaitEnter, Goto
    <2>5. CASE AddTask(d) \/ AddTaskFail(d) \/ JoinStop(d)
      BY <1>0, <1>5, <2>1, <2>5 DEF AddTask, AddTaskFail, JoinStop, Move, Goto
    <2>6. CASE (\E w \in Workers : JoinThread(d, w)) \/ JoinThreadsDone(d) \/ ReapFinal(d)
      BY <1>0, <1>5, <2>6 DEF JoinThread, JoinThreadsDone, ReapFinal, Goto
    <2>7. CASE WaitSleep(d) \/ WaitReturn(d) \/ JoinIdle(d) \/ JoinSleep(d)
      BY <1>0, <1>5, <2>7 DEF WaitSleep, WaitReturn, JoinIdle, JoinReturn, JoinSleep, Goto
    <2>8. CASE JoinIdleWorkers(d) \/ JoinFinal(d) \/ Release(d)
      BY <1>0, <1>5, <2>8 DEF JoinIdleWorkers, JoinFinal, JoinReturn, Release, Goto
    <2> QED
      BY <1>5, <2>4, <2>5, <2>6, <2>7, <2>8 DEF ClientStep
  <1> QED
    BY <1>1, <1>2, <1>3, <1>4, <1>5 DEF Next

\* When nothing is queued and no worker is busy, every accepted task has been settled.
LEMMA AllSettled ==
    Inv /\ tasks = <<>> /\ num_running = 0 => \A t \in Tasks : Settled(t)
  <1> SUFFICES ASSUME Inv, tasks = <<>>, num_running = 0, NEW t \in Tasks
               PROVE  Settled(t)
    OBVIOUS
  <1>1. Busy = {}
    BY BusyFinite, FS_EmptySet DEF Inv, RunningCount
  <1>2. fate[t] # "queued"
    BY DEF Inv, TaskPlaces, InSeq
  <1>3. fate[t] # "running"
    BY <1>1 DEF Inv, TaskPlaces, RunBy, Busy
  <1> QED
    BY <1>2, <1>3 DEF Inv, TaskTypes, Fates, Settled

\* A pool that has been joined has nothing left to count.
LEMMA NotRunningIdle ==
    Inv /\ ~running => ~stop /\ num_running = 0 /\ \A w \in Workers : pc[w] = "none"
  <1> SUFFICES ASSUME Inv, ~running
               PROVE  ~stop /\ num_running = 0 /\ \A w \in Workers : pc[w] = "none"
    OBVIOUS
  <1>1. ~stop /\ \A w \in Workers : pc[w] = "none"
    BY DEF Inv, PoolState, WorkersMatchState
  <1>2. Busy = {}
    BY <1>1 DEF Busy
  <1> QED
    BY <1>1, <1>2, FS_EmptySet DEF Inv, RunningCount

\* The state after a step is settled too when nothing is left.
LEMMA AllSettledNext ==
    Inv' /\ tasks' = <<>> /\ num_running' = 0 => \A t \in Tasks : Settled(t)'
  <1>1. (Inv /\ tasks = <<>> /\ num_running = 0 => \A t \in Tasks : Settled(t))'
    BY AllSettled, PTL
  <1> QED
    BY <1>1

\* A step that stops the pool leaves no worker and no count.
LEMMA NotRunningIdleNext ==
    Inv' /\ ~running' =>
        ~stop' /\ num_running' = 0 /\ \A w \in Workers : pc'[w] = "none"
  <1>1. (Inv /\ ~running
            => ~stop /\ num_running = 0 /\ \A w \in Workers : pc[w] = "none")'
    BY NotRunningIdle, PTL
  <1> QED
    BY <1>1

\* ucb_threadpool_wait_all returns from its loop when every task accepted by then has been
\* finished or discarded.
THEOREM WaitAllReturnsSettled == Spec => WaitAllSettles
  <1>1. ASSUME Inv, Inv', [Next]_vars, NEW c \in Clients,
               pc[c] = "wait_loop" /\ pc'[c] = "out"
        PROVE  \A t \in Tasks : Settled(t)'
    <2>1. Acquire(c) \/ ClientStep(c) \/ CallStep(c)
      BY <1>1, ClientMoves DEF Inv
    <2>2. WaitReturn(c)
      <3>1. pc[c] = "wait_loop" /\ pc'[c] = "out"
        BY <1>1
      <3>2. ~Acquire(c) /\ ~CallStep(c)
        BY <3>1 DEF Acquire, LockPoints, CallStep, CallAdd, Call, CallFree
      <3>3. ~WaitSleep(c)
        BY <1>1, <3>1, ThreadSets DEF WaitSleep, Goto, Inv, ThreadTypes
      <3> QED
        BY <2>1, <3>1, <3>2, <3>3
        DEF ClientStep, AddTask, AddTaskFail, Start, JoinThread, JoinThreadsDone,
            ReapFinal, WaitEnter, JoinIdle, JoinStop, JoinSleep, JoinIdleWorkers,
            JoinFinal, Release
    <2>3. tasks' = <<>> /\ num_running' = 0
      BY <2>2 DEF WaitReturn, AllDone
    <2> QED
      BY <1>1, <2>3, AllSettledNext
  <1>2. Inv /\ Inv' /\ [Next]_vars =>
           [\A c \in Clients :
               pc[c] = "wait_loop" /\ pc'[c] = "out" => \A t \in Tasks : Settled(t)']_vars
    BY <1>1
  <1> QED
    BY <1>2, Invariance, PTL DEF Spec, WaitAllSettles

\* ucb_threadpool_join returns with no worker, no pending task, and a pool that can be
\* started again.
THEOREM JoinReturnsSettled == Spec => JoinSettles
  <1>1. ASSUME Inv, Inv', [Next]_vars, NEW c \in Clients,
               pc[c] \in {"join_cs", "join_final"} /\ pc'[c] = "out"
        PROVE  /\ ~running' /\ ~stop' /\ num_running' = 0
               /\ \A w \in Workers : pc'[w] = "none"
               /\ \A t \in Tasks : Settled(t)'
    <2>1. Acquire(c) \/ ClientStep(c) \/ CallStep(c)
      BY <1>1, ClientMoves DEF Inv
    <2>2. JoinIdle(c) \/ JoinFinal(c)
      <3>1. pc[c] \in {"join_cs", "join_final"} /\ pc'[c] = "out"
        BY <1>1
      <3>2. ~Acquire(c) /\ ~CallStep(c)
        BY <3>1 DEF Acquire, LockPoints, CallStep, CallAdd, Call, CallFree
      <3>3. ~JoinStop(c)
        BY <1>1, <3>1, ThreadSets DEF JoinStop, Move
      <3> QED
        BY <2>1, <3>1, <3>2, <3>3
        DEF ClientStep, AddTask, AddTaskFail, Start, JoinThread, JoinThreadsDone,
            ReapFinal, WaitEnter, WaitSleep, WaitReturn, JoinSleep, JoinIdleWorkers,
            Release
    <2>3. ~running' /\ tasks' = <<>>
      BY <2>2 DEF JoinIdle, JoinFinal, Stopped, Discard
    <2>4. ~stop' /\ num_running' = 0 /\ \A w \in Workers : pc'[w] = "none"
      BY <1>1, <2>3, NotRunningIdleNext
    <2> QED
      BY <1>1, <2>3, <2>4, AllSettledNext
  <1>2. Inv /\ Inv' /\ [Next]_vars =>
           [\A c \in Clients :
             pc[c] \in {"join_cs", "join_final"} /\ pc'[c] = "out" =>
                 /\ ~running' /\ ~stop' /\ num_running' = 0
                 /\ \A w \in Workers : pc'[w] = "none"
                 /\ \A t \in Tasks : Settled(t)']_vars
    BY <1>1
  <1> QED
    BY <1>2, Invariance, PTL DEF Spec, JoinSettles

\* While a start that failed joins the workers it did create, nothing leaves the queue.
THEOREM FailedStartKeeps == Spec => FailedStartKeepsTasks
  <1>1. ASSUME Inv, [Next]_vars, Reaping, NEW t \in Tasks, fate[t] = "queued"
        PROVE  fate'[t] = "queued"
    <2>0. TaskSteps
      BY <1>1, StepOfTasks DEF Inv
    <2>1. PICK r \in Clients : pc[r] \in ReapLocs
      BY <1>1 DEF Reaping, ReapLocs
    <2>2. running /\ stop /\ \A d \in Clients : pc[d] \in ClosingLocs => d = r
      BY <1>1, <2>1 DEF Inv, PoolState, OneCloser, ClosingLocs, ClosedLocs, ReapLocs
    <2>3. CASE TasksStay
      BY <1>1, <2>3 DEF TasksStay
    <2>4. ~TasksDiscarded
      <3>1. ASSUME NEW c \in Clients, JoinIdle(c) PROVE FALSE
        BY <2>2, <3>1 DEF JoinIdle
      <3>2. ASSUME NEW c \in Clients, JoinFinal(c) PROVE FALSE
        BY <2>1, <2>2, <3>2 DEF JoinFinal, ClosingLocs, ClosedLocs, ReapLocs
      <3>3. ASSUME NEW c \in Clients, Release(c) PROVE FALSE
        BY <1>1, <2>2, <3>3 DEF Release, Inv, Retirement, GoneLocs
      <3> QED
        BY <3>1, <3>2, <3>3 DEF TasksDiscarded
    <2>5. ASSUME NEW w \in Workers PROVE ~WorkerTake(w)
      BY <2>2 DEF WorkerTake, MayTake
    <2>6. ASSUME NEW w \in Workers, WorkerRun(w) PROVE fate'[t] = "queued"
      <3>1. fate[task[w]] = "running"
        BY <1>1, <2>6 DEF WorkerRun, Inv, TaskTypes, TaskPlaces, RunBy
      <3> QED
        BY <1>1, <2>6, <3>1 DEF WorkerRun, Inv, TaskTypes
    <2>7. ASSUME NEW c \in Clients, AddTask(c) PROVE fate'[t] = "queued"
      BY <1>1, <2>7 DEF AddTask, Inv, TaskTypes
    <2>8. ASSUME NEW c \in Clients, AddTaskFail(c) \/ \E u \in Tasks : CallAdd(c, u)
          PROVE  fate'[t] = "queued"
      BY <1>1, <2>8 DEF AddTaskFail, CallAdd
    <2> QED
      BY <2>0, <2>3, <2>4, <2>5, <2>6, <2>7, <2>8 DEF TaskSteps
  <1>2. Inv /\ [Next]_vars =>
           [Reaping => \A t \in Tasks : fate[t] = "queued" => fate'[t] = "queued"]_vars
    BY <1>1
  <1> QED
    BY <1>2, Invariance, PTL DEF Spec, FailedStartKeepsTasks

\* The task that a worker takes has the highest priority of those queued.
THEOREM HighestPriorityFirst == Spec => TakesHighestPriority
  <1>1. ASSUME Inv, [Next]_vars, NEW t \in Tasks, NEW u \in Tasks,
               fate[t] = "queued", fate'[t] = "running", fate[u] = "queued"
        PROVE  Prio[t] >= Prio[u]
    <2>0. TaskSteps /\ fate \in [Tasks -> Fates]
      BY <1>1, StepOfTasks DEF Inv, TaskTypes
    <2>1. PICK w \in Workers : WorkerTake(w)
      BY <1>1, <2>0
      DEF TaskSteps, TasksStay, TasksDiscarded, Discard, WorkerRun, AddTask,
          AddTaskFail, CallAdd
    <2>2. t = Head(tasks) /\ tasks # <<>> /\ tasks \in Seq(Tasks)
      BY <1>1, <2>0, <2>1 DEF WorkerTake, MayTake, Inv, TaskTypes
    <2>3. Ordered(tasks, Prio) /\ InSeq(u, tasks)
      BY <1>1 DEF Inv, TaskPlaces
    <2> QED
      BY <2>2, <2>3, TailOrdered
  <1>2. Inv /\ [Next]_vars =>
           [\A t, u \in Tasks :
               fate[t] = "queued" /\ fate'[t] = "running" /\ fate[u] = "queued"
                  => Prio[t] >= Prio[u]]_vars
    BY <1>1
  <1> QED
    BY <1>2, Invariance, PTL DEF Spec, TakesHighestPriority
-----------------------------------------------------------------------------
(* The pool implements TaskPool: every step is one of TaskPool's, or it    *)
(* changes nothing that TaskPool sees.                                     *)

Executing == {t \in Tasks : fate[t] = "running"}
Finished  == {t \in Tasks : fate[t] = "done"}
Discarded == {t \in Tasks : fate[t] = "discarded"}
Phase     == IF ~running THEN "down" ELSE IF ~stop THEN "up"
             ELSE IF Reaping THEN "failing" ELSE "closing"

\* Each action of TaskPool, in the words of ThreadPool.
LEMMA AbstractSteps ==
    /\ TP!Init <=> /\ Phase = "down" /\ tasks = <<>>
                   /\ Executing = {} /\ Finished = {} /\ Discarded = {}
    /\ UNCHANGED TP!poolVars
          <=> UNCHANGED <<Phase, tasks, Executing, Finished, Discarded>>
    /\ \A t : TP!Accept(t) <=>
          /\ ~InSeq(t, tasks) /\ t \notin Executing \cup Finished \cup Discarded
          /\ tasks' = Insert(tasks, t, Prio)
          /\ UNCHANGED <<Phase, Executing, Finished, Discarded>>
    /\ \A from, to : TP!Enter(from, to) <=>
          /\ Phase = from /\ Phase' = to
          /\ UNCHANGED <<tasks, Executing, Finished, Discarded>>
    /\ TP!Take <=>
          /\ Phase = "up" /\ tasks # <<>> /\ Cardinality(Executing) < NumThreads
          /\ Executing' = Executing \cup {Head(tasks)} /\ tasks' = Tail(tasks)
          /\ UNCHANGED <<Phase, Finished, Discarded>>
    /\ \A t : TP!Finish(t) <=>
          /\ t \in Executing
          /\ Executing' = Executing \ {t} /\ Finished' = Finished \cup {t}
          /\ UNCHANGED <<Phase, tasks, Discarded>>
    /\ TP!Discard <=>
          /\ Phase \in {"down", "closing"} /\ Executing = {}
          /\ Phase' = "down" /\ tasks' = <<>>
          /\ Discarded' = Discarded \cup {t \in Tasks : InSeq(t, tasks)}
          /\ UNCHANGED <<Executing, Finished>>
  <1> USE DEF Executing, Finished, Discarded, Phase
  <1>1. TP!Init <=> /\ Phase = "down" /\ tasks = <<>>
                   /\ Executing = {} /\ Finished = {} /\ Discarded = {}
    BY DEF TP!Init
  <1>2. UNCHANGED TP!poolVars
          <=> UNCHANGED <<Phase, tasks, Executing, Finished, Discarded>>
    BY DEF TP!poolVars
  <1>3. \A t : TP!Accept(t) <=>
          /\ ~InSeq(t, tasks) /\ t \notin Executing \cup Finished \cup Discarded
          /\ tasks' = Insert(tasks, t, Prio)
          /\ UNCHANGED <<Phase, Executing, Finished, Discarded>>
    BY DEF TP!Accept, TP!InQueue, InSeq, TP!Ahead, Insert, InsertPosition, TP!Cardinality, Cardinality
  <1>4. \A from, to : TP!Enter(from, to) <=>
          /\ Phase = from /\ Phase' = to
          /\ UNCHANGED <<tasks, Executing, Finished, Discarded>>
    BY DEF TP!Enter
  <1>5. TP!Take <=>
          /\ Phase = "up" /\ tasks # <<>> /\ Cardinality(Executing) < NumThreads
          /\ Executing' = Executing \cup {Head(tasks)} /\ tasks' = Tail(tasks)
          /\ UNCHANGED <<Phase, Finished, Discarded>>
    BY DEF TP!Take, TP!Cardinality, Cardinality
  <1>6. \A t : TP!Finish(t) <=>
          /\ t \in Executing
          /\ Executing' = Executing \ {t} /\ Finished' = Finished \cup {t}
          /\ UNCHANGED <<Phase, tasks, Discarded>>
    BY DEF TP!Finish
  <1>7. TP!Discard <=>
          /\ Phase \in {"down", "closing"} /\ Executing = {}
          /\ Phase' = "down" /\ tasks' = <<>>
          /\ Discarded' = Discarded \cup {t \in Tasks : InSeq(t, tasks)}
          /\ UNCHANGED <<Executing, Finished>>
    BY DEF TP!Discard, TP!InQueue, InSeq
  <1> QED
    BY <1>1, <1>2, <1>3, <1>4, <1>5, <1>6, <1>7

\* What TaskPool sees.
Seen == <<Phase, tasks, Executing, Finished, Discarded>>

\* A step that keeps the queue, the fates, running, stop and the reaping client is not seen.
LEMMA UnseenStep ==
    UNCHANGED <<running, stop, tasks, fate>> /\ Reaping' = Reaping => UNCHANGED Seen
  BY DEF Seen, Phase, Executing, Finished, Discarded

\* A step that keeps the queue and the fates changes the phase at most.
LEMMA PhaseStep ==
    UNCHANGED <<tasks, fate>> => UNCHANGED <<tasks, Executing, Finished, Discarded>>
  BY DEF Executing, Finished, Discarded

\* A worker that is about to take a task leaves room: fewer than num_threads are executing.
LEMMA RoomToTake ==
    ASSUME TaskPlaces, NEW w \in Workers, pc[w] # "w_run"
    PROVE  Cardinality(Executing) < NumThreads
  <1> DEFINE R == {v \in Workers : pc[v] = "w_run" /\ task[v] \in Tasks}
             f == [v \in R |-> task[v]]
  <1>1. IsFiniteSet(Workers) /\ Cardinality(Workers) = NumThreads
    BY NumThreadsAssumption, FS_Interval DEF Workers
  <1>2. /\ IsFiniteSet(Workers \ {w})
        /\ Cardinality(Workers \ {w}) = NumThreads - 1
    BY <1>1, FS_RemoveElement
  <1>3. R \subseteq Workers \ {w}
    OBVIOUS
  <1>4. IsFiniteSet(R) /\ Cardinality(R) <= NumThreads - 1
    BY <1>2, <1>3, FS_Subset
  <1>5. f \in Surjection(R, Executing)
    <2>1. \A v \in R : f[v] \in Executing
      BY DEF TaskPlaces, RunBy, Executing
    <2>2. \A t \in Executing : \E v \in R : f[v] = t
      BY DEF TaskPlaces, RunBy, Executing
    <2>3. f \in [R -> Executing]
      BY <2>1
    <2> HIDE DEF f, R
    <2> QED
      BY <2>2, <2>3, Fun_IsSurj
  <1> HIDE DEF f, R
  <1>6. Cardinality(Executing) <= Cardinality(R) /\ IsFiniteSet(Executing)
    BY <1>4, <1>5, FS_Surjection
  <1> QED
    BY <1>4, <1>6, FS_CardinalityType, NumThreadsAssumption

\* Every step of the pool is a step of TaskPool or is not seen.
LEMMA StepRefines == Inv /\ [Next]_vars => TP!Next \/ UNCHANGED Seen
  <1> SUFFICES ASSUME Inv, [Next]_vars PROVE TP!Next \/ UNCHANGED Seen
    OBVIOUS
  <1> USE ThreadSets
  <1>0. /\ pc \in [Threads -> WorkerLocs \cup ClientLocs]
        /\ fate \in [Tasks -> Fates]
        /\ tasks \in Seq(Tasks)
        /\ \A c \in Clients : Adding(c) => task[c] \in Tasks
        /\ \A w \in Workers : pc[w] = "w_run" => task[w] \in Tasks
    BY DEF Inv, ThreadTypes, TaskTypes, Adding
  <1>a. ASSUME UNCHANGED <<running, stop, tasks, fate>>,
               \A c \in Clients : (pc[c] \in ReapLocs)' <=> pc[c] \in ReapLocs
        PROVE  UNCHANGED Seen
    <2>1. Reaping' = Reaping
      BY <1>a DEF Reaping, ReapLocs
    <2> QED
      BY <1>a, <2>1, UnseenStep
  <1>b. ASSUME NEW from, NEW to, UNCHANGED <<tasks, fate>>, Phase = from, Phase' = to,
               <<from, to>> \in {<<"down", "up">>, <<"up", "closing">>,
                                 <<"down", "failing">>, <<"failing", "down">>}
        PROVE  TP!Next
    <2>1. TP!Enter(from, to)
      BY <1>b, PhaseStep, AbstractSteps
    <2> QED
      BY <1>b, <2>1 DEF TP!Next
  <1>c. \A c \in Clients : pc[c] \in JoinLocs /\ running => (stop => pc[c] \in ClosingLocs)
    <2> SUFFICES ASSUME NEW c \in Clients, pc[c] \in JoinLocs, stop
                 PROVE  pc[c] \in ClosingLocs
      OBVIOUS
    <2>1. PICK d \in Clients : pc[d] \in ClosingLocs
      BY DEF Inv, PoolState, OneCloser
    <2> QED
      BY <2>1, JoinerAlone DEF Inv
  <1>d. ASSUME ~running PROVE Executing = {}
    BY <1>d DEF Inv, PoolState, WorkersMatchState, TaskPlaces, RunBy, Executing
  <1>e. ASSUME Discard, Executing = {}, Phase \in {"down", "closing"}, ~running'
        PROVE  TP!Next
    <2>1. Phase' = "down"
      BY <1>e DEF Phase
    <2>2. /\ Executing' = Executing /\ Finished' = Finished
          /\ Discarded' = Discarded \cup {t \in Tasks : InSeq(t, tasks)}
          /\ tasks' = <<>>
      <3>1. \A t \in Tasks : fate'[t] = IF InSeq(t, tasks) THEN "discarded" ELSE fate[t]
        BY <1>e DEF Discard, Inv, TaskPlaces
      <3>2. \A t \in Tasks : InSeq(t, tasks) => fate[t] = "queued"
        BY DEF Inv, TaskPlaces
      <3> QED
        BY <1>e, <3>1, <3>2 DEF Discard, Executing, Finished, Discarded
    <2>3. TP!Discard
      BY <1>e, <2>1, <2>2, AbstractSteps
    <2> QED
      BY <2>3 DEF TP!Next
  <1>1. CASE UNCHANGED vars
    BY <1>a, <1>1 DEF vars
  <1>2. ASSUME NEW t \in Threads, Acquire(t) PROVE UNCHANGED Seen
    BY <1>0, <1>a, <1>2 DEF Acquire, LockPoints, ReapLocs
  <1>3. ASSUME NEW t \in Threads, SpuriousWakeup(t) PROVE UNCHANGED Seen
    BY <1>0, <1>a, <1>3
    DEF SpuriousWakeup, Goto, Relock, TaskWaiters, FinishWaiters, ReapLocs
  <1>4. ASSUME NEW w \in Workers, WorkerStep(w) PROVE TP!Next \/ UNCHANGED Seen
    <2>1. CASE WorkerSleep(w) \/ WorkerExit(w)
      BY <1>0, <1>a, <2>1 DEF WorkerSleep, WorkerExit, Goto
    <2>2. CASE WorkerFinish(w)
      BY <1>0, <1>a, <2>2 DEF WorkerFinish, Move, Relock, ReapLocs
    <2>3. CASE WorkerTake(w)
      <3>1. running /\ ~stop /\ pc[w] = "w_check" /\ tasks # <<>>
        BY <2>3 DEF WorkerTake, MayTake, Inv, PoolState, WorkersMatchState
      <3>2. Phase = "up" /\ Phase' = "up"
        BY <2>3, <3>1 DEF WorkerTake, Phase
      <3>3. Cardinality(Executing) < NumThreads
        BY <3>1, RoomToTake DEF Inv
      <3>4. Head(tasks) \in Tasks /\ fate[Head(tasks)] = "queued"
        <4>1. InSeq(Head(tasks), tasks) /\ Head(tasks) \in Tasks
          BY <1>0, <3>1, TailItems DEF Inv, TaskPlaces
        <4> QED
          BY <4>1 DEF Inv, TaskPlaces
      <3>5. /\ Executing' = Executing \cup {Head(tasks)}
            /\ Finished' = Finished /\ Discarded' = Discarded
            /\ tasks' = Tail(tasks)
        BY <1>0, <2>3, <3>4 DEF WorkerTake, Executing, Finished, Discarded
      <3>6. TP!Take
        BY <3>1, <3>2, <3>3, <3>5, AbstractSteps
      <3> QED
        BY <3>6 DEF TP!Next
    <2>4. CASE WorkerRun(w)
      <3>1. PICK t \in Tasks : t = task[w]
        BY <1>0, <2>4 DEF WorkerRun
      <3>2. fate[t] = "running"
        BY <2>4, <3>1 DEF WorkerRun, Inv, TaskPlaces, RunBy
      <3>3. /\ Executing' = Executing \ {t} /\ Finished' = Finished \cup {t}
            /\ Discarded' = Discarded
        BY <1>0, <2>4, <3>1, <3>2 DEF WorkerRun, Executing, Finished, Discarded
      <3>4. Phase' = Phase /\ tasks' = tasks
        <4>1. Reaping' = Reaping
          BY <1>0, <2>4 DEF WorkerRun, Goto, Reaping
        <4> QED
          BY <2>4, <4>1 DEF WorkerRun, Phase
      <3>5. TP!Finish(t)
        BY <3>2, <3>3, <3>4, AbstractSteps DEF Executing
      <3> QED
        BY <3>5 DEF TP!Next
    <2> QED
      BY <1>4, <2>1, <2>2, <2>3, <2>4 DEF WorkerStep
  <1>5. ASSUME NEW c \in Clients, CallStep(c) PROVE UNCHANGED Seen
    BY <1>0, <1>5, <1>a DEF CallStep, CallAdd, Call, Entry, CallFree, Goto, ReapLocs
  <1>6. ASSUME NEW c \in Clients, ClientStep(c) PROVE TP!Next \/ UNCHANGED Seen
    <2>1. ASSUME ~running, UNCHANGED <<tasks, fate>>,
                 \/ \E loc \in {"out", "wait_loop"} : StartAll(c, loc)
                 \/ \E n \in 0..(NumThreads - 1) : StartSome(c, n)
          PROVE  TP!Next
      <3>1. Phase = "down"
        BY <2>1 DEF Phase
      <3>2. ASSUME NEW loc, StartAll(c, loc) PROVE TP!Next
        <4>1. Phase' = "up"
          BY <3>2 DEF StartAll, Phase
        <4> QED
          BY <1>b, <2>1, <3>1, <4>1
      <3>3. ASSUME NEW n \in 0..(NumThreads - 1), StartSome(c, n) PROVE TP!Next
        <4>1. pc'[c] = "reap_threads"
          <5>1. 1..n \subseteq Workers
            BY NumThreadsAssumption DEF Workers
          <5> QED
            BY <3>3, <5>1 DEF StartSome, TaskWaiters
        <4>2. Phase' = "failing"
          BY <3>3, <4>1 DEF StartSome, StopStarted, Phase, Reaping
        <4> QED
          BY <1>b, <2>1, <3>1, <4>2
      <3> QED
        BY <2>1, <3>2, <3>3
    <2>2. CASE Start(c)
      <3>1. CASE running
        BY <1>0, <1>a, <2>2, <3>1 DEF Start, Goto, ReapLocs
      <3> QED
        BY <2>1, <2>2, <3>1 DEF Start
    <2>3. CASE WaitEnter(c)
      <3>1. CASE ~running /\ tasks # <<>>
        BY <2>1, <2>3, <3>1 DEF WaitEnter
      <3>2. CASE ~(~running /\ tasks # <<>>)
        BY <1>0, <1>a, <2>3, <3>2 DEF WaitEnter, Goto, ReapLocs
      <3> QED
        BY <3>1, <3>2
    <2>4. CASE AddTask(c)
      <3>1. PICK t \in Tasks : t = task[c]
        BY <1>0, <2>4 DEF AddTask, Adding
      <3>2. fate[t] = "new"
        BY <2>4, <3>1 DEF AddTask, Inv, TaskPlaces, Handed, Adding
      <3>3. ~InSeq(t, tasks) /\ t \notin Executing \cup Finished \cup Discarded
        BY <3>2 DEF Inv, TaskPlaces, Executing, Finished, Discarded
      <3>4. /\ tasks' = Insert(tasks, t, Prio)
            /\ UNCHANGED <<Executing, Finished, Discarded>>
        BY <1>0, <2>4, <3>1, <3>2 DEF AddTask, Executing, Finished, Discarded
      <3>5. Phase' = Phase
        <4>1. Reaping' = Reaping
          BY <1>0, <2>4 DEF AddTask, Move, Relock, Reaping
        <4> QED
          BY <2>4, <4>1 DEF AddTask, Phase
      <3>6. TP!Accept(t)
        BY <3>3, <3>4, <3>5, AbstractSteps
      <3> QED
        BY <3>6 DEF TP!Next
    <2>5. CASE AddTaskFail(c)
      BY <1>0, <1>a, <2>5 DEF AddTaskFail, Goto, ReapLocs
    <2>6. CASE (\E w \in Workers : JoinThread(c, w)) \/ JoinThreadsDone(c)
      BY <1>0, <1>a, <2>6 DEF JoinThread, JoinThreadsDone, Goto, ReapLocs
    <2>7. CASE ReapFinal(c)
      <3>1. Phase = "failing"
        BY <2>7
        DEF ReapFinal, Phase, Reaping, Inv, PoolState, OneCloser, ClosingLocs, ClosedLocs
      <3>2. Phase' = "down" /\ UNCHANGED <<tasks, fate>>
        BY <2>7 DEF ReapFinal, Stopped, Phase
      <3> QED
        BY <1>b, <3>1, <3>2
    <2>8. CASE WaitSleep(c) \/ WaitReturn(c)
      BY <1>0, <1>a, <2>8 DEF WaitSleep, WaitReturn, Goto, ReapLocs
    <2>9. CASE JoinIdle(c)
      <3>1. ~running /\ ~running' /\ Discard
        BY <2>9 DEF JoinIdle
      <3>2. Phase = "down"
        BY <3>1 DEF Phase
      <3> QED
        BY <1>d, <1>e, <3>1, <3>2
    <2>10. CASE JoinStop(c)
      <3>1. running /\ ~stop
        BY <1>c, <2>10 DEF JoinStop, JoinLocs, ClosingLocs, ClosedLocs
      <3>2. Phase = "up"
        BY <3>1 DEF Phase
      <3>3. ~Reaping'
        BY <1>0, <2>10, JoinerAlone
        DEF JoinStop, Move, Relock, Reaping, Inv, JoinLocs, ClosingLocs, ClosedLocs
      <3>4. Phase' = "closing" /\ UNCHANGED <<tasks, fate>>
        BY <2>10, <3>1, <3>3 DEF JoinStop, Phase
      <3> QED
        BY <1>b, <3>2, <3>4
    <2>11. CASE JoinSleep(c) \/ JoinIdleWorkers(c)
      BY <1>0, <1>a, <2>11 DEF JoinSleep, JoinIdleWorkers, AfterJoinLoop, Goto, ReapLocs
    <2>12. CASE JoinFinal(c)
      <3>1. pc[c] = "join_final" /\ Discard /\ ~running'
        BY <2>12 DEF JoinFinal, Stopped
      <3>2. /\ running /\ stop /\ ~Reaping
            /\ \A w \in Workers : pc[w] = "none"
        BY <3>1 DEF Inv, PoolState, OneCloser, ClosingLocs, ClosedLocs, Reaping
      <3>3. Phase = "closing"
        BY <3>2 DEF Phase
      <3>4. Executing = {}
        BY <3>2 DEF Inv, TaskPlaces, RunBy, Executing
      <3> QED
        BY <1>e, <3>1, <3>3, <3>4
    <2>13. CASE Release(c)
      <3>1. ~running /\ ~running' /\ Discard
        BY <2>13 DEF Release, Inv, Retirement, GoneLocs
      <3>2. Phase = "down"
        BY <3>1 DEF Phase
      <3> QED
        BY <1>d, <1>e, <3>1, <3>2
    <2> QED
      BY <1>6, <2>2, <2>3, <2>4, <2>5, <2>6, <2>7, <2>8, <2>9, <2>10, <2>11, <2>12,
         <2>13 DEF ClientStep
  <1> QED
    BY <1>1, <1>2, <1>3, <1>4, <1>5, <1>6 DEF Next

\* Whatever the threads do, the pool keeps what TaskPool promises: an accepted task is
\* executed at most once or discarded, in priority order, and only while the pool is open.
THEOREM PoolImplementsTaskPool == Spec => ImplementsTaskPool
  <1>1. Init => TP!Init
    <2> SUFFICES ASSUME Init PROVE TP!Init
      OBVIOUS
    <2>1. Phase = "down" /\ tasks = <<>>
      BY DEF Init, Phase
    <2>2. Executing = {} /\ Finished = {} /\ Discarded = {}
      BY DEF Init, Executing, Finished, Discarded
    <2> QED
      BY <2>1, <2>2, AbstractSteps
  <1>2. Inv /\ [Next]_vars => [TP!Next]_(TP!poolVars)
    BY StepRefines, AbstractSteps DEF Seen
  <1> QED
    BY <1>1, <1>2, Invariance, PTL DEF Spec, ImplementsTaskPool, TP!Spec
=============================================================================
