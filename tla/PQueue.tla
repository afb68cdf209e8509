------------------------------- MODULE PQueue -------------------------------
(***************************************************************************)
(* The priority queue of src/ucb/container/pqueue.c: an array of buckets   *)
(* sorted by priority, searched by bisection, each bucket a FIFO list of   *)
(* items, grown with realloc, and guarded by a mutex if it was created     *)
(* with ucb_pqueue_new_mt.                                                 *)
(*                                                                         *)
(* The array is the sequence `buckets` (its element i is buckets[i - 1] of *)
(* the code).  A bucket's linked list, its first and last pointers and its *)
(* num_items are one sequence of items.                                    *)
(***************************************************************************)
EXTENDS Integers, Sequences, FiniteSets

CONSTANTS
    Threads,        \* the threads that use the queue
    Items,          \* the data pointers handed to push, and their priorities
    Prio,
    MT,             \* TRUE for ucb_pqueue_new_mt
    InitialBuckets, \* PQUEUE_INITIAL_NUM_BUCKETS_INITIAL (16 in the code)
    ReallocMayFail, \* TRUE iff the realloc of the array may fail, and the error
                    \* function returns (the default one aborts the program)
    Free,           \* the mutex has no owner
    Null,           \* UCB_NULL
    SizeMax         \* SIZE_MAX

GrowFactor == 2

ASSUME PrioAssumption == Prio \in [Items -> Int]
ASSUME InitialBucketsAssumption == InitialBuckets \in Nat \ {0}
ASSUME FlagsAssumption == MT \in BOOLEAN /\ ReallocMayFail \in BOOLEAN
ASSUME SingleThreaded == ~MT => Cardinality(Threads) = 1
ASSUME FreeAssumption == Free \notin Threads

VARIABLES
    buckets,        \* pq->buckets[0 .. num_buckets - 1]
    alloc_buckets,  \* pq->alloc_buckets
    array_freed,    \* pq->buckets points to freed memory, or is UCB_NULL
    mutex,          \* owner of pq->mutex
    pc,             \* "out", "lock" (in LOCK_MUTEX), "in", "undefined"
    call,           \* the call a thread is making, with its item
    where,          \* history: who has each item: "caller", "queue", "freed"
    returned        \* what the last call returned

vars == <<buckets, alloc_buckets, array_freed, mutex, pc, call, where, returned>>

Priorities == {Prio[x] : x \in Items}
Bucket == [priority : Priorities, items : Seq(Items)]
Calls  == [op : {"push"}, item : Items]
     \cup [op : {"pop", "peek", "size", "empty", "clear", "fit"}, item : {Null}]
Idle   == [op |-> "none", item |-> Null]

Init ==
    /\ buckets = <<>> /\ alloc_buckets = InitialBuckets /\ array_freed = FALSE
    /\ mutex = Free
    /\ pc = [t \in Threads |-> "out"]
    /\ call = [t \in Threads |-> Idle]
    /\ where = [x \in Items |-> "caller"]
    /\ returned = <<"init", Null>>

-----------------------------------------------------------------------------
(* Operators on the bucket array.                                          *)

GoesRight(bprio, prio) == bprio >= prio

\* ucb_pqueue_search_bucket: the 0-based index of the bucket of priority prio,
\* or -(insert point + 1).
Search(bs, prio) ==
    LET step[range \in (0..Len(bs)) \X (-1..(Len(bs) - 1))] ==
            LET low  == range[1]
                high == range[2]
                mid  == low + (high - low) \div 2
            IN  IF low > high THEN -(low + 1)
                ELSE IF bs[mid + 1].priority = prio THEN mid
                ELSE IF GoesRight(bs[mid + 1].priority, prio) THEN step[<<mid + 1, high>>]
                ELSE step[<<low, mid - 1>>]
    IN  step[<<0, Len(bs) - 1>>]

\* memmove up by one from idx, and the new bucket at idx.
InsertBucket(bs, idx, x) ==
    [i \in 1..(Len(bs) + 1) |->
        IF i <= idx THEN bs[i]
        ELSE IF i = idx + 1 THEN [priority |-> Prio[x], items |-> <<x>>]
        ELSE bs[i - 1]]

\* The position that ucb_pqueue_push_node adds up for an item just put last
\* into bucket idx.
ItemsBefore(bs, idx) ==
    LET sum[i \in 0..Len(bs)] == IF i = 0 THEN 0 ELSE sum[i - 1] + Len(bs[i].items)
    IN  sum[idx]
PositionInMutant(bs, idx) == Len(bs[idx + 1].items) + ItemsBefore(bs, idx)
PositionIn(bs, idx)       == Len(bs[idx + 1].items) - 1 + ItemsBefore(bs, idx)

NumItems(bs) == ItemsBefore(bs, Len(bs))

PopFirstMutant(bs) == [bs EXCEPT ![1].items = Tail(@)]

\* The array after its first item is popped; a bucket that becomes empty is
\* removed by shifting the others to the left.
PopFirst(bs) ==
    IF Len(bs[1].items) = 1 THEN Tail(bs) ELSE [bs EXCEPT ![1].items = Tail(@)]

-----------------------------------------------------------------------------
(* Calls.  A definition named ...Mutant above another one is a faulty      *)
(* variant of it, used to show that a property depends on the definition.  *)

Enter(t, c) ==
    /\ pc[t] = "out" /\ c \in Calls
    /\ c.op = "push" => /\ where[c.item] = "caller"
                        /\ \A u \in Threads : call[u].item # c.item
    /\ call' = [call EXCEPT ![t] = c]
    /\ pc' = [pc EXCEPT ![t] = "lock"]
    /\ UNCHANGED <<buckets, alloc_buckets, array_freed, mutex, where, returned>>

\* ucb_pqueue_push cannot allocate the list node: the queue is not touched.
PushNoNode(t) ==
    /\ pc[t] = "lock" /\ call[t].op = "push"
    /\ returned' = <<"push", SizeMax>>
    /\ pc' = [pc EXCEPT ![t] = "out"] /\ call' = [call EXCEPT ![t] = Idle]
    /\ UNCHANGED <<buckets, alloc_buckets, array_freed, mutex, where>>

\* LOCK_MUTEX.
Lock(t) ==
    /\ pc[t] = "lock"
    /\ IF MT THEN mutex = Free /\ mutex' = t ELSE UNCHANGED mutex
    /\ pc' = [pc EXCEPT ![t] = "in"]
    /\ UNCHANGED <<buckets, alloc_buckets, array_freed, call, where, returned>>

\* A critical section ends here: it returns `value`, with or without the unlock.
Return(t, value) ==
    /\ returned' = <<call[t].op, value>>
    /\ pc' = [pc EXCEPT ![t] = "out"] /\ call' = [call EXCEPT ![t] = Idle]
Unlock == mutex' = Free

MayShrink == Len(buckets) > InitialBuckets /\ Len(buckets) < alloc_buckets

\* The calls that reach the array; `empty` and most calls of `fit` only compare
\* the counts.
UsesArray(op) == op \in {"push", "pop", "peek", "size", "clear"} \/ (op = "fit" /\ MayShrink)
In(t, op) == pc[t] = "in" /\ call[t].op = op /\ ~(array_freed /\ UsesArray(op))

PushAppends(t) ==
    LET x == call[t].item
        idx == Search(buckets, Prio[x])
        bs == [buckets EXCEPT ![idx + 1].items = Append(@, x)]
    IN  /\ In(t, "push") /\ idx >= 0
        /\ buckets' = bs
        /\ where' = [where EXCEPT ![x] = "queue"]
        /\ Return(t, PositionIn(bs, idx)) /\ Unlock
        /\ UNCHANGED <<alloc_buckets, array_freed>>

Grown == IF Len(buckets) = alloc_buckets THEN alloc_buckets * GrowFactor
                                         ELSE alloc_buckets

PushInserts(t) ==
    LET x == call[t].item
        idx == -Search(buckets, Prio[x]) - 1
        bs == InsertBucket(buckets, idx, x)
    IN  /\ In(t, "push") /\ Search(buckets, Prio[x]) < 0
        /\ alloc_buckets' = Grown
        /\ buckets' = bs
        /\ where' = [where EXCEPT ![x] = "queue"]
        /\ Return(t, PositionIn(bs, idx)) /\ Unlock
        /\ UNCHANGED array_freed

\* Mutant: the rejected item is taken over.
PushGrowFailsMutant(t) ==
    /\ In(t, "push") /\ ReallocMayFail
    /\ Search(buckets, Prio[call[t].item]) < 0 /\ Len(buckets) = alloc_buckets
    /\ array_freed' = TRUE
    /\ where' = [where EXCEPT ![call[t].item] = "queue"]
    /\ Return(t, SizeMax)
    /\ UNCHANGED <<buckets, alloc_buckets, mutex>>

\* ucb_realloc fails: it frees the old array, and push_node returns from inside
\* the critical section.
PushGrowFails(t) ==
    /\ In(t, "push") /\ ReallocMayFail
    /\ Search(buckets, Prio[call[t].item]) < 0 /\ Len(buckets) = alloc_buckets
    /\ array_freed' = TRUE
    /\ Return(t, SizeMax)
    /\ UNCHANGED <<buckets, alloc_buckets, mutex, where>>

First == IF buckets = <<>> THEN Null ELSE buckets[1].items[1]

Pop(t) ==
    /\ In(t, "pop")
    /\ IF buckets = <<>> THEN UNCHANGED <<buckets, where>>
       ELSE /\ buckets' = PopFirst(buckets)
            /\ where' = [where EXCEPT ![First] = "caller"]
    /\ Return(t, First) /\ Unlock
    /\ UNCHANGED <<alloc_buckets, array_freed>>

\* Every item is freed with data_free; the array keeps its size.
Clear(t) ==
    /\ In(t, "clear")
    /\ buckets' = <<>>
    /\ where' = [x \in Items |-> IF where[x] = "queue" THEN "freed" ELSE where[x]]
    /\ Return(t, Null) /\ Unlock
    /\ UNCHANGED <<alloc_buckets, array_freed>>

\* ucb_pqueue_fit shrinks the array to the buckets in use, never below the
\* initial number.  If realloc fails the array is gone.
Fit(t) ==
    /\ In(t, "fit")
    /\ alloc_buckets' = IF MayShrink THEN Len(buckets) ELSE alloc_buckets
    /\ \/ UNCHANGED array_freed
       \/ MayShrink /\ ReallocMayFail /\ array_freed' = TRUE
    /\ Return(t, Null) /\ Unlock
    /\ UNCHANGED <<buckets, where>>

\* peek, size and empty.
Read(t) ==
    /\ \/ In(t, "peek") /\ Return(t, First)
       \/ In(t, "size") /\ Return(t, NumItems(buckets))
       \/ In(t, "empty") /\ Return(t, buckets = <<>>)
    /\ Unlock
    /\ UNCHANGED <<buckets, alloc_buckets, array_freed, where>>

\* Any use of the array after it has been freed is undefined behaviour: nothing
\* is known of the program from here on.
UseFreedArray(t) ==
    /\ pc[t] = "in" /\ array_freed /\ UsesArray(call[t].op)
    /\ pc' = [pc EXCEPT ![t] = "undefined"]
    /\ UNCHANGED <<buckets, alloc_buckets, array_freed, mutex, call, where, returned>>

Next ==
    \E t \in Threads :
        \/ \E c \in Calls : Enter(t, c)
        \/ Lock(t) \/ PushNoNode(t)
        \/ PushAppends(t) \/ PushInserts(t) \/ PushGrowFails(t)
        \/ Pop(t) \/ Clear(t) \/ Fit(t) \/ Read(t) \/ UseFreedArray(t)

Spec == Init /\ [][Next]_vars

-----------------------------------------------------------------------------
(* Properties.                                                             *)

\* Every variable keeps its type, and the array never gets smaller than it was
\* when it was created, so doubling it always makes room.
TypeOK ==
    /\ \A i \in 1..Len(buckets) : buckets[i] \in Bucket
    /\ alloc_buckets \in Nat /\ alloc_buckets >= InitialBuckets
    /\ array_freed \in BOOLEAN
    /\ mutex \in Threads \cup {Free}
    /\ pc \in [Threads -> {"out", "lock", "in", "undefined"}]
    /\ call \in [Threads -> Calls \cup {Idle}]
    /\ where \in [Items -> {"caller", "queue", "freed"}]

\* The array holds at most alloc_buckets buckets, in strictly falling order of
\* priority, none of them empty (asserted in ucb_pqueue_push_node), so bisection
\* finds every bucket and an item never gets a second bucket of its priority.
WellFormed ==
    /\ Len(buckets) <= alloc_buckets
    /\ \A i, j \in 1..Len(buckets) :
          i < j => buckets[i].priority > buckets[j].priority
    /\ \A i \in 1..Len(buckets) :
          /\ buckets[i].items # <<>>
          /\ \A k \in 1..Len(buckets[i].items) :
                Prio[buckets[i].items[k]] = buckets[i].priority

\* Bisection agrees with its definition on every array that occurs: the index of
\* the bucket, or the number of buckets of a higher priority.
SearchFindsBucket ==
    \A p \in Priorities :
        LET higher == Cardinality({i \in 1..Len(buckets) : buckets[i].priority > p})
        IN  Search(buckets, p) =
                IF \E i \in 1..Len(buckets) : buckets[i].priority = p
                THEN higher ELSE -(higher + 1)

\* An item is in exactly one place of the queue or in none, and it is never lost
\* or kept after it has been freed or handed back.
OwnedOnce ==
    \A x \in Items :
        LET at(i)  == {k \in 1..Len(buckets[i].items) : buckets[i].items[k] = x}
            places == UNION {{<<i, k>> : k \in at(i)} : i \in 1..Len(buckets)}
        IN  Cardinality(places) = IF where[x] = "queue" THEN 1 ELSE 0

\* The queue "supports both single and multi-threaded access": a thread that is
\* in none of its functions does not hold its mutex.
MutexReleased == \A t \in Threads : pc[t] = "out" => mutex # t

\* No call reaches the bucket array after it has been freed.
NoUseAfterFree == \A t \in Threads : pc[t] # "undefined"

\* The queue the buckets stand for, in pop order.
FlatOf(bs) ==
    LET cat[i \in 0..Len(bs)] == IF i = 0 THEN <<>> ELSE cat[i - 1] \o bs[i].items
    IN  cat[Len(bs)]
Flat == FlatOf(buckets)

PQ == INSTANCE PQueueSpec WITH queue <- Flat

\* Every call has the effect and the result that pqueue.h promises.
ImplementsPQueueSpec == PQ!Spec

\* The bucket array is sorted, without gaps and within its capacity, and every item is in
\* one bucket or with the caller, whatever fails.
QueueSound == WellFormed /\ OwnedOnce
=============================================================================
