----------------------------- MODULE PQueueSpec -----------------------------
(***************************************************************************)
(* What include/ucb/container/pqueue.h promises: a queue of items "in a    *)
(* priority order and otherwise in a FIFO order", every call atomic, with  *)
(* the value each call returns.  PQueue implements it.                     *)
(***************************************************************************)
EXTENDS Integers, Sequences, FiniteSets

CONSTANTS Items, Prio, Null, SizeMax

VARIABLES
    queue,      \* the items, in the order in which they will be popped
    returned    \* what the last call returned

specVars == <<queue, returned>>

Contents == {queue[i] : i \in 1..Len(queue)}

Init == queue = <<>> /\ returned = <<"init", Null>>

\* An item goes behind every one of its own or of a higher priority, in front of all
\* the others.
Ahead(x) == Cardinality({i \in 1..Len(queue) : Prio[queue[i]] >= Prio[x]})

Push(x) ==
    /\ x \in Items \ Contents
    /\ queue' = [i \in 1..(Len(queue) + 1) |->
                    IF i <= Ahead(x) THEN queue[i] ELSE IF i = Ahead(x) + 1 THEN x ELSE queue[i - 1]]
    /\ returned' = <<"push", Ahead(x)>>

PushFail == returned' = <<"push", SizeMax>> /\ UNCHANGED queue

First == IF queue = <<>> THEN Null ELSE Head(queue)

Pop ==
    /\ queue' = IF queue = <<>> THEN <<>> ELSE Tail(queue)
    /\ returned' = <<"pop", First>>

Clear == queue' = <<>> /\ returned' = <<"clear", Null>>

Read(op, value) == returned' = <<op, value>> /\ UNCHANGED queue

Next ==
    \/ \E x \in Items : Push(x)
    \/ PushFail \/ Pop \/ Clear
    \/ Read("peek", First) \/ Read("size", Len(queue))
    \/ Read("empty", queue = <<>>) \/ Read("fit", Null)

Spec == Init /\ [][Next]_specVars
=============================================================================
