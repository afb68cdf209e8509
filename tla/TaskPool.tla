------------------------------ MODULE TaskPool ------------------------------
(***************************************************************************)
(* What a thread pool promises to the threads that hand it tasks, without  *)
(* locks, condition variables or worker threads: ThreadPool implements it. *)
(*                                                                         *)
(*  - A task that was accepted is queued, then executed at most once, or   *)
(*    it is discarded; it is never both.                                   *)
(*  - At most NumThreads tasks execute at a time, all of them while the    *)
(*    pool is open, and a task leaves the queue in priority order.         *)
(*  - A start that fails executes nothing and keeps the queue.             *)
(*  - Closing takes no further task, lets the executing ones finish, and   *)
(*    only then discards the queue.                                        *)
(***************************************************************************)
EXTENDS Integers, Sequences, FiniteSets

CONSTANTS NumThreads, Tasks, Prio

VARIABLES
    phase,      \* "down", "failing" (a start that fails), "up", "closing"
    queue,      \* accepted tasks, in the order in which they are taken
    executing, finished, discarded      \* sets of tasks

poolVars == <<phase, queue, executing, finished, discarded>>

InQueue(t) == \E i \in 1..Len(queue) : queue[i] = t

Init ==
    /\ phase = "down" /\ queue = <<>>
    /\ executing = {} /\ finished = {} /\ discarded = {}

\* A task goes behind every one of its own or of a higher priority, in front of all
\* the others.
Ahead(t) == Cardinality({i \in 1..Len(queue) : Prio[queue[i]] >= Prio[t]})

Accept(t) ==
    /\ ~InQueue(t) /\ t \notin executing \cup finished \cup discarded
    /\ queue' = [i \in 1..(Len(queue) + 1) |->
                    IF i <= Ahead(t) THEN queue[i] ELSE IF i = Ahead(t) + 1 THEN t ELSE queue[i - 1]]
    /\ UNCHANGED <<phase, executing, finished, discarded>>

Enter(from, to) ==
    /\ phase = from /\ phase' = to
    /\ UNCHANGED <<queue, executing, finished, discarded>>

Take ==
    /\ phase = "up" /\ queue # <<>> /\ Cardinality(executing) < NumThreads
    /\ executing' = executing \cup {Head(queue)} /\ queue' = Tail(queue)
    /\ UNCHANGED <<phase, finished, discarded>>

Finish(t) ==
    /\ t \in executing
    /\ executing' = executing \ {t} /\ finished' = finished \cup {t}
    /\ UNCHANGED <<phase, queue, discarded>>

Discard ==
    /\ phase \in {"down", "closing"} /\ executing = {}
    /\ phase' = "down" /\ queue' = <<>>
    /\ discarded' = discarded \cup {t \in Tasks : InQueue(t)}
    /\ UNCHANGED <<executing, finished>>

Next ==
    \/ \E t \in Tasks : Accept(t) \/ Finish(t)
    \/ Enter("down", "up") \/ Enter("up", "closing")
    \/ Enter("down", "failing") \/ Enter("failing", "down")
    \/ Take \/ Discard

Spec == Init /\ [][Next]_poolVars
=============================================================================
