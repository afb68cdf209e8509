----------------------------- MODULE ThreadPool -----------------------------
(***************************************************************************)
(* The thread pool of src/ucb/threads/threadpool.c, with the mutex `lock`, *)
(* the condition variables task_notify and finished_notify, the worker     *)
(* loop and the client calls add_task, start, wait_all, join and free.     *)
(*                                                                         *)
(* A thread's program counter names the place it has reached in the code.  *)
(* A critical section is one step, between the step that acquires the lock *)
(* and the release (an unlock or a cond_wait): nothing it reads or writes  *)
(* is touched by a thread that does not hold the lock.  A thread inside    *)
(* pthread_cond_wait is a thread whose pc is a *_sleep location, so the    *)
(* waiters of a condition variable need no variable of their own.          *)
(***************************************************************************)
EXTENDS Integers, Sequences, FiniteSets

CONSTANTS
    NumThreads,     \* pool->num_threads
    Clients,        \* the threads that call the pool's functions
    Ops,            \* Ops[c] \subseteq AllOps: the calls client c may make
    Tasks,          \* the task objects, each handed to add_task at most once
    Prio,           \* Prio[t]: task->priority
    StartMayFail,   \* TRUE iff pthread_create may fail and the error function returns
                    \* (the default one aborts the program)
    Free,           \* the lock has no owner
    NoTask          \* the local variable `task` is NULL

Workers == 1..NumThreads
Threads == Workers \cup Clients
AllOps  == {"add_task", "start", "wait_all", "join", "free"}

ASSUME NumThreadsAssumption == NumThreads \in Nat \ {0}
ASSUME ClientsAssumption == Clients \cap Workers = {} /\ Free \notin Threads
ASSUME OpsAssumption == Ops \in [Clients -> SUBSET AllOps]
ASSUME TasksAssumption == IsFiniteSet(Tasks) /\ NoTask \notin Tasks
ASSUME PrioAssumption == \A t \in Tasks : Prio[t] \in Int
ASSUME StartMayFailAssumption == StartMayFail \in BOOLEAN

\* The contract of pthread_join: two threads must not join one worker at the
\* same time.  Only join, free and a failed start join workers, so one client
\* alone may call join and free, and if a start can fail no other client may
\* start the pool (wait_all starts a pool that is not running).
JoinsWorkers(c) == Ops[c] \cap {"join", "free"} # {}
ASSUME JoinContract ==
    \A c, d \in Clients :
        c # d /\ JoinsWorkers(c) =>
            /\ ~JoinsWorkers(d)
            /\ StartMayFail => Ops[d] \subseteq {"add_task"}

VARIABLES
    lock,           \* owner of pool->lock
    running,        \* pool->running
    stop,           \* pool->stop
    num_running,    \* pool->num_running
    tasks,          \* pool->tasks, in pop order
    pc,             \* where each thread is; "none" is a worker not created
    task,           \* the task that a worker has popped or a client is adding
    fate,           \* history: what has become of each task
    retired         \* a client has called ucb_threadpool_free

vars == <<lock, running, stop, num_running, tasks, pc, task, fate, retired>>

WorkerLocs ==
    {"none", "w_lock", "w_check", "w_sleep", "w_run", "w_lock2", "w_finish",
     "w_exit"}
ClientLocs ==
    {"out", "add_lock", "add_cs", "start_lock", "start_cs",
     "wait_lock", "wait_cs", "wait_loop", "wait_sleep", "wait_relock",
     "join_lock", "join_cs", "join_loop", "join_sleep", "join_relock",
     "join_threads", "join_lock2", "join_final",
     "reap_threads", "reap_lock", "reap_final", "release", "freed"}

\* Where ucb_mutex_lock (or the return from ucb_cond_wait) leads.
LockPoints ==
    {<<"w_lock", "w_check">>, <<"w_lock2", "w_finish">>,
     <<"add_lock", "add_cs">>, <<"start_lock", "start_cs">>,
     <<"wait_lock", "wait_cs">>, <<"wait_relock", "wait_loop">>,
     <<"join_lock", "join_cs">>, <<"join_relock", "join_loop">>,
     <<"join_lock2", "join_final">>, <<"reap_lock", "reap_final">>}
Critical == {l[2] : l \in LockPoints}

Fates == {"new", "queued", "running", "done", "discarded"}

Init ==
    /\ lock = Free
    /\ running = FALSE /\ stop = FALSE /\ num_running = 0
    /\ tasks = <<>>
    /\ pc = [t \in Threads |-> IF t \in Workers THEN "none" ELSE "out"]
    /\ task = [t \in Threads |-> NoTask]
    /\ fate = [t \in Tasks |-> "new"]
    /\ retired = FALSE

-----------------------------------------------------------------------------
(* A definition named ...Mutant above another one is a faulty variant of   *)
(* it, used to show that a property depends on the definition.             *)
(*                                                                         *)
(* Mutex and condition variables.                                          *)

Acquire(t) ==
    /\ lock = Free
    /\ \E l \in LockPoints : pc[t] = l[1] /\ pc' = [pc EXCEPT ![t] = l[2]]
    /\ lock' = t
    /\ UNCHANGED <<running, stop, num_running, tasks, task, fate, retired>>

\* The location at which a thread woken in cond_wait asks for the lock again.
Relock(loc) ==
    CASE loc = "w_sleep"    -> "w_lock"
      [] loc = "wait_sleep" -> "wait_relock"
      [] loc = "join_sleep" -> "join_relock"
      [] OTHER              -> loc

TaskWaiters   == {w \in Workers : pc[w] = "w_sleep"}
FinishWaiters == {c \in Clients : pc[c] \in {"wait_sleep", "join_sleep"}}

\* The sets of threads that a ucb_cond_signal may wake: one waiter, if any.
Signalled(waiters) == IF waiters = {} THEN {{}} ELSE {{t} : t \in waiters}

\* Thread t goes to loc and the threads in `woken` leave cond_wait.
Move(t, loc, woken) ==
    pc' = [u \in Threads |-> IF u = t THEN loc
                             ELSE IF u \in woken THEN Relock(pc[u]) ELSE pc[u]]
Goto(t, loc) == pc' = [pc EXCEPT ![t] = loc]

Unlock == lock' = Free

\* pthread_cond_wait may return without a signal, and a signal may wake more
\* than one waiter.
SpuriousWakeup(t) ==
    /\ t \in TaskWaiters \cup FinishWaiters
    /\ Goto(t, Relock(pc[t]))
    /\ UNCHANGED <<lock, running, stop, num_running, tasks, task, fate, retired>>

-----------------------------------------------------------------------------
(* ucb_threadpool_worker.                                                  *)

\* cond_wait(task_notify), releasing the lock.
WorkerSleep(w) ==
    /\ pc[w] = "w_check" /\ tasks = <<>> /\ ~stop
    /\ Goto(w, "w_sleep") /\ Unlock
    /\ UNCHANGED <<running, stop, num_running, tasks, task, fate, retired>>

WorkerExit(w) ==
    /\ pc[w] = "w_check" /\ stop
    /\ Goto(w, "w_exit") /\ Unlock
    /\ UNCHANGED <<running, stop, num_running, tasks, task, fate, retired>>

MayTakeMutant == tasks # <<>>
MayTake       == tasks # <<>> /\ ~stop

CountUpMutant == UNCHANGED num_running
CountUp       == num_running' = num_running + 1

\* The highest-priority task is popped and counted as running.
WorkerTake(w) ==
    /\ pc[w] = "w_check" /\ MayTake
    /\ task' = [task EXCEPT ![w] = Head(tasks)]
    /\ tasks' = Tail(tasks)
    /\ CountUp
    /\ fate' = [fate EXCEPT ![Head(tasks)] = "running"]
    /\ Goto(w, "w_run") /\ Unlock
    /\ UNCHANGED <<running, stop, retired>>

\* ucb_task_run and ucb_task_free, without the lock.
WorkerRun(w) ==
    /\ pc[w] = "w_run"
    /\ fate' = [fate EXCEPT ![task[w]] = "done"]
    /\ task' = [task EXCEPT ![w] = NoTask]
    /\ Goto(w, "w_lock2")
    /\ UNCHANGED <<lock, running, stop, num_running, tasks, retired>>

CountDownMutant == UNCHANGED num_running
CountDown       == num_running' = num_running - 1

FinishWakesMutant1 == IF tasks = <<>> THEN Signalled(FinishWaiters) ELSE {{}}
FinishWakesMutant2 == Signalled(TaskWaiters)
FinishWakes        == Signalled(FinishWaiters)

\* The task is counted as finished and one waiter of finished_notify is woken.
WorkerFinish(w) ==
    /\ pc[w] = "w_finish"
    /\ CountDown
    /\ \E woken \in FinishWakes : Move(w, "w_lock", woken)
    /\ Unlock
    /\ UNCHANGED <<running, stop, tasks, task, fate, retired>>

-----------------------------------------------------------------------------
(* The client's side: entering a function.                                 *)

CallAdd(c, t) ==
    /\ pc[c] = "out" /\ ~retired /\ "add_task" \in Ops[c]
    /\ fate[t] = "new" /\ \A d \in Clients : task[d] # t
    /\ task' = [task EXCEPT ![c] = t]
    /\ Goto(c, "add_lock")
    /\ UNCHANGED <<lock, running, stop, num_running, tasks, fate, retired>>

Entry == {<<"start", "start_lock">>, <<"wait_all", "wait_lock">>,
          <<"join", "join_lock">>}

Call(c) ==
    /\ pc[c] = "out" /\ ~retired
    /\ \E e \in Entry : e[1] \in Ops[c] /\ Goto(c, e[2])
    /\ UNCHANGED <<lock, running, stop, num_running, tasks, task, fate, retired>>

\* ucb_threadpool_free: the caller is the only user of the pool by now.
CallFree(c) ==
    /\ "free" \in Ops[c] /\ ~retired
    /\ \A d \in Clients : pc[d] = "out"
    /\ retired' = TRUE
    /\ Goto(c, "join_lock")
    /\ UNCHANGED <<lock, running, stop, num_running, tasks, task, fate>>

-----------------------------------------------------------------------------
(* ucb_threadpool_add_task.                                                *)

\* ucb_pqueue_push puts an item behind every one of its own or of a higher priority, in
\* front of all the others.
InsertPosition(q, p, prio) == Cardinality({i \in 1..Len(q) : prio[q[i]] >= p})
Insert(q, item, prio) ==
    LET pos == InsertPosition(q, prio[item], prio)
    IN  [i \in 1..(Len(q) + 1) |->
            IF i <= pos THEN q[i] ELSE IF i = pos + 1 THEN item ELSE q[i - 1]]

AddWakesMutant1 == IF running /\ tasks = <<>> THEN Signalled(TaskWaiters) ELSE {{}}
AddWakesMutant2 == {{}}
AddWakes        == IF running THEN Signalled(TaskWaiters) ELSE {{}}

\* The clone is queued and, if the pool is running, one worker is woken.
AddTask(c) ==
    /\ pc[c] = "add_cs"
    /\ tasks' = Insert(tasks, task[c], Prio)
    /\ fate' = [fate EXCEPT ![task[c]] = "queued"]
    /\ task' = [task EXCEPT ![c] = NoTask]
    /\ \E woken \in AddWakes : Move(c, "out", woken)
    /\ Unlock
    /\ UNCHANGED <<running, stop, num_running, retired>>

\* The task or its queue node cannot be allocated (and the error function did not
\* abort): false is returned, nothing is
\* queued.  (PQueue models the failure to grow the bucket array.)
AddTaskFail(c) ==
    /\ pc[c] = "add_cs"
    /\ task' = [task EXCEPT ![c] = NoTask]
    /\ Goto(c, "out") /\ Unlock
    /\ UNCHANGED <<running, stop, num_running, tasks, fate, retired>>

-----------------------------------------------------------------------------
(* ucb_threadpool_start_impl and ucb_threadpool_reap_partial.              *)

\* All the workers are created, and wait for the lock that c still holds.
StartAll(c, loc) ==
    /\ running' = TRUE /\ stop' = FALSE
    /\ pc' = [t \in Threads |-> IF t \in Workers THEN "w_lock"
                                ELSE IF t = c THEN loc ELSE pc[t]]

StopStartedMutant == running' = TRUE /\ stop' = FALSE
StopStarted        == running' = TRUE /\ stop' = TRUE

\* pthread_create fails for worker n + 1: the n workers created are told to
\* stop, and the lock is released to join them.
StartSome(c, n) ==
    /\ StartMayFail /\ StopStarted
    /\ pc' = [t \in Threads |->
                 IF t \in 1..n THEN "w_lock"
                 ELSE IF t \in TaskWaiters THEN Relock(pc[t])
                 ELSE IF t = c THEN "reap_threads" ELSE pc[t]]
    /\ Unlock

\* ucb_threadpool_start.
Start(c) ==
    /\ pc[c] = "start_cs"
    /\ \/ /\ running
          /\ Goto(c, "out") /\ Unlock
          /\ UNCHANGED <<running, stop>>
       \/ ~running /\ StartAll(c, "out") /\ Unlock
       \/ ~running /\ \E n \in 0..(NumThreads - 1) : StartSome(c, n)
    /\ UNCHANGED <<num_running, tasks, task, fate, retired>>

\* ucb_thread_join of the workers in turn: the next one joined is the first
\* that has not been, and the caller blocks until it has exited.
JoinThread(c, w) ==
    /\ pc[c] \in {"join_threads", "reap_threads"}
    /\ pc[w] = "w_exit" /\ \A v \in 1..(w - 1) : pc[v] = "none"
    /\ Goto(w, "none")
    /\ UNCHANGED <<lock, running, stop, num_running, tasks, task, fate, retired>>

JoinThreadsDone(c) ==
    /\ \A w \in Workers : pc[w] = "none"
    /\ \/ pc[c] = "join_threads" /\ Goto(c, "join_lock2")
       \/ pc[c] = "reap_threads" /\ Goto(c, "reap_lock")
    /\ UNCHANGED <<lock, running, stop, num_running, tasks, task, fate, retired>>

StoppedMutant == running' = FALSE /\ UNCHANGED stop
Stopped       == running' = FALSE /\ stop' = FALSE

\* The pool is left not running, its queue untouched.
ReapFinal(c) ==
    /\ pc[c] = "reap_final"
    /\ Stopped /\ Goto(c, "out") /\ Unlock
    /\ UNCHANGED <<num_running, tasks, task, fate, retired>>

-----------------------------------------------------------------------------
(* ucb_threadpool_wait_all.                                                *)

WaitEnter(c) ==
    /\ pc[c] = "wait_cs"
    /\ IF ~running /\ tasks # <<>>
       THEN \/ StartAll(c, "wait_loop") /\ UNCHANGED lock
            \/ \E n \in 0..(NumThreads - 1) : StartSome(c, n)
       ELSE Goto(c, "wait_loop") /\ UNCHANGED <<lock, running, stop>>
    /\ UNCHANGED <<num_running, tasks, task, fate, retired>>

AllDoneMutant == tasks = <<>>
AllDone       == num_running = 0 /\ tasks = <<>>

WaitSleep(c) ==
    /\ pc[c] = "wait_loop" /\ ~AllDone
    /\ Goto(c, "wait_sleep") /\ Unlock
    /\ UNCHANGED <<running, stop, num_running, tasks, task, fate, retired>>

WaitReturn(c) ==
    /\ pc[c] = "wait_loop" /\ AllDone
    /\ Goto(c, "out") /\ Unlock
    /\ UNCHANGED <<running, stop, num_running, tasks, task, fate, retired>>

-----------------------------------------------------------------------------
(* ucb_threadpool_join and ucb_threadpool_free.                            *)

\* ucb_pqueue_clear frees the tasks that are still queued.
Discard ==
    /\ tasks' = <<>>
    /\ fate' = [t \in Tasks |-> IF fate[t] = "queued" THEN "discarded" ELSE fate[t]]

\* join returns to its caller, free goes on to release the pool.
JoinReturn(c) == Goto(c, IF retired THEN "release" ELSE "out")

\* Nothing to join: the pool is not running.
JoinIdle(c) ==
    /\ pc[c] = "join_cs" /\ ~running
    /\ Discard /\ JoinReturn(c) /\ Unlock
    /\ UNCHANGED <<running, stop, num_running, task, retired>>

JoinWakesMutant == {}
JoinWakes       == TaskWaiters

\* stop is set and every sleeping worker is woken; the lock is still held.
JoinStop(c) ==
    /\ pc[c] = "join_cs" /\ running
    /\ stop' = TRUE
    /\ Move(c, "join_loop", JoinWakes)
    /\ UNCHANGED <<lock, running, num_running, tasks, task, fate, retired>>

JoinSleep(c) ==
    /\ pc[c] = "join_loop" /\ num_running > 0
    /\ Goto(c, "join_sleep") /\ Unlock
    /\ UNCHANGED <<running, stop, num_running, tasks, task, fate, retired>>

AfterJoinLoopMutant == "join_lock2"
AfterJoinLoop       == "join_threads"

JoinIdleWorkers(c) ==
    /\ pc[c] = "join_loop" /\ num_running = 0
    /\ Goto(c, AfterJoinLoop) /\ Unlock
    /\ UNCHANGED <<running, stop, num_running, tasks, task, fate, retired>>

JoinFinal(c) ==
    /\ pc[c] = "join_final"
    /\ Stopped /\ Discard /\ JoinReturn(c) /\ Unlock
    /\ UNCHANGED <<num_running, task, retired>>

\* The queue, the mutex, the condition variables and the threads are released.
Release(c) ==
    /\ pc[c] = "release"
    /\ Discard /\ Goto(c, "freed")
    /\ UNCHANGED <<lock, running, stop, num_running, task, retired>>
-----------------------------------------------------------------------------
WorkerStep(w) ==
    WorkerSleep(w) \/ WorkerExit(w) \/ WorkerTake(w) \/ WorkerRun(w) \/ WorkerFinish(w)

\* The steps of a client inside a function: it never stops there by itself.
ClientStep(c) ==
    \/ AddTask(c) \/ AddTaskFail(c) \/ Start(c)
    \/ (\E w \in Workers : JoinThread(c, w)) \/ JoinThreadsDone(c) \/ ReapFinal(c)
    \/ WaitEnter(c) \/ WaitSleep(c) \/ WaitReturn(c)
    \/ JoinIdle(c) \/ JoinStop(c) \/ JoinSleep(c) \/ JoinIdleWorkers(c)
    \/ JoinFinal(c) \/ Release(c)

CallStep(c) == (\E t \in Tasks : CallAdd(c, t)) \/ Call(c) \/ CallFree(c)

Next ==
    \/ \E t \in Threads : Acquire(t) \/ SpuriousWakeup(t)
    \/ \E w \in Workers : WorkerStep(w)
    \/ \E c \in Clients : ClientStep(c) \/ CallStep(c)

Spec == Init /\ [][Next]_vars

\* The scheduler runs every thread inside a pool function, a task returns, and
\* a thread that keeps asking for the mutex gets it in the end.  Nothing makes
\* a client call a function, no allocation has to fail, and nothing has to wake
\* up spuriously.
Fairness ==
    /\ \A t \in Threads : SF_vars(Acquire(t))
    /\ \A w \in Workers : WF_vars(WorkerStep(w))
    /\ \A c \in Clients : WF_vars(ClientStep(c))

FairSpec == Spec /\ Fairness

-----------------------------------------------------------------------------
(* Invariants.                                                             *)

\* Every variable keeps the type of the field or local it stands for.
TypeOK ==
    /\ lock \in Threads \cup {Free}
    /\ running \in BOOLEAN /\ stop \in BOOLEAN /\ retired \in BOOLEAN
    /\ num_running \in 0..NumThreads
    /\ tasks \in Seq(Tasks)
    /\ pc \in [Threads -> WorkerLocs \cup ClientLocs]
    /\ \A w \in Workers : pc[w] \in WorkerLocs
    /\ \A c \in Clients : pc[c] \in ClientLocs
    /\ task \in [Threads -> Tasks \cup {NoTask}]
    /\ fate \in [Tasks -> Fates]

\* The lock is held by exactly the thread that is in a critical section: every
\* path, the early returns and the hand-over to ucb_threadpool_reap_partial
\* included, releases it once, and only its owner does (the mutex is of the
\* error-checking kind, so a wrong unlock aborts the program).
LockDiscipline == \A t \in Threads : lock = t <=> pc[t] \in Critical

\* The workers between taking a task and counting it as finished.
Busy == {w \in Workers : pc[w] \in {"w_run", "w_lock2", "w_finish"}}

\* num_running counts the busy workers, so it is never negative (a size_t would
\* wrap) and never above num_threads.
RunningCount == num_running = Cardinality(Busy)

\* A task is in one place only: a queued task is in the queue exactly once, and
\* a running task belongs to exactly one worker.
OnePlace ==
    /\ \A t \in Tasks :
          fate[t] = "queued" <=> \E i \in 1..Len(tasks) : tasks[i] = t
    /\ \A i, j \in 1..Len(tasks) : tasks[i] = tasks[j] => i = j
    /\ \A t \in Tasks :
          fate[t] = "running" <=> \E w \in Workers : pc[w] = "w_run" /\ task[w] = t
    /\ \A v, w \in Workers :
          pc[v] = "w_run" /\ pc[w] = "w_run" /\ task[v] = task[w] => v = w

\* A pool that is not running has no thread left that could touch it, and a
\* running one that is not being stopped has all its workers alive, across any
\* sequence of starts, failed starts and joins.  (ucb_thread_start aborts when
\* the worker it is to start is still running.)
WorkersMatchState ==
    /\ ~running => ~stop /\ \A w \in Workers : pc[w] = "none"
    /\ running /\ ~stop => \A w \in Workers : pc[w] \notin {"none", "w_exit"}

\* No wakeup of task_notify is lost: a worker sleeps only while there are at
\* least as many workers on their way to the queue as there are queued tasks,
\* so no task waits beside a sleeping worker.
NoIdleWorker ==
    TaskWaiters # {} =>
        Len(tasks) <= Cardinality({w \in Workers : pc[w] \in {"w_lock", "w_check"}})

\* No two threads are inside pthread_join for the workers of the pool at once.
Joining == {c \in Clients : pc[c] \in {"join_threads", "reap_threads"}}
SingleJoiner == Cardinality(Joining) <= 1

\* A thread asleep on finished_notify is waiting for something that will still
\* happen: some task has yet to finish and to signal it.
NoStrandedWaiter ==
    \A c \in FinishWaiters :
        num_running > 0 \/ (pc[c] = "wait_sleep" /\ tasks # <<>>)

\* When ucb_threadpool_free releases the mutex, the condition variables and the
\* queue, no thread holds, waits for or is about to take any of them, and no
\* accepted task is left behind.
ReleasedAlone ==
    \A c \in Clients : pc[c] \in {"release", "freed"} =>
        /\ lock = Free
        /\ \A w \in Workers : pc[w] = "none"
        /\ \A d \in Clients \ {c} : pc[d] = "out"
        /\ \A t \in Tasks : fate[t] \in {"new", "done", "discarded"}

-----------------------------------------------------------------------------
(* Action properties.                                                      *)

Settled(t) == fate[t] \in {"new", "done", "discarded"}

\* ucb_threadpool_wait_all, unless its start fails, returns at a moment at which
\* every task ever accepted has been finished or discarded.
WaitAllSettles ==
    [][\A c \in Clients :
         pc[c] = "wait_loop" /\ pc'[c] = "out" => \A t \in Tasks : Settled(t)']_vars

\* ucb_threadpool_join returns at a moment at which no worker is left, no
\* accepted task is pending, and the pool can be started again.
JoinSettles ==
    [][\A c \in Clients :
         pc[c] \in {"join_cs", "join_final"} /\ pc'[c] = "out" =>
             /\ ~running' /\ ~stop' /\ num_running' = 0
             /\ \A w \in Workers : pc'[w] = "none"
             /\ \A t \in Tasks : Settled(t)']_vars

\* From the failure of a start until it is reported, no task is executed and
\* none leaves the queue, although the workers that did start see the queue.
Reaping == \E c \in Clients : pc[c] \in {"reap_threads", "reap_lock", "reap_final"}
FailedStartKeepsTasks ==
    [][Reaping => \A t \in Tasks : fate[t] = "queued" => fate'[t] = "queued"]_vars

\* A worker never takes a task while one of a higher priority is queued.
TakesHighestPriority ==
    [][\A t, u \in Tasks :
         fate[t] = "queued" /\ fate'[t] = "running" /\ fate[u] = "queued"
             => Prio[t] >= Prio[u]]_vars

\* ucb_threadpool_start returns true only "if the pool is running".
StartTrueMeansRunning ==
    [][\A c \in Clients :
         pc[c] = "start_cs" /\ pc'[c] = "out" => running' /\ ~stop']_vars

-----------------------------------------------------------------------------
(* The pool implements TaskPool.                                           *)

TP == INSTANCE TaskPool WITH
        phase     <- IF ~running THEN "down" ELSE IF ~stop THEN "up"
                     ELSE IF Reaping THEN "failing" ELSE "closing",
        queue     <- tasks,
        executing <- {t \in Tasks : fate[t] = "running"},
        finished  <- {t \in Tasks : fate[t] = "done"},
        discarded <- {t \in Tasks : fate[t] = "discarded"}

\* Every behaviour of the pool is one that TaskPool allows.
ImplementsTaskPool == TP!Spec

-----------------------------------------------------------------------------
(* Liveness.                                                               *)

\* A task that is queued in a running pool is executed, or discarded by a join.
QueuedTaskSettles ==
    \A t \in Tasks :
        (fate[t] = "queued" /\ running /\ ~stop) ~> (fate[t] \in {"done", "discarded"})

WaitLocs == {"wait_lock", "wait_cs", "wait_loop", "wait_sleep", "wait_relock"}
JoinLocs == {"join_lock", "join_cs", "join_loop", "join_sleep", "join_relock",
             "join_threads", "join_lock2", "join_final"}

\* ucb_threadpool_wait_all returns.
WaitAllReturns == \A c \in Clients : (pc[c] \in WaitLocs) ~> (pc[c] = "out")

\* ucb_threadpool_join returns (or ucb_threadpool_free goes on to release).
JoinReturns == \A c \in Clients : (pc[c] \in JoinLocs) ~> (pc[c] \notin JoinLocs)

\* Nobody is left behind. While a worker sleeps there are at least as many workers on
\* the way as tasks queued, a caller asleep on finished_notify waits for a task that has
\* yet to finish, and ucb_threadpool_free releases a pool that no thread is in any more.
NobodyStranded == NoIdleWorker /\ NoStrandedWaiter /\ ReleasedAlone
=============================================================================
