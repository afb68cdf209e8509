---------------------------- MODULE MCThreadPool ----------------------------
(***************************************************************************)
(* Instances of ThreadPool for TLC.  `main` owns the pool; `aux` is the    *)
(* other thread that uses it.                                              *)
(***************************************************************************)
EXTENDS ThreadPool, TLC

CONSTANTS main, aux, t1, t2, t3

\* The owner makes every call, the other thread only adds tasks.
OwnerAndAdder == main :> AllOps @@ aux :> {"add_task"}

\* For liveness: the owner's calls that block, and a thread that adds tasks.
OwnerBlocks == main :> {"start", "wait_all", "join"} @@ aux :> {"add_task"}

\* Both threads call wait_all.
TwoWaiters == main :> {"start", "wait_all"} @@ aux :> {"add_task", "wait_all"}

\* One thread is in wait_all while the owner joins the pool.
WaiterAndJoiner == main :> {"start", "join"} @@ aux :> {"add_task", "wait_all"}

\* Both threads start the pool.
TwoStarters == main :> {"start"} @@ aux :> {"start"}

\* Both threads add tasks, start the pool and wait.
SharedStart == main :> {"add_task", "start", "wait_all"}
            @@ aux :> {"add_task", "start", "wait_all"}

\* One thread starts the pool, the other adds a task and waits for it.
StarterAndWaiter == main :> {"start"} @@ aux :> {"add_task", "wait_all"}

\* t2 comes first; t1 and t3 have the same priority.
Prios == t1 :> 0 @@ t2 :> 1 @@ t3 :> 0
=============================================================================
