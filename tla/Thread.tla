------------------------------- MODULE Thread -------------------------------
(***************************************************************************)
(* One thread object of src/ucb/threads/thread.c on POSIX, joinable or     *)
(* detached: the thread that owns the object, which may start it, poll it, *)
(* join it, start it again and free it, and the pthreads that have been    *)
(* created for it, numbered by their start.                                *)
(*                                                                         *)
(* The fields are plain memory that both sides use without a lock; every   *)
(* read or write that the other side could notice is a step of its own.    *)
(***************************************************************************)
EXTENDS Integers, FiniteSets

CONSTANTS
    MaxStarts,      \* bounds the pthreads created
    None

Runs == 1..MaxStarts

ASSUME MaxStartsAssumption == MaxStarts \in Nat \ {0} /\ None \notin Runs

VARIABLES
    detached,       \* th->flags
    allocated,      \* the object has not been freed
    running,        \* th->running
    finished,       \* th->status[0]
    status,         \* th->status[1]: the run whose task returned it
    handle,         \* th->handle: the pthread to join, None for 0
    worker,         \* where each pthread is
    joined,         \* the pthreads that have been joined
    starts,         \* pthread_create has been called so often
    overwritten,    \* history: the pthreads that were not joined before the next start
    owner,          \* what the owner is doing
    dangling        \* a freed object has been read or written, or freed again

fields == <<detached, running, finished, status, handle>>
vars == <<fields, allocated, worker, joined, starts, overwritten,
          owner, dangling>>

Init ==
    /\ detached \in BOOLEAN
    /\ allocated = TRUE /\ running = FALSE /\ finished = FALSE /\ status = None
    /\ handle = None
    /\ worker = [r \in Runs |-> "none"] /\ joined = {}
    /\ starts = 0 /\ overwritten = {}
    /\ owner = "idle" /\ dangling = FALSE

\* A step of either side uses the object.
Uses == dangling' = (dangling \/ ~allocated)

\* The owner of a detached thread no longer has the object once it has started.
MayUse == allocated /\ (detached => starts = 0)

-----------------------------------------------------------------------------
(* posix_thread_wrapper.  A definition named ...Mutant above another one   *)
(* is a faulty variant of it, used to show that a property depends on the  *)
(* definition.                                                             *)

\* The order of the last writes of the wrapper.
OrderMutant == [run |-> "clear", clear |-> "report", report |-> "flags"]
Order       == [run |-> "report", report |-> "clear", clear |-> "flags"]

Moves(r, from) == worker[r] = from /\ worker' = [worker EXCEPT ![r] = Order[from]]

\* The task runs and returns.
RunTask(r) ==
    /\ Moves(r, "run") /\ Uses
    /\ UNCHANGED <<fields, allocated, joined, starts, overwritten, owner>>

ReportStatus(r) ==
    /\ Moves(r, "report") /\ Uses
    /\ finished' = TRUE /\ status' = r
    /\ UNCHANGED <<detached, running, handle, allocated, joined, starts, overwritten, owner>>

ClearRunning(r) ==
    /\ Moves(r, "clear") /\ Uses
    /\ running' = FALSE
    /\ UNCHANGED <<detached, finished, status, handle, allocated, joined, starts,
                   overwritten, owner>>

\* th->flags is read, and a detached thread frees the object.
ReadFlags(r) ==
    /\ worker[r] = "flags" /\ worker' = [worker EXCEPT ![r] = "ended"] /\ Uses
    /\ allocated' = (allocated /\ ~detached)
    /\ UNCHANGED <<fields, joined, starts, overwritten, owner>>

-----------------------------------------------------------------------------
(* The owner.                                                              *)

\* ucb_thread_start, up to pthread_create.
Start ==
    /\ owner = "idle" /\ MayUse /\ starts < MaxStarts
    /\ ~running
    /\ running' = TRUE /\ finished' = FALSE
    /\ owner' = "create"
    /\ UNCHANGED <<detached, status, handle, allocated, worker, joined, starts,
                   overwritten, dangling>>

SavesHandleMutant1 == TRUE
SavesHandleMutant2 == FALSE
SavesHandle       == ~detached

Create ==
    /\ owner = "create"
    /\ starts' = starts + 1 /\ worker' = [worker EXCEPT ![starts + 1] = "run"]
    /\ owner' = IF SavesHandle THEN "handle" ELSE "idle"
    /\ UNCHANGED <<fields, allocated, joined, overwritten, dangling>>

SaveHandle ==
    /\ owner = "handle" /\ owner' = "idle" /\ Uses
    /\ handle' = starts /\ overwritten' = overwritten \cup ({handle} \ {None})
    /\ UNCHANGED <<detached, running, finished, status, allocated, worker, joined, starts>>

\* A pthread function fails.
CreateFails ==
    /\ owner = "create" /\ owner' = "idle" /\ Uses
    /\ running' = FALSE
    /\ UNCHANGED <<detached, finished, status, handle, allocated, worker, joined, starts,
                   overwritten>>

Joinable(r) == worker[r] = "ended"

Forget == handle' = None

\* ucb_thread_join, called by the owner or by ucb_thread_free.
JoinThread ==
    /\ IF handle = None THEN UNCHANGED joined
       ELSE Joinable(handle) /\ joined' = joined \cup {handle}
    /\ Forget /\ running' = FALSE

Join ==
    /\ owner = "idle" /\ MayUse /\ ~detached
    /\ JoinThread
    /\ UNCHANGED <<detached, finished, status, allocated, worker, starts, overwritten,
                   owner, dangling>>

\* ucb_thread_free; not called on a detached thread that has been started.
Free ==
    /\ owner = "idle" /\ MayUse
    /\ IF detached THEN ~running /\ UNCHANGED <<handle, running, joined>> ELSE JoinThread
    /\ allocated' = FALSE /\ owner' = "gone"
    /\ UNCHANGED <<detached, finished, status, worker, starts, overwritten, dangling>>

Worker(r) == RunTask(r) \/ ReportStatus(r) \/ ClearRunning(r) \/ ReadFlags(r)
Next ==
    \/ \E r \in Runs : Worker(r)
    \/ Start \/ Create \/ SaveHandle \/ CreateFails \/ Join \/ Free

Spec == Init /\ [][Next]_vars

-----------------------------------------------------------------------------
(* Properties.                                                             *)

Active(r) == worker[r] \notin {"none", "ended"}

\* Every variable keeps its type, and handle is a pthread that has been created
\* and can still be joined.
TypeOK ==
    /\ running \in BOOLEAN /\ finished \in BOOLEAN /\ status \in Runs \cup {None}
    /\ worker \in [Runs -> {"none", "run", "report", "clear", "flags", "ended"}]
    /\ handle \in {None} \cup {r \in Runs : r <= starts /\ r \notin joined}
    /\ owner \in {"idle", "create", "handle", "gone"}

\* Nobody uses the object after it has been freed: not the starter of a detached
\* thread, not a pthread that the free should have waited for.  (A pthread whose
\* handle was overwritten by another start is one that free cannot wait for.)
NoUseAfterFree == dangling => overwritten # {}

\* "The return status code of the last task finished": once the owner has started
\* a task, a status that is set is not that of a task started before.
StatusIsOfLastStart == finished /\ owner = "idle" => status = starts

\* After a join or a free the task has finished, and so has the pthread.
JoinedIsOver ==
    ~detached /\ owner \in {"idle", "gone"} /\ handle = None => \A r \in Runs : ~Active(r)

\* A pthread of a joinable object is joined or can still be, unless the owner has
\* started the object again before joining it; and join is never given a pthread
\* that has been joined.
NoneLeftBehind ==
    ~detached /\ owner # "handle" =>
        /\ (1..starts) \ (joined \cup {handle}) = overwritten
        /\ handle \notin joined

\* "If the thread is joinable it is joined first" when it is freed.
FreeJoinsFirst == ~dangling

\* "Joinable thread must be joined and/or free'd": this is enough to end them all.
JoinOrFreeEnds ==
    ~detached /\ owner = "gone" => \A r \in 1..starts : r \in joined
=============================================================================
