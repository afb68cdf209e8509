---------------------------- MODULE PlatformProofs ----------------------------
(***************************************************************************)
(* Proofs about what MCPlatform composes.  The components have no variable *)
(* in common, so each has an inductive invariant of its own, and a step of *)
(* another component leaves it alone.                                      *)
(***************************************************************************)
EXTENDS MCPlatform, TLAPS, FiniteSetTheorems, SequenceTheorems, WellFoundedInduction

-----------------------------------------------------------------------------
(* The thread object, ucb_thread_t.                                        *)

Stages == {"none", "run", "report", "clear", "flags", "ended"}

ThreadTypes ==
    /\ detached \in BOOLEAN /\ allocated \in BOOLEAN /\ dangling \in BOOLEAN
    /\ running \in BOOLEAN /\ finished \in BOOLEAN /\ status \in Runs \cup {None}
    /\ handle \in {None} \cup Runs /\ worker \in [Runs -> Stages]
    /\ owner \in {"idle", "create", "handle", "gone"}
    /\ starts \in 0..MaxStarts /\ joined \subseteq Runs /\ overwritten \subseteq Runs

\* The pthreads that have been created, and those that have been joined.
RunsCreated ==
    /\ \A r \in Runs : worker[r] # "none" <=> r <= starts
    /\ \A r \in joined : worker[r] = "ended"
    /\ \A r \in Runs : r = handle => r <= starts

\* What the owner knows inside start.
OwnerStage ==
    /\ owner = "create" =>
          allocated /\ running /\ ~finished /\ starts < MaxStarts /\ (detached => starts = 0)
    /\ owner = "handle" => allocated /\ ~detached /\ starts \in Runs /\ handle # starts
    /\ owner = "gone" => detached \/ ~allocated
    /\ ~allocated /\ ~detached => owner = "gone"
    /\ detached => starts <= 1 /\ handle = None /\ joined = {} /\ overwritten = {}

\* A pthread that has not cleared th->running is the last one started, and its handle
\* is kept.
LastRuns ==
    \A r \in Runs : worker[r] \in {"run", "report", "clear"} =>
        /\ running /\ r = starts /\ owner # "create"
        /\ ~detached /\ owner # "handle" => handle = r

StatusKept == finished => status = starts

\* Every pthread of a joinable object is joined, can be joined, or was overwritten; the
\* newest one is about to be kept while the owner is at "handle".
HandlesKept ==
    ~detached =>
        /\ handle \notin joined
        /\ (1..starts) \ (joined \cup {handle})
             = overwritten \cup (IF owner = "handle" THEN {starts} ELSE {})
        /\ owner = "handle" => starts \notin overwritten

\* Only an overwritten pthread may find its object freed.
UsersWait ==
    /\ overwritten = {} /\ ~allocated => \A r \in Runs : ~Active(r)
    /\ NoUseAfterFree

ThreadInv ==
    /\ ThreadTypes /\ RunsCreated /\ OwnerStage /\ LastRuns /\ StatusKept /\ HandlesKept /\ UsersWait

\* A new object has no pthread.
LEMMA ThreadInvInit == Init => ThreadInv
  <1> SUFFICES ASSUME Init PROVE ThreadInv
    OBVIOUS
  <1> USE MaxStartsAssumption DEF Init, Runs
  <1>1. ThreadTypes
    <2>1. starts \in 0..MaxStarts
      OBVIOUS
    <2> QED
      BY <2>1 DEF ThreadTypes, Stages
  <1>2. RunsCreated /\ OwnerStage /\ LastRuns /\ StatusKept
    BY DEF RunsCreated, OwnerStage, LastRuns, StatusKept
  <1>3. HandlesKept
    <2>1. 1..starts = {}
      OBVIOUS
    <2> QED
      BY <2>1 DEF HandlesKept
  <1>4. UsersWait
    BY DEF UsersWait, NoUseAfterFree
  <1> QED
    BY <1>1, <1>2, <1>3, <1>4 DEF ThreadInv

\* A task runs in an object that is still there.
LEMMA RunTaskKeeps ==
    ASSUME ThreadInv, NEW r \in Runs, RunTask(r)
    PROVE  ThreadInv'
  <1> USE MaxStartsAssumption DEF RunTask, Moves, Order, Uses, fields, Runs,
                                  Active
  <1>0. ThreadTypes /\ RunsCreated /\ OwnerStage /\ LastRuns /\ StatusKept /\ HandlesKept /\ UsersWait
    BY DEF ThreadInv
  <1>1. ThreadTypes'
    BY <1>0 DEF ThreadTypes, Stages, OwnerStage
  <1>2. RunsCreated'
    BY <1>0 DEF ThreadTypes, RunsCreated, OwnerStage, Stages
  <1>3. OwnerStage'
    BY <1>0 DEF ThreadTypes, OwnerStage, LastRuns, RunsCreated, Stages
  <1>4. LastRuns'
    BY <1>0 DEF ThreadTypes, RunsCreated, OwnerStage, LastRuns, Stages, HandlesKept
  <1>5. StatusKept'
    BY <1>0 DEF ThreadTypes, OwnerStage, LastRuns, StatusKept
  <1>6. HandlesKept'
    BY <1>0 DEF ThreadTypes, RunsCreated, OwnerStage, HandlesKept
  <1>7. UsersWait'
    BY <1>0 DEF ThreadTypes, RunsCreated, OwnerStage, HandlesKept, UsersWait,
           NoUseAfterFree, Stages
  <1> QED
    BY <1>1, <1>2, <1>3, <1>4, <1>5, <1>6, <1>7 DEF ThreadInv

\* The pthread that reports a status is the last one started.
LEMMA ReportStatusKeeps ==
    ASSUME ThreadInv, NEW r \in Runs, ReportStatus(r)
    PROVE  ThreadInv'
  <1> USE MaxStartsAssumption DEF ReportStatus, Moves, Order, Uses, fields,
                                  Runs, Active
  <1>0. ThreadTypes /\ RunsCreated /\ OwnerStage /\ LastRuns /\ StatusKept /\ HandlesKept /\ UsersWait
    BY DEF ThreadInv
  <1>1. ThreadTypes'
    BY <1>0 DEF ThreadTypes, Stages, OwnerStage
  <1>2. RunsCreated'
    BY <1>0 DEF ThreadTypes, RunsCreated, OwnerStage, Stages
  <1>3. OwnerStage'
    BY <1>0 DEF ThreadTypes, OwnerStage, LastRuns, RunsCreated, Stages
  <1>4. LastRuns'
    BY <1>0 DEF ThreadTypes, RunsCreated, OwnerStage, LastRuns, Stages, HandlesKept
  <1>5. StatusKept'
    BY <1>0 DEF ThreadTypes, OwnerStage, LastRuns, StatusKept
  <1>6. HandlesKept'
    BY <1>0 DEF ThreadTypes, RunsCreated, OwnerStage, HandlesKept
  <1>7. UsersWait'
    BY <1>0 DEF ThreadTypes, RunsCreated, OwnerStage, HandlesKept, UsersWait,
           NoUseAfterFree, Stages
  <1> QED
    BY <1>1, <1>2, <1>3, <1>4, <1>5, <1>6, <1>7 DEF ThreadInv

\* th->running is cleared after the status is set.
LEMMA ClearRunningKeeps ==
    ASSUME ThreadInv, NEW r \in Runs, ClearRunning(r)
    PROVE  ThreadInv'
  <1> USE MaxStartsAssumption DEF ClearRunning, Moves, Order, Uses, fields,
                                  Runs, Active
  <1>0. ThreadTypes /\ RunsCreated /\ OwnerStage /\ LastRuns /\ StatusKept /\ HandlesKept /\ UsersWait
    BY DEF ThreadInv
  <1>1. ThreadTypes'
    BY <1>0 DEF ThreadTypes, Stages, OwnerStage
  <1>2. RunsCreated'
    BY <1>0 DEF ThreadTypes, RunsCreated, OwnerStage, Stages
  <1>3. OwnerStage'
    BY <1>0 DEF ThreadTypes, OwnerStage, LastRuns, RunsCreated, Stages
  <1>4. LastRuns'
    BY <1>0 DEF ThreadTypes, RunsCreated, OwnerStage, LastRuns, Stages, HandlesKept
  <1>5. StatusKept'
    BY <1>0 DEF ThreadTypes, OwnerStage, LastRuns, StatusKept
  <1>6. HandlesKept'
    BY <1>0 DEF ThreadTypes, RunsCreated, OwnerStage, HandlesKept
  <1>7. UsersWait'
    BY <1>0 DEF ThreadTypes, RunsCreated, OwnerStage, HandlesKept, UsersWait,
           NoUseAfterFree, Stages
  <1> QED
    BY <1>1, <1>2, <1>3, <1>4, <1>5, <1>6, <1>7 DEF ThreadInv

\* A detached pthread frees its own object, as its last step.
LEMMA ReadFlagsKeeps ==
    ASSUME ThreadInv, NEW r \in Runs, ReadFlags(r)
    PROVE  ThreadInv'
  <1> USE MaxStartsAssumption DEF ReadFlags, Uses, fields, Runs, Active
  <1>0. ThreadTypes /\ RunsCreated /\ OwnerStage /\ LastRuns /\ StatusKept /\ HandlesKept /\ UsersWait
    BY DEF ThreadInv
  <1>1. ThreadTypes'
    BY <1>0 DEF ThreadTypes, Stages, OwnerStage
  <1>2. RunsCreated'
    BY <1>0 DEF ThreadTypes, RunsCreated, OwnerStage, Stages
  <1>3. OwnerStage'
    BY <1>0 DEF ThreadTypes, OwnerStage, LastRuns, RunsCreated, Stages
  <1>4. LastRuns'
    BY <1>0 DEF ThreadTypes, RunsCreated, OwnerStage, LastRuns, Stages, HandlesKept
  <1>5. StatusKept'
    BY <1>0 DEF ThreadTypes, OwnerStage, LastRuns, StatusKept
  <1>6. HandlesKept'
    BY <1>0 DEF ThreadTypes, RunsCreated, OwnerStage, HandlesKept
  <1>7. UsersWait'
    BY <1>0 DEF ThreadTypes, RunsCreated, OwnerStage, HandlesKept, UsersWait,
           NoUseAfterFree, Stages
  <1> QED
    BY <1>1, <1>2, <1>3, <1>4, <1>5, <1>6, <1>7 DEF ThreadInv

\* No pthread is before its clearing of th->running when the next one is started.
LEMMA StartKeeps ==
    ASSUME ThreadInv, Start
    PROVE  ThreadInv'
  <1> USE MaxStartsAssumption DEF Start, MayUse, fields, Runs, Active
  <1>0. ThreadTypes /\ RunsCreated /\ OwnerStage /\ LastRuns /\ StatusKept /\ HandlesKept /\ UsersWait
    BY DEF ThreadInv
  <1>1. ThreadTypes'
    BY <1>0 DEF ThreadTypes, Stages, OwnerStage
  <1>2. RunsCreated'
    BY <1>0 DEF ThreadTypes, RunsCreated, OwnerStage, Stages
  <1>3. OwnerStage'
    BY <1>0 DEF ThreadTypes, OwnerStage, LastRuns, RunsCreated, Stages
  <1>4. LastRuns'
    BY <1>0 DEF ThreadTypes, RunsCreated, OwnerStage, LastRuns, Stages, HandlesKept
  <1>5. StatusKept'
    BY <1>0 DEF ThreadTypes, OwnerStage, LastRuns, StatusKept
  <1>6. HandlesKept'
    BY <1>0 DEF ThreadTypes, RunsCreated, OwnerStage, HandlesKept
  <1>7. UsersWait'
    BY <1>0 DEF ThreadTypes, RunsCreated, OwnerStage, HandlesKept, UsersWait,
           NoUseAfterFree, Stages
  <1> QED
    BY <1>1, <1>2, <1>3, <1>4, <1>5, <1>6, <1>7 DEF ThreadInv

\* The new pthread is the last one started.
LEMMA CreateKeeps ==
    ASSUME ThreadInv, Create
    PROVE  ThreadInv'
  <1> USE MaxStartsAssumption DEF Create, SavesHandle, fields, Runs, Active
  <1>0. ThreadTypes /\ RunsCreated /\ OwnerStage /\ LastRuns /\ StatusKept /\ HandlesKept /\ UsersWait
    BY DEF ThreadInv
  <1>1. ThreadTypes'
    BY <1>0 DEF ThreadTypes, Stages, OwnerStage
  <1>2. RunsCreated'
    BY <1>0 DEF ThreadTypes, RunsCreated, OwnerStage, Stages
  <1>3. OwnerStage'
    BY <1>0 DEF ThreadTypes, OwnerStage, LastRuns, RunsCreated, Stages
  <1>4. LastRuns'
    BY <1>0 DEF ThreadTypes, RunsCreated, OwnerStage, LastRuns, Stages, HandlesKept
  <1>5. StatusKept'
    BY <1>0 DEF ThreadTypes, OwnerStage, LastRuns, StatusKept
  <1>6. HandlesKept'
    BY <1>0 DEF ThreadTypes, RunsCreated, OwnerStage, HandlesKept
  <1>7. UsersWait'
    BY <1>0 DEF ThreadTypes, RunsCreated, OwnerStage, HandlesKept, UsersWait,
           NoUseAfterFree, Stages
  <1> QED
    BY <1>1, <1>2, <1>3, <1>4, <1>5, <1>6, <1>7 DEF ThreadInv

\* The handle of the new pthread replaces one that was not joined.
LEMMA SaveHandleKeeps ==
    ASSUME ThreadInv, SaveHandle
    PROVE  ThreadInv'
  <1> USE MaxStartsAssumption DEF SaveHandle, Uses, fields, Runs, Active
  <1>0. ThreadTypes /\ RunsCreated /\ OwnerStage /\ LastRuns /\ StatusKept /\ HandlesKept /\ UsersWait
    BY DEF ThreadInv
  <1>1. ThreadTypes'
    BY <1>0 DEF ThreadTypes, Stages, OwnerStage
  <1>2. RunsCreated'
    BY <1>0 DEF ThreadTypes, RunsCreated, OwnerStage, Stages
  <1>3. OwnerStage'
    BY <1>0 DEF ThreadTypes, OwnerStage, LastRuns, RunsCreated, Stages
  <1>4. LastRuns'
    BY <1>0 DEF ThreadTypes, RunsCreated, OwnerStage, LastRuns, Stages, HandlesKept
  <1>5. StatusKept'
    BY <1>0 DEF ThreadTypes, OwnerStage, LastRuns, StatusKept
  <1>6. HandlesKept'
    <2>1. starts \in Runs /\ ~detached /\ handle # starts /\ starts \notin joined /\ starts # None
      BY <1>0 DEF ThreadTypes, OwnerStage, HandlesKept
    <2>2. (1..starts) \ (joined \cup {handle}) = overwritten \cup {starts}
      BY <1>0, <2>1 DEF HandlesKept
    <2>3. handle # None => handle \in 1..starts /\ handle \notin joined
      BY <1>0, <2>1 DEF ThreadTypes, RunsCreated, HandlesKept
    <2>4. starts \notin overwritten
      BY <1>0, <2>1 DEF HandlesKept
    <2> QED
      BY <2>1, <2>2, <2>3, <2>4 DEF HandlesKept
  <1>7. UsersWait'
    BY <1>0 DEF ThreadTypes, RunsCreated, OwnerStage, HandlesKept, UsersWait,
           NoUseAfterFree, Stages
  <1> QED
    BY <1>1, <1>2, <1>3, <1>4, <1>5, <1>6, <1>7 DEF ThreadInv

\* A start that fails leaves no pthread.
LEMMA CreateFailsKeeps ==
    ASSUME ThreadInv, CreateFails
    PROVE  ThreadInv'
  <1> USE MaxStartsAssumption DEF CreateFails, Uses, fields, Runs, Active
  <1>0. ThreadTypes /\ RunsCreated /\ OwnerStage /\ LastRuns /\ StatusKept /\ HandlesKept /\ UsersWait
    BY DEF ThreadInv
  <1>1. ThreadTypes'
    BY <1>0 DEF ThreadTypes, Stages, OwnerStage
  <1>2. RunsCreated'
    BY <1>0 DEF ThreadTypes, RunsCreated, OwnerStage, Stages
  <1>3. OwnerStage'
    BY <1>0 DEF ThreadTypes, OwnerStage, LastRuns, RunsCreated, Stages
  <1>4. LastRuns'
    BY <1>0 DEF ThreadTypes, RunsCreated, OwnerStage, LastRuns, Stages, HandlesKept
  <1>5. StatusKept'
    BY <1>0 DEF ThreadTypes, OwnerStage, LastRuns, StatusKept
  <1>6. HandlesKept'
    BY <1>0 DEF ThreadTypes, RunsCreated, OwnerStage, HandlesKept
  <1>7. UsersWait'
    BY <1>0 DEF ThreadTypes, RunsCreated, OwnerStage, HandlesKept, UsersWait,
           NoUseAfterFree, Stages
  <1> QED
    BY <1>1, <1>2, <1>3, <1>4, <1>5, <1>6, <1>7 DEF ThreadInv

\* The pthread of the handle is over.
LEMMA JoinKeeps ==
    ASSUME ThreadInv, Join
    PROVE  ThreadInv'
  <1> USE MaxStartsAssumption DEF Join, MayUse, JoinThread, Joinable,
                                  Forget, fields, Runs, Active
  <1>0. ThreadTypes /\ RunsCreated /\ OwnerStage /\ LastRuns /\ StatusKept /\ HandlesKept /\ UsersWait
    BY DEF ThreadInv
  <1>1. ThreadTypes'
    BY <1>0 DEF ThreadTypes, Stages, OwnerStage
  <1>2. RunsCreated'
    BY <1>0 DEF ThreadTypes, RunsCreated, OwnerStage, Stages
  <1>3. OwnerStage'
    BY <1>0 DEF ThreadTypes, OwnerStage, LastRuns, RunsCreated, Stages
  <1>4. LastRuns'
    BY <1>0 DEF ThreadTypes, RunsCreated, OwnerStage, LastRuns, Stages, HandlesKept
  <1>5. StatusKept'
    BY <1>0 DEF ThreadTypes, OwnerStage, LastRuns, StatusKept
  <1>6. HandlesKept'
    BY <1>0 DEF ThreadTypes, RunsCreated, OwnerStage, HandlesKept
  <1>7. UsersWait'
    BY <1>0 DEF ThreadTypes, RunsCreated, OwnerStage, HandlesKept, UsersWait,
           NoUseAfterFree, Stages
  <1> QED
    BY <1>1, <1>2, <1>3, <1>4, <1>5, <1>6, <1>7 DEF ThreadInv

\* The pthread of the handle is over before its object is freed.
LEMMA FreeKeeps ==
    ASSUME ThreadInv, Free
    PROVE  ThreadInv'
  <1> USE MaxStartsAssumption DEF Free, MayUse, JoinThread, Joinable,
                                  Forget, fields, Runs, Active
  <1>0. ThreadTypes /\ RunsCreated /\ OwnerStage /\ LastRuns /\ StatusKept /\ HandlesKept /\ UsersWait
    BY DEF ThreadInv
  <1>1. ThreadTypes'
    BY <1>0 DEF ThreadTypes, Stages, OwnerStage
  <1>2. RunsCreated'
    BY <1>0 DEF ThreadTypes, RunsCreated, OwnerStage, Stages
  <1>3. OwnerStage'
    BY <1>0 DEF ThreadTypes, OwnerStage, LastRuns, RunsCreated, Stages
  <1>4. LastRuns'
    BY <1>0 DEF ThreadTypes, RunsCreated, OwnerStage, LastRuns, Stages, HandlesKept
  <1>5. StatusKept'
    BY <1>0 DEF ThreadTypes, OwnerStage, LastRuns, StatusKept
  <1>6. HandlesKept'
    BY <1>0, ZenonT(40), SMTT(40) DEF ThreadTypes, RunsCreated, OwnerStage, HandlesKept
  <1>7. UsersWait'
    BY <1>0 DEF ThreadTypes, RunsCreated, OwnerStage, HandlesKept, UsersWait,
           NoUseAfterFree, Stages
  <1> QED
    BY <1>1, <1>2, <1>3, <1>4, <1>5, <1>6, <1>7 DEF ThreadInv

LEMMA ThreadInvStep == ThreadInv /\ [Next]_vars => ThreadInv'
  <1> SUFFICES ASSUME ThreadInv, [Next]_vars PROVE ThreadInv'
    OBVIOUS
  <1>1. CASE UNCHANGED vars
    BY <1>1 DEF vars, fields, ThreadInv, ThreadTypes, RunsCreated, OwnerStage, LastRuns, StatusKept,
                HandlesKept, UsersWait, NoUseAfterFree, Active
  <1>2. ASSUME NEW r \in Runs, Worker(r)
        PROVE  ThreadInv'
    BY <1>2, RunTaskKeeps, ReportStatusKeeps, ClearRunningKeeps, ReadFlagsKeeps DEF Worker
  <1>3. CASE Start \/ Create \/ SaveHandle \/ CreateFails \/ Join \/ Free
    BY <1>3, StartKeeps, CreateKeeps, SaveHandleKeeps, CreateFailsKeeps, JoinKeeps, FreeKeeps
  <1> QED
    BY <1>1, <1>2, <1>3 DEF Next

\* A step of another component is none of the thread object's.
LEMMA ThreadFrame == (MCInit => Init) /\ ([MCNext]_<<part, vars, others>> => [Next]_vars)
  BY DEF MCInit, MCNext

\* The invariant holds in every reachable state.
THEOREM ThreadInvariance == MCSpec => []ThreadInv
  BY ThreadInvInit, ThreadInvStep, ThreadFrame, PTL DEF MCSpec

\* ucb_thread_start and posix_thread_wrapper use the fields without a lock, and still the
\* status that is set is never that of an earlier task, also with restarts before a join.
THEOREM StatusCorrect == MCSpec => []StatusIsOfLastStart
  <1>1. ThreadInv => StatusIsOfLastStart
    BY DEF ThreadInv, StatusKept, StatusIsOfLastStart
  <1> QED
    BY <1>1, ThreadInvariance, PTL

\* ucb_thread_free and a detached pthread free the object when nobody uses it any more,
\* and every pthread that start does not overwrite is joined once.
THEOREM ReleaseCorrect == MCSpec => []ThreadsReleased
  <1>1. ThreadInv => ThreadsReleased
    BY DEF ThreadInv, UsersWait, HandlesKept, NoneLeftBehind, ThreadsReleased
  <1> QED
    BY <1>1, ThreadInvariance, PTL

-----------------------------------------------------------------------------
(* The mutex and the condition variable on Windows: v1, v2 ... are its     *)
(* variables, in the order in which WinMutex declares them.                *)

\* A new mutex is nobody's.
LEMMA MutexInit == Wm!Init => Wm!MutexInv
  <1> SUFFICES ASSUME Wm!Init PROVE Wm!MutexInv
    OBVIOUS
  <1> USE MaxDepthAssumption, NamesAssumption DEF Wm!Init
  <1>1. Wm!TypeOK
    BY DEF Wm!TypeOK
  <1>2. Wm!SectionHeld /\ Wm!OwnerHolds
    BY DEF Wm!SectionHeld, Wm!OwnerHolds
  <1> QED
    BY <1>1, <1>2 DEF Wm!MutexInv

\* ucb_mutex_lock and try_lock compare the owner without the section: it finds itself there
\* only if it has the mutex locked.
LEMMA LockKeeps ==
    ASSUME Wm!MutexInv, NEW t \in Threads, Wm!Lock(t) \/ Wm!TryAgain(t)
    PROVE  Wm!MutexInv'
  <1> USE MaxDepthAssumption, NamesAssumption DEF Wm!Lock, Wm!TryAgain, Wm!Again, Wm!Goto, Wm!Abort, Wm!mutex_vars
  <1>0. Wm!TypeOK /\ Wm!SectionHeld /\ Wm!OwnerHolds
    BY DEF Wm!MutexInv
  <1>1. Wm!TypeOK'
    BY <1>0 DEF Wm!TypeOK, Wm!OwnerHolds
  <1>2. Wm!SectionHeld'
    BY <1>0 DEF Wm!TypeOK, Wm!SectionHeld, Wm!OwnerHolds
  <1>3. Wm!OwnerHolds'
    BY <1>0 DEF Wm!TypeOK, Wm!OwnerHolds
  <1> QED
    BY <1>1, <1>2, <1>3 DEF Wm!MutexInv

\* EnterCriticalSection and TryEnterCriticalSection.
LEMMA EnterKeeps ==
    ASSUME Wm!MutexInv, NEW t \in Threads, Wm!EnterSection(t) \/ Wm!TryEnter(t)
    PROVE  Wm!MutexInv'
  <1> USE MaxDepthAssumption, NamesAssumption DEF Wm!EnterSection, Wm!TryEnter, Wm!Enter, Wm!Free, Wm!Goto
  <1>0. Wm!TypeOK /\ Wm!SectionHeld /\ Wm!OwnerHolds
    BY DEF Wm!MutexInv
  <1>1. v4.holder = None /\ v4.n = 0 /\ v6[t] = 0
    BY <1>0 DEF Wm!TypeOK, Wm!SectionHeld, Wm!OwnerHolds
  <1>2. Wm!TypeOK'
    BY <1>0, <1>1 DEF Wm!TypeOK
  <1>3. Wm!SectionHeld'
    BY <1>0, <1>1 DEF Wm!TypeOK, Wm!SectionHeld
  <1>4. Wm!OwnerHolds'
    BY <1>0, <1>1 DEF Wm!TypeOK, Wm!OwnerHolds
  <1> QED
    BY <1>2, <1>3, <1>4 DEF Wm!MutexInv

\* Whoever sets the owner is in the section.
LEMMA OwnKeeps ==
    ASSUME Wm!MutexInv, NEW t \in Threads, Wm!Own(t) \/ Wm!Restore(t)
    PROVE  Wm!MutexInv'
  <1> USE MaxDepthAssumption, NamesAssumption DEF Wm!Own, Wm!Restore, Wm!Restored, Wm!Goto
  <1>0. Wm!TypeOK /\ Wm!SectionHeld /\ Wm!OwnerHolds
    BY DEF Wm!MutexInv
  <1>1. v4.holder = t /\ \A u \in Threads : u # t => v6[u] = 0
    BY <1>0 DEF Wm!TypeOK, Wm!SectionHeld
  <1>2. Wm!TypeOK'
    BY <1>0 DEF Wm!TypeOK
  <1>3. v2' = t /\ v3' = v6'[t] /\ v6'[t] > 0 /\ v5'[t] = "out"
        /\ \A u \in Threads : u # t => v6'[u] = 0 /\ v5'[u] = v5[u]
    BY <1>0, <1>1 DEF Wm!TypeOK, Wm!OwnerHolds
  <1>4. Wm!SectionHeld'
    BY <1>0, <1>1, <1>3 DEF Wm!TypeOK, Wm!SectionHeld
  <1>5. Wm!OwnerHolds'
    BY <1>0, <1>3 DEF Wm!TypeOK, Wm!OwnerHolds
  <1> QED
    BY <1>2, <1>4, <1>5 DEF Wm!MutexInv

\* ucb_mutex_unlock clears the owner while it is in the section.
LEMMA UnlockKeeps ==
    ASSUME Wm!MutexInv, NEW t \in Threads, Wm!Unlock(t)
    PROVE  Wm!MutexInv'
  <1> USE MaxDepthAssumption, NamesAssumption DEF Wm!Unlock, Wm!Cleared, Wm!Goto, Wm!Abort, Wm!mutex_vars
  <1>0. Wm!TypeOK /\ Wm!SectionHeld /\ Wm!OwnerHolds
    BY DEF Wm!MutexInv
  <1>1. \A u \in Threads : u # t /\ v6[t] > 0 => v6[u] = 0
    BY <1>0 DEF Wm!TypeOK, Wm!SectionHeld
  <1>2. Wm!TypeOK'
    BY <1>0 DEF Wm!TypeOK, Wm!OwnerHolds
  <1>3. Wm!SectionHeld'
    BY <1>0 DEF Wm!TypeOK, Wm!SectionHeld, Wm!OwnerHolds
  <1>4. Wm!OwnerHolds'
    BY <1>0, <1>1 DEF Wm!TypeOK, Wm!OwnerHolds
  <1> QED
    BY <1>2, <1>3, <1>4 DEF Wm!MutexInv

\* LeaveCriticalSection, and the wait, which leaves the section with the owner still set.
LEMMA LeaveKeeps ==
    ASSUME Wm!MutexInv, NEW t \in Threads, Wm!LeaveSection(t) \/ Wm!Wait(t)
    PROVE  Wm!MutexInv'
  <1> USE MaxDepthAssumption, NamesAssumption DEF Wm!LeaveSection, Wm!Wait, Wm!Leave, Wm!Goto
  <1>0. Wm!TypeOK /\ Wm!SectionHeld /\ Wm!OwnerHolds
    BY DEF Wm!MutexInv
  <1>1. v4.holder = t /\ v4.n = 1 /\ \A u \in Threads : u # t => v6[u] = 0
    BY <1>0 DEF Wm!TypeOK, Wm!SectionHeld
  <1>2. Wm!TypeOK'
    BY <1>0, <1>1 DEF Wm!TypeOK
  <1>3. Wm!SectionHeld'
    BY <1>0, <1>1 DEF Wm!TypeOK, Wm!SectionHeld, Wm!OwnerHolds
  <1>4. Wm!OwnerHolds'
    BY <1>0, <1>1 DEF Wm!TypeOK, Wm!OwnerHolds
  <1> QED
    BY <1>2, <1>3, <1>4 DEF Wm!MutexInv

\* A thread that wakes enters the section when nobody has it.
LEMMA WakeKeeps ==
    ASSUME Wm!MutexInv, NEW t \in Threads, Wm!Wake(t) \/ Wm!Reacquire(t)
    PROVE  Wm!MutexInv'
  <1> USE MaxDepthAssumption, NamesAssumption
      DEF Wm!Wake, Wm!Reacquire, Wm!Enter, Wm!Free, Wm!Goto, Wm!mutex_vars
  <1>0. Wm!TypeOK /\ Wm!SectionHeld /\ Wm!OwnerHolds
    BY DEF Wm!MutexInv
  <1>1. v4.holder # t /\ v6[t] = 0
    BY <1>0 DEF Wm!TypeOK, Wm!SectionHeld, Wm!OwnerHolds
  <1>2. Wm!TypeOK'
    BY <1>0, <1>1 DEF Wm!TypeOK, Wm!SectionHeld
  <1>3. Wm!SectionHeld'
    BY <1>0, <1>1 DEF Wm!TypeOK, Wm!SectionHeld
  <1>4. Wm!OwnerHolds'
    BY <1>0, <1>1 DEF Wm!TypeOK, Wm!OwnerHolds
  <1> QED
    BY <1>2, <1>3, <1>4 DEF Wm!MutexInv

LEMMA MutexStep == Wm!MutexInv /\ Wm!Next => Wm!MutexInv'
  <1>1. ASSUME Wm!MutexInv, NEW t \in Threads, Wm!TryFails(t) PROVE Wm!MutexInv'
    BY <1>1 DEF Wm!TryFails, Wm!vars, Wm!MutexInv, Wm!TypeOK, Wm!SectionHeld, Wm!OwnerHolds
  <1> QED
    BY <1>1, LockKeeps, EnterKeeps, OwnKeeps, UnlockKeeps, LeaveKeeps, WakeKeeps DEF Wm!Next, Wm!TryLock

\* The section excludes, and who has it locked is the owner.
LEMMA MutexCorrect == Wm!MutexInv => Wm!OwnerTold
  <1> SUFFICES ASSUME Wm!MutexInv PROVE Wm!OwnerTold
    OBVIOUS
  <1> DEFINE H == {t \in Threads : v6[t] > 0}
  <1>1. Wm!TypeOK /\ Wm!SectionHeld /\ Wm!OwnerHolds
    BY DEF Wm!MutexInv
  <1>2. \A t, u \in H : t = u
    BY <1>1 DEF Wm!SectionHeld
  <1>3. Cardinality(H) <= 1
    <2>1. CASE H = {}
      BY <2>1, FS_EmptySet
    <2>2. CASE H # {}
      <3>1. PICK t \in H : H = {t}
        BY <1>2, <2>2
      <3>2. Cardinality({t}) = 1
        BY FS_Singleton
      <3> HIDE DEF H
      <3> QED
        BY <3>1, <3>2
    <2> QED
      BY <2>1, <2>2
  <1>4. \A t \in Threads :
           /\ v6[t] > 0 => v2 = t /\ v3 = v6[t] /\ v4.holder = t
           /\ v5[t] = "out" /\ v6[t] = 0 => v2 # t
    BY <1>1 DEF Wm!SectionHeld, Wm!OwnerHolds
  <1>5. Wm!Cardinality(H) = Cardinality(H)
    BY DEF Wm!Cardinality, Cardinality
  <1> QED
    BY <1>3, <1>4, <1>5 DEF Wm!OwnerTold

\* ucb_mutex and ucb_cond on Windows keep an owner and a count that are compared outside of
\* the critical section: whatever the other threads do, they tell a thread the truth.
THEOREM OwnerCorrect == MCSpec => []OwnerTold
  <1> DEFINE Inv == part = "mutex" => Wm!MutexInv
  <1>1. MCInit => Inv
    BY MutexInit DEF MCInit
  <1>2. Inv /\ [MCNext]_<<part, vars, others>> => Inv'
    <2> SUFFICES ASSUME Inv, [MCNext]_<<part, vars, others>>, part' = "mutex"
                 PROVE  Wm!MutexInv'
      OBVIOUS
    <2>1. CASE UNCHANGED <<part, vars, others>>
      BY <2>1 DEF others, Wm!MutexInv, Wm!TypeOK, Wm!SectionHeld, Wm!OwnerHolds
    <2>2. CASE MCNext
      BY <2>2, MutexStep DEF MCNext
    <2> QED
      BY <2>1, <2>2
  <1>3. Inv => OwnerTold
    BY MutexCorrect DEF OwnerTold
  <1> QED
    BY <1>1, <1>2, <1>3, PTL DEF MCSpec

-----------------------------------------------------------------------------
(* Thread local storage: v1, v2 ... are the variables of Tls.              *)

\* No value is set yet.
LEMMA TlsInit == Tl!Init => Tl!TlsInv
  <1> SUFFICES ASSUME Tl!Init PROVE Tl!TlsInv
    OBVIOUS
  <1> USE NamesAssumption DEF Tl!Init
  <1>1. Tl!TypeOK /\ Tl!SlotsOwned
    BY DEF Tl!TypeOK, Tl!SlotsOwned
  <1>2. Tl!ValuesDestroyedOnce
    BY DEF Tl!ValuesDestroyedOnce
  <1> QED
    BY <1>1, <1>2 DEF Tl!TlsInv

\* A use of a wrapper that is freed changes nothing that is told of the values.
LEMMA UseKeeps ==
    ASSUME Tl!TlsInv, NEW t \in Threads, Tl!UsesFreed(t)
    PROVE  Tl!TlsInv'
  <1>0. Tl!TypeOK /\ Tl!SlotsOwned /\ Tl!ValuesDestroyedOnce
    BY DEF Tl!TlsInv
  <1>1. /\ v5[t] = "freed" /\ v9' = TRUE /\ v8' = v8
        /\ v1' = v1 /\ v2' = v2 /\ v3' = v3 /\ v4' = v4 /\ v5' = v5 /\ v6' = v6 /\ v7' = v7
    BY DEF Tl!UsesFreed, Tl!storage
  <1> QED
    BY <1>0, <1>1 DEF Tl!TypeOK, Tl!SlotsOwned, Tl!ValuesDestroyedOnce, Tl!TlsInv

\* A value that is set is in no other slot, and has not been destroyed.
LEMMA SetKeeps ==
    ASSUME Tl!TlsInv, NEW t \in Threads, Tl!Set(t)
    PROVE  Tl!TlsInv'
  <1> USE NamesAssumption
  <1>0. Tl!TypeOK /\ Tl!SlotsOwned /\ Tl!ValuesDestroyedOnce
    BY DEF Tl!TlsInv
  <1>1. CASE \E v \in Tl!Unused :
                /\ v5[t] # "freed"
                /\ v4' = [v4 EXCEPT ![t] = v] /\ v6' = [v6 EXCEPT ![t] = v]
                /\ v5' = [v5 EXCEPT ![t] = IF v1 THEN "live" ELSE "none"]
                /\ UNCHANGED <<v1, v2, v3, v7, v8, v9>>
    <2>1. PICK v \in Values :
              /\ v7[v] = 0 /\ \A u \in Threads : v6[u] # v
              /\ t \in v3 /\ v2 = "live"
              /\ v4' = [v4 EXCEPT ![t] = v] /\ v6' = [v6 EXCEPT ![t] = v]
              /\ v5' = [v5 EXCEPT ![t] = IF v1 THEN "live" ELSE "none"]
              /\ v1' = v1 /\ v2' = v2 /\ v3' = v3 /\ v7' = v7 /\ v8' = v8 /\ v9' = v9
      BY <1>1 DEF Tl!Set, Tl!Unused
    <2>2. Tl!TypeOK'
      BY <1>0, <2>1 DEF Tl!TypeOK
    <2>3. Tl!SlotsOwned'
      BY <1>0, <2>1 DEF Tl!TypeOK, Tl!SlotsOwned
    <2>4. Tl!ValuesDestroyedOnce'
      BY <1>0, <2>1 DEF Tl!TypeOK, Tl!SlotsOwned, Tl!ValuesDestroyedOnce
    <2> QED
      BY <2>2, <2>3, <2>4 DEF Tl!TlsInv
  <1>2. CASE Tl!UsesFreed(t)
    BY <1>2, UseKeeps
  <1>3. CASE UNCHANGED Tl!vars
    BY <1>0, <1>3 DEF Tl!vars, Tl!TypeOK, Tl!SlotsOwned, Tl!ValuesDestroyedOnce, Tl!TlsInv
  <1>4. CASE v1 /\ v5[t] = "none" /\ v8' = TRUE /\ v9' = TRUE /\ UNCHANGED Tl!storage
    BY <1>0, <1>4 DEF Tl!storage, Tl!TypeOK, Tl!SlotsOwned, Tl!ValuesDestroyedOnce, Tl!TlsInv
  <1> QED
    BY <1>1, <1>2, <1>3, <1>4 DEF Tl!Set

\* A slot is emptied, so that nothing of it is destroyed later.
LEMMA ClearKeeps ==
    ASSUME Tl!TlsInv, NEW t \in Threads, Tl!Clear(t)
    PROVE  Tl!TlsInv'
  <1> USE NamesAssumption
  <1>0. Tl!TypeOK /\ Tl!SlotsOwned /\ Tl!ValuesDestroyedOnce
    BY DEF Tl!TlsInv
  <1>1. CASE Tl!UsesFreed(t)
    BY <1>1, UseKeeps
  <1>2. CASE UNCHANGED Tl!vars
    BY <1>0, <1>2 DEF Tl!vars, Tl!TypeOK, Tl!SlotsOwned, Tl!ValuesDestroyedOnce, Tl!TlsInv
  <1>3. CASE /\ t \in v3 /\ v2 = "live"
             /\ v4' = [v4 EXCEPT ![t] = None] /\ v6' = [v6 EXCEPT ![t] = None]
             /\ \/ v5' = [v5 EXCEPT ![t] = "none"] /\ v8' = v8
                \/ v1 /\ v5' = [v5 EXCEPT ![t] = "freed"] /\ v8' = TRUE
             /\ UNCHANGED <<v1, v2, v3, v7, v9>>
    <2>1. Tl!TypeOK'
      BY <1>0, <1>3 DEF Tl!TypeOK
    <2>2. Tl!SlotsOwned'
      BY <1>0, <1>3 DEF Tl!TypeOK, Tl!SlotsOwned
    <2>3. Tl!ValuesDestroyedOnce'
      BY <1>0, <1>3 DEF Tl!TypeOK, Tl!SlotsOwned, Tl!ValuesDestroyedOnce
    <2> QED
      BY <2>1, <2>2, <2>3 DEF Tl!TlsInv
  <1> QED
    BY <1>1, <1>2, <1>3 DEF Tl!Clear, Tl!WrapperCleared

\* A value that is read is not changed.
LEMMA GetKeeps ==
    ASSUME Tl!TlsInv, NEW t \in Threads, Tl!Get(t)
    PROVE  Tl!TlsInv'
  <1>1. CASE Tl!UsesFreed(t)
    BY <1>1, UseKeeps
  <1>2. CASE UNCHANGED Tl!vars
    BY <1>2 DEF Tl!vars, Tl!TypeOK, Tl!SlotsOwned, Tl!ValuesDestroyedOnce, Tl!TlsInv
  <1> QED
    BY <1>1, <1>2 DEF Tl!Get

\* The destructor gets what the exiting thread has, which is nobody's afterwards.
LEMMA ExitKeeps ==
    ASSUME Tl!TlsInv, NEW t \in Threads, Tl!Exit(t)
    PROVE  Tl!TlsInv'
  <1> USE NamesAssumption DEF Tl!Destroy
  <1>0. Tl!TypeOK /\ Tl!SlotsOwned /\ Tl!ValuesDestroyedOnce
    BY DEF Tl!TlsInv
  <1>1. CASE Tl!UsesFreed(t)
    BY <1>1, UseKeeps
  <1>2. CASE /\ v5[t] # "freed" /\ v3' = v3 \ {t}
             /\ Tl!Destroy(IF v2 = "live" THEN {v4[t]} ELSE {})
             /\ v4' = [v4 EXCEPT ![t] = None] /\ v5' = [v5 EXCEPT ![t] = "none"]
             /\ v6' = IF v2 = "live" THEN [v6 EXCEPT ![t] = None] ELSE v6
             /\ UNCHANGED <<v1, v2, v8, v9>>
    <2>1. \A v \in Values :
             v7'[v] = IF v2 = "live" /\ v = v4[t] THEN v7[v] + 1 ELSE v7[v]
      BY <1>2
    <2>2. \A v \in Values : v = v4[t] => v7[v] = 0 /\ v6[t] = v
      BY <1>0 DEF Tl!TypeOK, Tl!SlotsOwned
    <2>3. \A v \in Values : v7'[v] = IF v2 = "live" /\ v = v4[t] THEN 1 ELSE v7[v]
      BY <1>0, <2>1, <2>2 DEF Tl!TypeOK
    <2>4. Tl!TypeOK'
      <3>1. v7' \in [Values -> {0, 1}]
        BY <1>0, <1>2, <2>3 DEF Tl!TypeOK
      <3> QED
        BY <1>0, <1>2, <3>1 DEF Tl!TypeOK
    <2>5. Tl!SlotsOwned'
      BY <1>0, <1>2, <2>2, <2>3 DEF Tl!TypeOK, Tl!SlotsOwned
    <2>6. Tl!ValuesDestroyedOnce'
      BY <1>0, <1>2, <2>2, <2>3 DEF Tl!TypeOK, Tl!SlotsOwned, Tl!ValuesDestroyedOnce
    <2> QED
      BY <2>4, <2>5, <2>6 DEF Tl!TlsInv
  <1> QED
    BY <1>1, <1>2 DEF Tl!Exit

\* FlsFree destroys what is left, and then there is no slot.
LEMMA KeyFreeKeeps ==
    ASSUME Tl!TlsInv, Tl!KeyFree
    PROVE  Tl!TlsInv'
  <1> USE NamesAssumption DEF Tl!Destroy
  <1>0. Tl!TypeOK /\ Tl!SlotsOwned /\ Tl!ValuesDestroyedOnce
    BY DEF Tl!TlsInv
  <1>1. CASE \E t \in Threads : Tl!UsesFreed(t)
    BY <1>1, UseKeeps
  <1>2. CASE /\ ~v1 /\ v2' = "freed"
             /\ UNCHANGED <<v4, v6, v7, v5>> /\ UNCHANGED <<v1, v3, v8, v9>>
    BY <1>0, <1>2 DEF Tl!TypeOK, Tl!SlotsOwned, Tl!ValuesDestroyedOnce, Tl!TlsInv
  <1>3. CASE /\ v1 /\ v2' = "freed"
             /\ Tl!Destroy({v4[t] : t \in Threads}) /\ v4' = [t \in Threads |-> None]
             /\ v6' = [t \in Threads |-> None] /\ v5' = [t \in Threads |-> "none"]
             /\ UNCHANGED <<v1, v3, v8, v9>>
    <2>1. /\ \A u \in Threads : v4'[u] = None /\ v6'[u] = None /\ v5'[u] = "none"
          /\ v4' \in [Threads -> Values \cup {None}] /\ v6' \in [Threads -> Values \cup {None}]
          /\ v5' \in [Threads -> {"none", "live", "freed"}]
          /\ v2' = "freed" /\ v1' = v1 /\ v3' = v3 /\ v8' = v8 /\ v9' = v9
      BY <1>0, <1>3 DEF Tl!TypeOK
    <2>2. \A v \in Values : v7'[v] = IF \E u \in Threads : v = v4[u] THEN v7[v] + 1 ELSE v7[v]
      BY <1>3
    <2>3. \A v \in Values : (\E u \in Threads : v = v4[u]) => v7[v] = 0
      BY <1>0 DEF Tl!TypeOK, Tl!SlotsOwned
    <2>4. v7' \in [Values -> {0, 1}]
      <3>1. \A v \in Values : v7'[v] \in {0, 1}
        BY <1>0, <2>2, <2>3 DEF Tl!TypeOK
      <3>2. v7' = [v \in Values |-> v7'[v]]
        BY <1>3
      <3> QED
        BY <3>1, <3>2
    <2> QED
      BY <1>0, <2>1, <2>4 DEF Tl!TypeOK, Tl!SlotsOwned, Tl!ValuesDestroyedOnce, Tl!TlsInv
  <1> QED
    BY <1>1, <1>2, <1>3 DEF Tl!KeyFree

LEMMA TlsStep == Tl!TlsInv /\ Tl!Next => Tl!TlsInv'
  BY SetKeeps, ClearKeeps, GetKeeps, ExitKeeps, KeyFreeKeeps DEF Tl!Next

\* ucb_tls_set, ucb_tls_get, the exits of threads and ucb_tls_key_free, in any order, on
\* both platforms and with every failure that is reported: no freed wrapper is used unless
\* FlsSetValue has failed on Windows, ucb_tls_get returns what its thread has set, and a
\* value is destroyed once at most, never after it was cleared or replaced.
THEOREM DestructorsCorrect == MCSpec => []ValuesDestroyedOnce
  <1> DEFINE Inv == part = "tls" => Tl!TlsInv
  <1>1. MCInit => Inv
    BY TlsInit DEF MCInit
  <1>2. Inv /\ [MCNext]_<<part, vars, others>> => Inv'
    <2> SUFFICES ASSUME Inv, [MCNext]_<<part, vars, others>>, part' = "tls"
                 PROVE  Tl!TlsInv'
      OBVIOUS
    <2>1. CASE UNCHANGED <<part, vars, others>>
      BY <2>1 DEF others, Tl!TlsInv, Tl!TypeOK, Tl!SlotsOwned, Tl!ValuesDestroyedOnce
    <2>2. CASE MCNext
      BY <2>2, TlsStep DEF MCNext
    <2> QED
      BY <2>1, <2>2
  <1>3. Inv => ValuesDestroyedOnce
    BY DEF Tl!TlsInv, ValuesDestroyedOnce
  <1> QED
    BY <1>1, <1>2, <1>3, PTL DEF MCSpec

-----------------------------------------------------------------------------
(* Reported and thrown errors: v1, v2 ... are the variables of Errors.     *)

\* No error has been reported.
LEMMA ErrorsInit == Er!Init => Er!ErrorsInv
  <1> SUFFICES ASSUME Er!Init PROVE Er!ErrorsInv
    OBVIOUS
  <1> USE NamesAssumption DEF Er!Init, Er!Handlers
  <1>1. Er!TypeOK
    <2>1. v3 \in Seq([by : Reporters, line : {"level", "code", "message"}])
      OBVIOUS
    <2>2. v12 \in [Reporters -> Seq(Er!Codes)] /\ v13 \in [Reporters -> Seq(Er!Codes)]
      OBVIOUS
    <2>3. v9 \in [Reporters -> 0..1]
      OBVIOUS
    <2> QED
      BY <2>1, <2>2, <2>3 DEF Er!TypeOK, Er!Resting, Er!Untold, Er!Told
  <1>2. Er!LockHeld
    BY DEF Er!LockHeld, Er!Printing
  <1>3. Er!LinesWhole
    <2>1. Len(v3) = 0 /\ 0 % 3 = 0
      OBVIOUS
    <2> QED
      BY <2>1 DEF Er!LinesWhole
  <1>4. ASSUME NEW t \in Reporters
        PROVE  Er!ThreadTells(t)
    <2>1. v13[t] = <<>> /\ v12[t] = <<>> /\ v5[t] = "out" /\ v9[t] = 0 /\ v10[t] = None
      OBVIOUS
    <2>2. \A i \in 1..Len(v13[t]) : FALSE
      BY <2>1
    <2> QED
      BY <2>1, <2>2 DEF Er!ThreadTells, Er!StageKnown, Er!BufferDue, Er!EndsThere, Er!BlankKept,
                        Er!Resting, Er!Untold, Er!Printing
  <1> QED
    BY <1>1, <1>2, <1>3, <1>4 DEF Er!ErrorsInv

\* What a thread does is nothing to the buffers of the others.
LEMMA OthersTell ==
    ASSUME NEW t \in Reporters, \A u \in Reporters : Er!ThreadTells(u), v1' = v1,
           \A u \in Reporters \ {t} :
              /\ v5'[u] = v5[u] /\ v6'[u] = v6[u] /\ v7'[u] = v7[u] /\ v8'[u] = v8[u]
              /\ v9'[u] = v9[u] /\ v10'[u] = v10[u] /\ v12'[u] = v12[u] /\ v13'[u] = v13[u],
           Er!ThreadTells(t)'
    PROVE  \A u \in Reporters : Er!ThreadTells(u)'
  BY DEF Er!ThreadTells, Er!StageKnown, Er!BufferDue, Er!EndsThere, Er!BlankKept, Er!Ends

\* A report outside of a handler, from wherever the thread was.
LEMMA ReportKeeps ==
    ASSUME Er!ErrorsInv, NEW t \in Reporters, v5[t] \in Er!Resting,
           NEW level \in {"fatal", "user", "warning", "system"}, NEW code \in Er!Codes,
           NEW after \in Er!Resting, Er!Report(t, level, code, after),
           Er!Ends(code) => level # "warning", code = "user" => level = "user",
           v10[t] = "blank" => after = "drop", v10' = v10, v13' = v13
    PROVE  Er!ErrorsInv'
  <1> DEFINE to == IF v1 = "none" THEN "lock" ELSE "handle"
  <1>0. Er!TypeOK /\ Er!LockHeld /\ Er!LinesWhole /\ \A u \in Reporters : Er!ThreadTells(u)
    BY DEF Er!ErrorsInv
  <1>1. Er!StageKnown(t) /\ Er!BufferDue(t) /\ Er!EndsThere(t) /\ Er!BlankKept(t)
    BY <1>0 DEF Er!ThreadTells
  <1>2. v9[t] = 0 /\ v13[t] = v12[t]
    BY <1>1 DEF Er!StageKnown, Er!BufferDue, Er!Resting, Er!Untold
  <1>3. after # "return"
    BY DEF Er!Resting
  <1>4. /\ v8' = [v8 EXCEPT ![t] = code] /\ v12' = [v12 EXCEPT ![t] = Append(@, code)]
        /\ v6' = [v6 EXCEPT ![t] = level] /\ v7' = [v7 EXCEPT ![t] = after]
        /\ v9' = [v9 EXCEPT ![t] = @ + 1] /\ v5' = [v5 EXCEPT ![t] = to]
        /\ v1' = v1 /\ v2' = v2 /\ v3' = v3 /\ v4' = v4
    BY <1>2, <1>3 DEF Er!Report, Er!Goto, Er!shared
  <1>5. Er!TypeOK'
    <2>1. v12[t] \in Seq(Er!Codes) /\ Append(v12[t], code) \in Seq(Er!Codes)
      BY <1>0 DEF Er!TypeOK
    <2> QED
      BY <1>0, <1>2, <1>4, <2>1 DEF Er!TypeOK, Er!Untold
  <1>6. /\ v5'[t] = to /\ v6'[t] = level /\ v7'[t] = after /\ v8'[t] = code /\ v9'[t] = 1
        /\ v10'[t] = v10[t] /\ v12'[t] = Append(v12[t], code) /\ v13'[t] = v13[t]
    BY <1>0, <1>2, <1>4 DEF Er!TypeOK
  <1>7. \A u \in Reporters \ {t} :
           /\ v5'[u] = v5[u] /\ v6'[u] = v6[u] /\ v7'[u] = v7[u] /\ v8'[u] = v8[u]
           /\ v9'[u] = v9[u] /\ v10'[u] = v10[u] /\ v12'[u] = v12[u] /\ v13'[u] = v13[u]
    BY <1>0, <1>4 DEF Er!TypeOK
  <1>8. Er!LockHeld'
    BY <1>0, <1>4, <1>6, <1>7 DEF Er!LockHeld, Er!Printing, Er!Resting
  <1>9. Er!LinesWhole'
    BY <1>0, <1>4, <1>6, <1>7 DEF Er!LinesWhole
  <1>10. Er!StageKnown(t)' /\ Er!BufferDue(t)' /\ Er!BlankKept(t)'
    BY <1>1, <1>2, <1>4, <1>6
    DEF Er!StageKnown, Er!BufferDue, Er!BlankKept, Er!Resting, Er!Untold, Er!Printing
  <1>11. Er!EndsThere(t)'
    BY <1>1, <1>4, <1>6 DEF Er!EndsThere, Er!Ends, Er!Resting, Er!Untold, Er!Told
  <1>12. \A u \in Reporters : Er!ThreadTells(u)'
    <2>1. Er!ThreadTells(t)'
      BY <1>10, <1>11 DEF Er!ThreadTells
    <2> QED
      BY <1>0, <1>4, <1>7, <2>1, OthersTell
  <1> QED
    BY <1>5, <1>8, <1>9, <1>12 DEF Er!ErrorsInv

\* A step of a throw, or of the caller, that reports nothing.
LEMMA RestKeeps ==
    ASSUME Er!ErrorsInv, NEW t \in Reporters, v5[t] \in Er!Resting,
           NEW to \in Er!Resting, v5' = [v5 EXCEPT ![t] = to],
           NEW obj \in {None, "blank", "new"}, v10' = [v10 EXCEPT ![t] = obj],
           obj = "blank" => to = "copy",
           UNCHANGED <<v1, v2, v3, v4, v6, v7, v8, v9, v12, v13>>
    PROVE  Er!ErrorsInv'
  <1>0. Er!TypeOK /\ Er!LockHeld /\ Er!LinesWhole /\ \A u \in Reporters : Er!ThreadTells(u)
    BY DEF Er!ErrorsInv
  <1>1. Er!TypeOK'
    BY <1>0 DEF Er!TypeOK
  <1>2. v5'[t] = to /\ v10'[t] = obj
    BY <1>0 DEF Er!TypeOK
  <1>3. \A u \in Reporters \ {t} : v5'[u] = v5[u] /\ v10'[u] = v10[u]
    BY <1>0 DEF Er!TypeOK
  <1>4. Er!LockHeld'
    BY <1>0, <1>2, <1>3 DEF Er!LockHeld, Er!Printing, Er!Resting
  <1>5. Er!LinesWhole'
    BY <1>0, <1>2, <1>3 DEF Er!LinesWhole, Er!Resting
  <1>6. Er!ThreadTells(t)'
    BY <1>0, <1>2 DEF Er!ThreadTells, Er!StageKnown, Er!BufferDue, Er!EndsThere, Er!BlankKept,
                      Er!Ends, Er!Resting, Er!Untold, Er!Told, Er!Printing
  <1>7. \A u \in Reporters : Er!ThreadTells(u)'
    BY <1>0, <1>3, <1>6, OthersTell
  <1> QED
    BY <1>1, <1>4, <1>5, <1>7 DEF Er!ErrorsInv

\* ucb_report_errno and the other reports.
LEMMA CallsKeep ==
    ASSUME Er!ErrorsInv, NEW t \in Reporters, Er!ReportErrno(t) \/ Er!ReportOther(t)
    PROVE  Er!ErrorsInv'
  <1>1. v5[t] = "out" /\ "out" \in Er!Resting /\ v10' = v10 /\ v13' = v13
    BY DEF Er!ReportErrno, Er!ReportOther, Er!Call, Er!Runs, Er!Resting
  <1>2. v10[t] # "blank"
    BY <1>1 DEF Er!ErrorsInv, Er!ThreadTells, Er!BlankKept
  <1>3. CASE Er!ReportErrno(t)
    <2>1. PICK st \in {"EIO", "EODD"} : Er!Report(t, "system", Er!Wrapped(st), "out")
      BY <1>3 DEF Er!ReportErrno
    <2>2. PICK code \in Er!Codes : code = Er!Wrapped(st) /\ code # "user"
      BY DEF Er!Codes, Er!Wrapped
    <2>3. Er!Report(t, "system", code, "out")
      BY <2>1, <2>2
    <2> QED
      BY <1>1, <1>2, <2>2, <2>3, ReportKeeps
  <1>4. CASE Er!ReportOther(t)
    <2>1. PICK level \in {"fatal", "user", "warning"} : Er!Report(t, level, level, "out")
      BY <1>4 DEF Er!ReportOther
    <2>2. level \in Er!Codes /\ (Er!Ends(level) => level # "warning")
      BY DEF Er!Codes, Er!Ends
    <2> QED
      BY <1>1, <1>2, <2>1, <2>2, ReportKeeps
  <1> QED
    BY <1>3, <1>4

\* ucb_throw and ucb_error_clear.
LEMMA ThrowsKeep ==
    ASSUME Er!ErrorsInv, NEW t \in Reporters,
           Er!Throw(t) \/ Er!Forget(t) \/ Er!NewObject(t) \/ Er!CopyMessage(t) \/ Er!Drop(t) \/ Er!Clear(t)
    PROVE  Er!ErrorsInv'
  <1> USE DEF Er!Call, Er!Runs, Er!Goto, Er!shared
  <1>0. /\ Er!TypeOK /\ Er!BlankKept(t) /\ v10[t] \in {None, "blank", "new"}
        /\ v5 \in [Reporters -> Er!Resting \cup Er!Untold \cup Er!Told]
        /\ v10 = [v10 EXCEPT ![t] = v10[t]] /\ v5 = [v5 EXCEPT ![t] = v5[t]]
    BY DEF Er!ErrorsInv, Er!TypeOK, Er!ThreadTells
  <1>1. /\ "out" \in Er!Resting /\ "object" \in Er!Resting /\ "copy" \in Er!Resting
        /\ "drop" \in Er!Resting /\ "forget" \in Er!Resting
        /\ "unhandled" \in Er!Codes /\ "oom" \in Er!Codes /\ ~Er!Ends("unhandled") /\ None # "blank"
    BY NamesAssumption DEF Er!Resting, Er!Codes, Er!Ends
  <1>2. v5[t] \in {"out", "forget", "object", "drop"} =>
            (v10[t] = "blank" => v5[t] = "drop")
    BY <1>0 DEF Er!BlankKept, Er!Resting
  <1>3. CASE Er!Throw(t)
    <2>1. CASE v10[t] = None
      BY <1>0, <1>1, <1>3, <2>1, RestKeeps DEF Er!Throw
    <2>2. CASE v10[t] # None
      BY <1>0, <1>1, <1>2, <1>3, <2>2, ReportKeeps DEF Er!Throw
    <2> QED
      BY <2>1, <2>2
  <1>4. CASE Er!Forget(t)
    BY <1>0, <1>1, <1>4, RestKeeps DEF Er!Forget
  <1>5. CASE Er!NewObject(t)
    <2>1. v5[t] = "object" /\ v13' = v13
      BY <1>5 DEF Er!NewObject
    <2>2. CASE v10' = [v10 EXCEPT ![t] = "blank"] /\ v5' = [v5 EXCEPT ![t] = "copy"]
               /\ UNCHANGED <<v1, v2, v3, v4, v6, v7, v8, v9, v12>>
      BY <1>1, <2>1, <2>2, RestKeeps
    <2>3. CASE Er!Report(t, "fatal", "oom", "out") /\ v10' = v10
      BY <1>1, <1>2, <2>1, <2>3, ReportKeeps
    <2> QED
      BY <1>5, <2>2, <2>3 DEF Er!NewObject
  <1>6. CASE Er!CopyMessage(t)
    <2>1. v5[t] = "copy" /\ v13' = v13
      BY <1>6 DEF Er!CopyMessage
    <2>2. CASE v10' = [v10 EXCEPT ![t] = "new"] /\ v5' = [v5 EXCEPT ![t] = "out"]
               /\ UNCHANGED <<v1, v2, v3, v4, v6, v7, v8, v9, v12>>
      BY <1>1, <2>1, <2>2, RestKeeps
    <2>3. CASE Er!Report(t, "fatal", "oom", "drop") /\ v10' = v10
      BY <1>1, <2>1, <2>3, ReportKeeps
    <2> QED
      BY <1>6, <2>2, <2>3 DEF Er!CopyMessage
  <1>7. CASE Er!Drop(t)
    BY <1>0, <1>1, <1>7, RestKeeps DEF Er!Drop
  <1>8. CASE Er!Clear(t)
    BY <1>0, <1>1, <1>8, RestKeeps DEF Er!Clear
  <1> QED
    BY <1>3, <1>4, <1>5, <1>6, <1>7, <1>8

\* The handler is told, and may report an error itself, which is suppressed.
LEMMA HandleKeeps ==
    ASSUME Er!ErrorsInv, NEW t \in Reporters, Er!Handle(t)
    PROVE  Er!ErrorsInv'
  <1> USE DEF Er!Runs, Er!Goto, Er!shared
  <1>0. Er!TypeOK /\ Er!LockHeld /\ Er!LinesWhole /\ \A u \in Reporters : Er!ThreadTells(u)
    BY DEF Er!ErrorsInv
  <1>1. Er!StageKnown(t) /\ Er!BufferDue(t) /\ Er!EndsThere(t) /\ Er!BlankKept(t) /\ v5[t] = "handle"
    BY <1>0 DEF Er!ThreadTells, Er!Handle
  <1>2. /\ v9[t] = 1 /\ v1 # "none" /\ v8[t] \in Er!Codes /\ v12[t] = Append(v13[t], v8[t])
        /\ v8[t] = "user" => v6[t] = "user"
    BY <1>1 DEF Er!StageKnown, Er!BufferDue, Er!EndsThere, Er!Resting, Er!Untold
  <1>3. /\ v5' = [v5 EXCEPT ![t] = "return"] /\ v13' = [v13 EXCEPT ![t] = Append(@, v8[t])]
        /\ v8' = v8 \/ v8' = [v8 EXCEPT ![t] = "nested"]
        /\ UNCHANGED <<v1, v2, v3, v4, v6, v7, v9, v10, v12>>
    BY <1>2 DEF Er!Handle, Er!Tell, Er!Report
  <1>4. v13[t] \in Seq(Er!Codes) /\ Append(v13[t], v8[t]) \in Seq(Er!Codes)
    BY <1>0, <1>2 DEF Er!TypeOK
  <1>5. Er!TypeOK'
    <2>1. v8' \in [Reporters -> Er!Codes \cup {None}]
      BY <1>0, <1>3 DEF Er!TypeOK, Er!Codes
    <2> QED
      BY <1>0, <1>3, <1>4, <2>1 DEF Er!TypeOK, Er!Told
  <1>6. v5'[t] = "return" /\ v13'[t] = Append(v13[t], v8[t])
    BY <1>0, <1>3 DEF Er!TypeOK
  <1>7. \A u \in Reporters \ {t} : v5'[u] = v5[u] /\ v8'[u] = v8[u] /\ v13'[u] = v13[u]
    BY <1>0, <1>3 DEF Er!TypeOK
  <1>8. Er!LockHeld'
    BY <1>0, <1>1, <1>3, <1>6, <1>7 DEF Er!LockHeld, Er!Printing
  <1>9. Er!LinesWhole'
    BY <1>0, <1>3, <1>6, <1>7 DEF Er!LinesWhole
  <1>10. Er!EndsThere(t)'
    <2>1. \A i \in 1..Len(v13[t]) : ~Er!Ends(v13[t][i])
      BY <1>1 DEF Er!EndsThere, Er!Told
    <2>2. ASSUME NEW i \in 1..Len(v13'[t]),
                 v13'[t][i] = "user" \/ (v1' = "none" /\ v13'[t][i] \notin {"warning", "unhandled"})
          PROVE  v6'[t] = "user"
      <3>1. CASE i <= Len(v13[t])
        <4>1. v13'[t][i] = v13[t][i] /\ i \in 1..Len(v13[t])
          BY <1>4, <1>6, <2>2, <3>1
        <4> QED
          BY <1>3, <2>1, <2>2, <4>1 DEF Er!Ends
      <3>2. CASE ~(i <= Len(v13[t]))
        <4>1. v13'[t][i] = v8[t]
          BY <1>4, <1>6, <2>2, <3>2
        <4> QED
          BY <1>2, <1>3, <2>2, <4>1 DEF Er!Ends
      <3> QED
        BY <3>1, <3>2
    <2> QED
      BY <1>6, <2>2 DEF Er!EndsThere, Er!Ends, Er!Untold, Er!Told
  <1>11. Er!StageKnown(t)' /\ Er!BufferDue(t)' /\ Er!BlankKept(t)'
    BY <1>1, <1>2, <1>3, <1>6
    DEF Er!StageKnown, Er!BufferDue, Er!BlankKept, Er!Resting, Er!Untold, Er!Printing
  <1>12. \A u \in Reporters : Er!ThreadTells(u)'
    <2>1. Er!ThreadTells(t)'
      BY <1>10, <1>11 DEF Er!ThreadTells
    <2> QED
      BY <1>0, <1>3, <1>7, <2>1, OthersTell
  <1> QED
    BY <1>5, <1>8, <1>9, <1>12 DEF Er!ErrorsInv

\* The mutex of the default handler.
LEMMA ReportLockKeeps ==
    ASSUME Er!ErrorsInv, NEW t \in Reporters, Er!Lock(t)
    PROVE  Er!ErrorsInv'
  <1> USE NamesAssumption DEF Er!Lock, Er!Free, Er!Runs, Er!Goto
  <1>0. Er!TypeOK /\ Er!LockHeld /\ Er!LinesWhole /\ \A u \in Reporters : Er!ThreadTells(u)
    BY DEF Er!ErrorsInv
  <1>1. Er!TypeOK'
    BY <1>0 DEF Er!TypeOK, Er!Untold
  <1>2. v5[t] = "lock" /\ v5'[t] = "level" /\ \A u \in Reporters \ {t} : v5'[u] = v5[u]
    BY <1>0 DEF Er!TypeOK
  <1>3. Er!LockHeld'
    BY <1>0, <1>2 DEF Er!LockHeld, Er!Printing
  <1>4. Er!LinesWhole'
    BY <1>0, <1>2 DEF Er!LinesWhole
  <1>5. Er!ThreadTells(t)'
    BY <1>0, <1>2 DEF Er!ThreadTells, Er!StageKnown, Er!BufferDue, Er!EndsThere, Er!BlankKept,
                      Er!Ends, Er!Resting, Er!Untold, Er!Told, Er!Printing
  <1>6. \A u \in Reporters : Er!ThreadTells(u)'
    BY <1>0, <1>2, <1>5, OthersTell
  <1> QED
    BY <1>1, <1>3, <1>4, <1>6 DEF Er!ErrorsInv

\* A line is put behind those of the same thread.
LEMMA LineAdded ==
    ASSUME Er!TypeOK, Er!LockHeld, Er!LinesWhole, NEW t \in Reporters,
           NEW line \in {"level", "code", "message"}, v5[t] = line,
           NEW to \in {"code", "message", "printed"},
           to = CASE line = "level" -> "code" [] line = "code" -> "message" [] line = "message" -> "printed",
           v3' = Append(v3, [by |-> t, line |-> line]), v5' = [v5 EXCEPT ![t] = to], v2' = v2
    PROVE  Er!LinesWhole'
  <1> DEFINE n == Len(v3)
             r == [by |-> t, line |-> line]
  <1>1. v2 = t /\ \A u \in Reporters \ {t} : v5[u] \notin Er!Printing
    BY DEF Er!LockHeld, Er!Printing
  <1>2. /\ n \in Nat /\ Len(v3') = n + 1 /\ v3'[n + 1] = r
        /\ \A i \in 1..n : v3'[i] = v3[i]
    BY DEF Er!TypeOK
  <1>3. v5'[t] = to /\ \A u \in Reporters \ {t} : v5'[u] = v5[u]
    BY DEF Er!TypeOK
  <1>4. /\ line = "level" => n % 3 = 0
        /\ line = "code" => n % 3 = 1 /\ v3[n].by = t
        /\ line = "message" => n % 3 = 2 /\ v3[n].by = t
    BY DEF Er!LinesWhole
  <1>5. r.by = t /\ r.line = line
    OBVIOUS
  <1> HIDE DEF r
  <1>6. /\ n % 3 = 0 => (n + 1) % 3 = 1
        /\ n % 3 = 1 => (n + 1) % 3 = 2 /\ n # 0
        /\ n % 3 = 2 => (n + 1) % 3 = 0 /\ n # 0
    BY <1>2
  <1>7. ASSUME NEW i \in 1..(n + 1)
        PROVE  /\ v3'[i].line = Er!Lines[((i - 1) % 3) + 1]
               /\ v3'[i].line # "level" => v3'[i].by = v3'[i - 1].by
    <2>1. CASE i \in 1..n
      <3>1. /\ v3[i].line = Er!Lines[((i - 1) % 3) + 1]
            /\ v3[i].line # "level" => v3[i].by = v3[i - 1].by
        BY <2>1 DEF Er!LinesWhole
      <3>2. v3[i].line # "level" => i # 1
        BY <3>1 DEF Er!Lines
      <3>3. i # 1 => i - 1 \in 1..n
        BY <1>2, <2>1
      <3> QED
        BY <1>2, <2>1, <3>1, <3>2, <3>3
    <2>2. CASE i = n + 1
      <3>1. (i - 1) % 3 = n % 3 /\ i - 1 = n
        BY <1>2, <2>2
      <3>2. r.line = Er!Lines[(n % 3) + 1]
        BY <1>4, <1>5 DEF Er!Lines
      <3>3. r.line # "level" => n \in 1..n /\ v3[n].by = t
        BY <1>2, <1>4, <1>5, <1>6
      <3> QED
        BY <1>2, <1>5, <2>2, <3>1, <3>2, <3>3
    <2>3. i \in 1..n \/ i = n + 1
      BY <1>2, <1>7
    <2> QED
      BY <2>1, <2>2, <2>3
  <1>8. ASSUME NEW u \in Reporters
        PROVE  /\ v5'[u] \in {"level", "printed"} => Len(v3') % 3 = 0
               /\ v5'[u] = "code" => Len(v3') % 3 = 1 /\ v3'[Len(v3')].by = u
               /\ v5'[u] = "message" => Len(v3') % 3 = 2 /\ v3'[Len(v3')].by = u
    BY <1>1, <1>2, <1>3, <1>4, <1>5, <1>6 DEF Er!Printing
  <1>9. v2' # None
    BY <1>1, NamesAssumption
  <1> QED
    BY <1>2, <1>7, <1>8, <1>9 DEF Er!LinesWhole

\* ucb_error_print.
LEMMA PrintKeeps ==
    ASSUME Er!ErrorsInv, NEW t \in Reporters,
           Er!PrintLevel(t) \/ Er!PrintCode(t) \/ Er!PrintMessage(t)
    PROVE  Er!ErrorsInv'
  <1>0. Er!TypeOK /\ Er!LockHeld /\ Er!LinesWhole /\ \A u \in Reporters : Er!ThreadTells(u)
    BY DEF Er!ErrorsInv
  <1>1. PICK line \in {"level", "code", "message"}, to \in {"code", "message", "printed"} :
           /\ v5[t] = line /\ v5' = [v5 EXCEPT ![t] = to]
           /\ to = CASE line = "level" -> "code" [] line = "code" -> "message"
                     [] line = "message" -> "printed"
           /\ v3' = Append(v3, [by |-> t, line |-> line])
           /\ v13' = IF line = "message" THEN [v13 EXCEPT ![t] = Append(@, v8[t])] ELSE v13
           /\ UNCHANGED <<v1, v2, v4, v6, v7, v8, v9, v10, v12>>
    <2>1. CASE Er!PrintLevel(t)
      BY <2>1 DEF Er!PrintLevel, Er!PrintPart, Er!Runs, Er!Goto
    <2>2. CASE Er!PrintCode(t)
      BY <2>2 DEF Er!PrintCode, Er!PrintPart, Er!Runs, Er!Goto
    <2>3. CASE Er!PrintMessage(t)
      BY <2>3 DEF Er!PrintMessage, Er!PrintPart, Er!Tell, Er!Runs, Er!Goto
    <2> QED
      BY <2>1, <2>2, <2>3
  <1>2. Er!LinesWhole'
    BY <1>0, <1>1, LineAdded
  <1>3. Er!StageKnown(t) /\ Er!BufferDue(t) /\ Er!EndsThere(t) /\ Er!BlankKept(t)
    BY <1>0 DEF Er!ThreadTells
  <1>4. /\ v9[t] = 1 /\ v1 = "none" /\ v8[t] \in Er!Codes /\ v12[t] = Append(v13[t], v8[t])
        /\ Er!Ends(v8[t]) => v6[t] # "warning"
    BY <1>1, <1>3 DEF Er!StageKnown, Er!BufferDue, Er!EndsThere, Er!Resting, Er!Untold, Er!Printing
  <1>5. v13[t] \in Seq(Er!Codes) /\ Append(v13[t], v8[t]) \in Seq(Er!Codes)
    BY <1>0, <1>4 DEF Er!TypeOK
  <1>6. Er!TypeOK'
    <2>1. v3' \in Seq([by : Reporters, line : {"level", "code", "message"}])
      BY <1>0, <1>1 DEF Er!TypeOK
    <2>2. v5' \in [Reporters -> Er!Resting \cup Er!Untold \cup Er!Told]
      BY <1>0, <1>1 DEF Er!TypeOK, Er!Untold, Er!Told
    <2>3. v13' \in [Reporters -> Seq(Er!Codes)]
      BY <1>0, <1>1, <1>5 DEF Er!TypeOK
    <2> QED
      BY <1>0, <1>1, <2>1, <2>2, <2>3 DEF Er!TypeOK
  <1>7. v5'[t] = to /\ v13'[t] = IF line = "message" THEN Append(v13[t], v8[t]) ELSE v13[t]
    BY <1>0, <1>1 DEF Er!TypeOK
  <1>8. \A u \in Reporters \ {t} : v5'[u] = v5[u] /\ v13'[u] = v13[u]
    BY <1>0, <1>1 DEF Er!TypeOK
  <1>9. Er!LockHeld'
    BY <1>0, <1>1, <1>7, <1>8 DEF Er!LockHeld, Er!Printing
  <1>10. to = "printed" <=> line = "message"
    BY <1>1
  <1>11. Er!EndsThere(t)'
    <2>1. \A i \in 1..Len(v13[t]) : ~Er!Ends(v13[t][i])
      BY <1>1, <1>3 DEF Er!EndsThere, Er!Told
    <2>2. ASSUME NEW i \in 1..Len(v13'[t]),
                 v13'[t][i] = "user" \/ (v1' = "none" /\ v13'[t][i] \notin {"warning", "unhandled"})
          PROVE  v5'[t] = "printed" /\ v6'[t] # "warning"
      <3>1. CASE line # "message"
        BY <1>1, <1>7, <2>1, <2>2, <3>1 DEF Er!Ends
      <3>2. CASE line = "message" /\ i <= Len(v13[t])
        <4>1. v13'[t][i] = v13[t][i] /\ i \in 1..Len(v13[t])
          BY <1>5, <1>7, <2>2, <3>2
        <4> QED
          BY <1>1, <2>1, <2>2, <4>1 DEF Er!Ends
      <3>3. CASE line = "message" /\ ~(i <= Len(v13[t]))
        <4>1. v13'[t][i] = v8[t]
          BY <1>5, <1>7, <2>2, <3>3
        <4> QED
          BY <1>1, <1>4, <1>7, <1>10, <2>2, <3>3, <4>1 DEF Er!Ends
      <3> QED
        BY <3>1, <3>2, <3>3
    <2>3. /\ v8'[t] = "user" \/ (v1' = "none" /\ v8'[t] \notin {"warning", "unhandled"})
                => v6'[t] # "warning"
          /\ v8'[t] = "user" => v6'[t] = "user"
      BY <1>1, <1>3, <1>4 DEF Er!EndsThere, Er!Ends, Er!Untold
    <2> QED
      BY <2>2, <2>3 DEF Er!EndsThere, Er!Ends, Er!Told
  <1>12. Er!StageKnown(t)' /\ Er!BufferDue(t)' /\ Er!BlankKept(t)'
    BY <1>1, <1>3, <1>4, <1>7, <1>10
    DEF Er!StageKnown, Er!BufferDue, Er!BlankKept, Er!Resting, Er!Untold, Er!Printing
  <1>13. \A u \in Reporters : Er!ThreadTells(u)'
    <2>1. Er!ThreadTells(t)'
      BY <1>11, <1>12 DEF Er!ThreadTells
    <2> QED
      BY <1>0, <1>1, <1>8, <2>1, OthersTell
  <1> QED
    BY <1>2, <1>6, <1>9, <1>13 DEF Er!ErrorsInv

\* The lock is given back after a whole error, or the process has ended.
LEMMA ReportUnlockKeeps ==
    ASSUME Er!ErrorsInv, NEW t \in Reporters, Er!Unlock(t)
    PROVE  Er!ErrorsInv'
  <1> USE NamesAssumption DEF Er!Unlock, Er!Aborts, Er!Runs, Er!Goto
  <1>0. Er!TypeOK /\ Er!LockHeld /\ Er!LinesWhole /\ \A u \in Reporters : Er!ThreadTells(u)
    BY DEF Er!ErrorsInv
  <1>1. Er!TypeOK'
    BY <1>0 DEF Er!TypeOK, Er!Told
  <1>2. CASE v6[t] \notin {"warning", "user"}
    BY <1>0, <1>1, <1>2 DEF Er!ErrorsInv, Er!LockHeld, Er!LinesWhole, Er!ThreadTells, Er!StageKnown,
          Er!BufferDue, Er!EndsThere, Er!BlankKept, Er!Ends
  <1>3. CASE v6[t] \in {"warning", "user"}
    <2>1. v5[t] = "printed" /\ v5'[t] = "return" /\ \A u \in Reporters \ {t} : v5'[u] = v5[u]
      BY <1>0, <1>3 DEF Er!TypeOK
    <2>2. v2 = t /\ \A u \in Reporters \ {t} : v5[u] \notin Er!Printing
      BY <1>0, <2>1 DEF Er!LockHeld, Er!Printing
    <2>3. Er!LockHeld'
      BY <1>3, <2>1, <2>2 DEF Er!LockHeld, Er!Printing
    <2>4. Er!LinesWhole'
      BY <1>0, <2>1 DEF Er!LinesWhole
    <2>5. Er!ThreadTells(t)'
      BY <1>0, <1>3, <2>1 DEF Er!ThreadTells, Er!StageKnown, Er!BufferDue, Er!EndsThere, Er!BlankKept,
                              Er!Ends, Er!Resting, Er!Untold, Er!Told, Er!Printing
    <2>6. \A u \in Reporters : Er!ThreadTells(u)'
      BY <1>0, <2>1, <2>5, OthersTell
    <2> QED
      BY <1>1, <2>3, <2>4, <2>6 DEF Er!ErrorsInv
  <1> QED
    BY <1>2, <1>3

\* The end of ucb_error_report; after a user error it is the end of the process.
LEMMA ReturnKeeps ==
    ASSUME Er!ErrorsInv, NEW t \in Reporters, Er!Return(t) \/ Er!GoOn(t)
    PROVE  Er!ErrorsInv'
  <1> USE DEF Er!Return, Er!GoOn, Er!Leaves, Er!Runs, Er!Goto, Er!shared
  <1>0. Er!TypeOK /\ Er!LockHeld /\ Er!LinesWhole /\ \A u \in Reporters : Er!ThreadTells(u)
    BY DEF Er!ErrorsInv
  <1>1. CASE Er!Return(t) \/ (Er!GoOn(t) /\ v6[t] # "user")
    <2>1. PICK to \in Er!Resting \cup {"left"} :
             /\ v5[t] \in {"return", "left"} /\ v5' = [v5 EXCEPT ![t] = to]
             /\ to # "left" => v6[t] # "user" /\ to = v7[t]
             /\ v9' \in [Reporters -> 0..1] /\ v9'[t] = 0 /\ \A u \in Reporters \ {t} : v9'[u] = v9[u]
             /\ UNCHANGED <<v1, v2, v3, v4, v6, v7, v8, v10, v12, v13>>
      <3>1. v9 \in [Reporters -> 0..1] /\ v7[t] \in Er!Resting /\ Er!StageKnown(t)
        BY <1>0 DEF Er!TypeOK, Er!ThreadTells
      <3>2. CASE Er!Return(t)
        <4>1. v5[t] = "return" /\ v9[t] = 1
          BY <3>1, <3>2 DEF Er!StageKnown, Er!Resting
        <4>2. v9' = [v9 EXCEPT ![t] = @ - 1] /\ v5' = [v5 EXCEPT ![t] = "left"]
              /\ UNCHANGED <<v1, v2, v3, v4, v6, v7, v8, v10, v12, v13>>
          BY <3>2
        <4>3. /\ v9' \in [Reporters -> 0..1] /\ v9'[t] = 0
              /\ \A u \in Reporters \ {t} : v9'[u] = v9[u]
          BY <3>1, <4>1, <4>2
        <4> QED
          BY <4>1, <4>2, <4>3
      <3>3. CASE Er!GoOn(t) /\ v6[t] # "user"
        <4>1. v5[t] = "left" /\ v9[t] = 0
          BY <3>1, <3>3 DEF Er!StageKnown
        <4>2. v5' = [v5 EXCEPT ![t] = v7[t]]
              /\ UNCHANGED <<v1, v2, v3, v4, v6, v7, v8, v9, v10, v12, v13>>
          BY <3>3
        <4> QED
          BY <3>1, <3>3, <4>1, <4>2
      <3> QED
        BY <1>1, <3>2, <3>3
    <2>2. Er!TypeOK'
      BY <1>0, <2>1 DEF Er!TypeOK, Er!Told
    <2>3. v5'[t] = to /\ \A u \in Reporters \ {t} : v5'[u] = v5[u]
      BY <1>0, <2>1 DEF Er!TypeOK
    <2>4. Er!LockHeld'
      BY <1>0, <2>1, <2>3 DEF Er!LockHeld, Er!Printing, Er!Resting
    <2>5. Er!LinesWhole'
      BY <1>0, <2>1, <2>3 DEF Er!LinesWhole, Er!Resting
    <2>6. Er!ThreadTells(t)'
      BY <1>0, <2>1, <2>3 DEF Er!ThreadTells, Er!StageKnown, Er!BufferDue, Er!EndsThere, Er!BlankKept,
                              Er!Ends, Er!Resting, Er!Untold, Er!Told, Er!Printing
    <2>7. \A u \in Reporters : Er!ThreadTells(u)'
      BY <1>0, <2>1, <2>3, <2>6, OthersTell
    <2> QED
      BY <2>2, <2>4, <2>5, <2>7 DEF Er!ErrorsInv
  <1>2. CASE Er!GoOn(t) /\ v6[t] = "user"
    BY <1>0, <1>2 DEF Er!ErrorsInv, Er!TypeOK, Er!LockHeld, Er!LinesWhole, Er!ThreadTells, Er!StageKnown,
          Er!BufferDue, Er!EndsThere, Er!BlankKept, Er!Ends
  <1> QED
    BY <1>1, <1>2

LEMMA ErrorsStep == Er!ErrorsInv /\ Er!Next => Er!ErrorsInv'
  BY CallsKeep, ThrowsKeep, HandleKeeps, ReportLockKeeps, PrintKeeps, ReportUnlockKeeps, ReturnKeeps
  DEF Er!Next

LEMMA ErrorsCorrect == Er!ErrorsInv => Er!ErrorsTold
  <1> SUFFICES ASSUME Er!ErrorsInv PROVE Er!ErrorsTold
    OBVIOUS
  <1>1. Er!LinesWhole /\ \A t \in Reporters :
           Er!StageKnown(t) /\ Er!BufferDue(t) /\ Er!EndsThere(t) /\ Er!BlankKept(t)
    BY DEF Er!ErrorsInv, Er!ThreadTells
  <1>2. \A t \in Reporters : v5[t] \in Er!Resting => v13[t] = v12[t]
    BY <1>1 DEF Er!BufferDue, Er!Resting, Er!Untold
  <1>3. \A t \in Reporters : \A i \in 1..Len(v13[t]) : Er!Ends(v13[t][i]) => v5[t] \notin Er!Resting
    BY <1>1 DEF Er!EndsThere, Er!Resting, Er!Told
  <1>4. \A t \in Reporters : v5[t] = "out" => v10[t] # "blank"
    BY <1>1 DEF Er!BlankKept, Er!Resting
  <1> QED
    BY <1>1, <1>2, <1>3, <1>4 DEF Er!ErrorsTold, Er!LinesWhole, Er!Ends, Er!Resting

\* Reports and throws of any number of threads, each with its own buffer and depth, and one
\* lock: every error is told once, whole, and before its thread goes on.
THEOREM ErrorsToldCorrect == MCSpec => []ErrorsTold
  <1> DEFINE Inv == part = "errors" => Er!ErrorsInv
  <1>1. MCInit => Inv
    BY ErrorsInit DEF MCInit
  <1>2. Inv /\ [MCNext]_<<part, vars, others>> => Inv'
    <2> SUFFICES ASSUME Inv, [MCNext]_<<part, vars, others>>, part' = "errors"
                 PROVE  Er!ErrorsInv'
      OBVIOUS
    <2>1. CASE UNCHANGED <<part, vars, others>>
      BY <2>1 DEF others, Er!ErrorsInv, Er!TypeOK, Er!LockHeld, Er!LinesWhole, Er!ThreadTells,
                  Er!StageKnown, Er!BufferDue, Er!EndsThere, Er!BlankKept, Er!Ends
    <2>2. CASE MCNext
      BY <2>2, ErrorsStep DEF MCNext
    <2> QED
      BY <2>1, <2>2
  <1>3. Inv => ErrorsTold
    BY ErrorsCorrect DEF ErrorsTold
  <1> QED
    BY <1>1, <1>2, <1>3, PTL DEF MCSpec
-----------------------------------------------------------------------------
(* The copy and the move of a file: v1, v2 ... are the variables of        *)
(* FileCopy.                                                               *)

\* What a name may have is not None.
LEMMA EntriesKnown ==
    /\ \A e \in Fc!Entries : e # None
    /\ Fc!File("S") \in Fc!Entries /\ Fc!Link("S") \in Fc!Entries /\ Fc!Dir("S") \in Fc!Entries
    /\ Fc!File("D") \in Fc!Entries /\ Fc!Link("D") \in Fc!Entries /\ Fc!Dir("D") \in Fc!Entries
    /\ Fc!File("O") \in Fc!Entries /\ Fc!NewFile \in Fc!Entries
  BY EntriesAssumption DEF Fc!Entries, Fc!File, Fc!Link, Fc!Dir, Fc!NewFile

\* Nothing has happened.
LEMMA CopyInit == Fc!Init => Fc!CopyInv
  <1> SUFFICES ASSUME Fc!Init PROVE Fc!CopyInv
    OBVIOUS
  <1> USE DEF Fc!Init
  <1>1. PICK s \in {None, Fc!File("S"), Fc!Link("S"), Fc!Dir("S")},
             d \in {None, Fc!File("D"), Fc!Link("D"), Fc!Dir("D")} :
           v5 = [n \in Fc!Names |-> IF n = "src" THEN s ELSE IF n = "dst" THEN d ELSE None]
    OBVIOUS
  <1>2. v5["src"] = s /\ v5["dst"] = d /\ v5["tmp"] = None /\ v11 = v5
    BY <1>1 DEF Fc!Names
  <1>3. Fc!TypeOK
    BY <1>1, EntriesKnown DEF Fc!TypeOK, Fc!Names
  <1>4. Fc!ArgsOK
    BY <1>2 DEF Fc!ArgsOK, Fc!Early
  <1>5. Fc!QueriesHold
    BY <1>2 DEF Fc!QueriesHold, Fc!Payload, Fc!Ended
  <1>6. Fc!EntriesAt
    BY <1>2 DEF Fc!EntriesAt, Fc!Untouched, Fc!Early, Fc!Payload, Fc!Ended
  <1> QED
    BY <1>3, <1>4, <1>5, <1>6 DEF Fc!CopyInv, Fc!Ended, Fc!FailureLeavesNothing, Fc!SuccessIsComplete

\* The steps before the first system call that changes anything: a call that ends here has
\* left everything as it was.
LEMMA QueriesKeep ==
    ASSUME Fc!CopyInv,
           \/ Fc!CopySource \/ Fc!CopyDest \/ Fc!Stage
           \/ Fc!MoveSource \/ Fc!MoveDest \/ Fc!RenameFails \/ Fc!RenameAcross
    PROVE  Fc!CopyInv'
  <1> USE DEF Fc!Goto, Fc!Returns, Fc!args, Fc!Has
  <1>0. Fc!TypeOK /\ Fc!ArgsOK /\ Fc!QueriesHold /\ Fc!EntriesAt
    BY DEF Fc!CopyInv
  <1>1. /\ UNCHANGED <<v1, v2, v3, v4, v5, v11, v12>> /\ v6 \in Fc!Early
        /\ v6' \in Fc!Early \/ (v6' = "returned" /\ v10' = FALSE)
    BY DEF Fc!CopySource, Fc!CopyDest, Fc!Stage, Fc!MoveSource, Fc!MoveDest, Fc!RenameFails,
           Fc!RenameAcross, Fc!Across, Fc!QuerySource, Fc!QueryDest, Fc!Early
  <1>2. v5["tmp"] = None /\ Fc!Untouched(v3) /\ v5["src"] = v11["src"]
    BY <1>0, <1>1 DEF Fc!EntriesAt, Fc!Early, Fc!Ended
  <1>3. Fc!TypeOK'
    <2>1. v5["src"] # None => v5["src"].kind \in {"file", "link", "dir"}
      BY <1>0, EntriesKnown DEF Fc!TypeOK, Fc!Names, Fc!Entries
    <2>2. v7' \in {"none", "file", "link", "dir"}
      BY <1>0, <2>1 DEF Fc!TypeOK, Fc!CopySource, Fc!CopyDest, Fc!Stage, Fc!MoveSource, Fc!MoveDest, Fc!RenameFails,
           Fc!RenameAcross, Fc!Across, Fc!QuerySource, Fc!QueryDest
    <2>3. v8' \in BOOLEAN
      BY <1>0 DEF Fc!TypeOK, Fc!CopySource, Fc!CopyDest, Fc!Stage, Fc!MoveSource, Fc!MoveDest, Fc!RenameFails,
           Fc!RenameAcross, Fc!Across, Fc!QuerySource, Fc!QueryDest
    <2>4. v9' \in Fc!Names
      BY <1>0 DEF Fc!TypeOK, Fc!ArgsOK, Fc!Staged, Fc!Names, Fc!CopySource, Fc!CopyDest, Fc!Stage, Fc!MoveSource, Fc!MoveDest, Fc!RenameFails,
           Fc!RenameAcross, Fc!Across, Fc!QuerySource, Fc!QueryDest
    <2>5. v10' \in BOOLEAN
      BY <1>0 DEF Fc!TypeOK, Fc!CopySource, Fc!CopyDest, Fc!Stage, Fc!MoveSource, Fc!MoveDest, Fc!RenameFails,
           Fc!RenameAcross, Fc!Across, Fc!QuerySource, Fc!QueryDest
    <2> QED
      BY <1>0, <1>1, <2>2, <2>3, <2>4, <2>5 DEF Fc!TypeOK
  <1>7. Fc!ArgsOK'
    BY <1>0, <1>1 DEF Fc!ArgsOK, Fc!Ended
  <1>8. Fc!QueriesHold'
    <2>0. Fc!QueriesHold /\ Fc!ArgsOK
      BY <1>0
    <2>1. CASE Fc!CopySource
      BY <1>1, <1>2, <2>0, <2>1, EntriesKnown
      DEF Fc!CopySource, Fc!QuerySource, Fc!QueriesHold, Fc!Early, Fc!Payload, Fc!Ended
    <2>2. CASE Fc!CopyDest
      BY <1>1, <1>2, <2>0, <2>2, EntriesKnown
      DEF Fc!CopyDest, Fc!QueryDest, Fc!MayCopyTo, Fc!Untouched, Fc!ArgsOK, Fc!QueriesHold, Fc!Early, Fc!Payload, Fc!Ended
    <2>3. CASE Fc!Stage
      BY <1>1, <1>2, <2>0, <2>3, EntriesKnown
      DEF Fc!Stage, Fc!Staged, Fc!QueriesHold, Fc!Early, Fc!Payload, Fc!Ended
    <2>4. CASE Fc!MoveSource
      BY <1>1, <1>2, <2>0, <2>4, EntriesKnown
      DEF Fc!MoveSource, Fc!QuerySource, Fc!QueriesHold, Fc!Early, Fc!Payload, Fc!Ended
    <2>5. CASE Fc!MoveDest
      BY <1>1, <1>2, <2>0, <2>5, EntriesKnown
      DEF Fc!MoveDest, Fc!QueryDest, Fc!QueriesHold, Fc!Early, Fc!Payload, Fc!Ended
    <2>6. CASE Fc!RenameFails
      BY <1>1, <1>2, <2>0, <2>6, EntriesKnown
      DEF Fc!RenameFails, Fc!QueriesHold, Fc!Early, Fc!Payload, Fc!Ended
    <2>7. CASE Fc!RenameAcross
      <3>1. v3 = "dst"
        BY <2>0, <2>7 DEF Fc!RenameAcross, Fc!ArgsOK
      <3>2. v6 = "m_rename" /\ v6' = "c_src" /\ UNCHANGED <<v1, v3, v7, v8, v9, v11>>
        BY <2>7 DEF Fc!RenameAcross, Fc!Across
      <3>3. v1 = "move" /\ v11["src"] # None /\ v7 = v11["src"].kind
        BY <2>0, <3>2 DEF Fc!QueriesHold, Fc!Ended
      <3> QED
        BY <3>1, <3>2, <3>3 DEF Fc!QueriesHold, Fc!Payload, Fc!Ended
    <2> QED
      BY <2>1, <2>2, <2>3, <2>4, <2>5, <2>6, <2>7
  <1>4. Fc!EntriesAt'
    BY <1>0, <1>1, <1>2 DEF Fc!EntriesAt, Fc!Untouched, Fc!Early, Fc!Payload, Fc!Ended
  <1>5. Fc!OriginalIntact' /\ Fc!NothingLost'
    BY <1>0, <1>1, <1>2 DEF Fc!OriginalIntact, Fc!NothingLost, Fc!Complete, Fc!Untouched
  <1>6. Fc!FailureLeavesNothing' /\ Fc!SuccessIsComplete'
    BY <1>1, <1>2 DEF Fc!FailureLeavesNothing, Fc!SuccessIsComplete, Fc!Untouched, Fc!Early
  <1> QED
    BY <1>3, <1>4, <1>5, <1>6, <1>7, <1>8 DEF Fc!CopyInv

\* What a payload makes of an empty name is complete.
LEMMA PayloadComplete ==
    ASSUME Fc!TypeOK, Fc!ArgsOK, v11["src"] # None, v7 = v11["src"].kind, v7 # "dir"
    PROVE  /\ Fc!RecreatesLink => Fc!Link("S") = v11["src"]
           /\ ~Fc!RecreatesLink => Fc!Complete(Fc!File("S"))
  BY DEF Fc!ArgsOK, Fc!RecreatesLink, Fc!Complete, Fc!File, Fc!Link, Fc!Dir

\* fs_copy_link and fs_stream_copy: only the file of the copy is written.
LEMMA PayloadKeeps ==
    ASSUME ~LateErrors, Fc!CopyInv,
           Fc!CopyLink \/ Fc!Open \/ Fc!Write \/ Fc!CopyMeta
    PROVE  Fc!CopyInv'
  <1> USE DEF Fc!Goto, Fc!Becomes, Fc!args, Fc!Has
  <1>0. Fc!TypeOK /\ Fc!ArgsOK /\ Fc!QueriesHold /\ Fc!EntriesAt
    BY DEF Fc!CopyInv
  <1>1. /\ UNCHANGED <<v1, v2, v3, v4, v7, v8, v9, v11, v12>>
        /\ v6 \in {"c_open", "c_write", "c_meta"}
    BY DEF Fc!CopyLink, Fc!Open, Fc!Write, Fc!CopyMeta
  <1>2. /\ v11["src"] # None /\ v7 = v11["src"].kind /\ v7 # "dir" /\ v9 = Fc!Staged
        /\ ~v8 => v3 = "dst" /\ v11["dst"] = None
        /\ v1 = "move" => v3 = "dst"
    BY <1>0, <1>1 DEF Fc!QueriesHold, Fc!Payload, Fc!Ended
  <1>3. /\ v5["src"] = v11["src"]
        /\ v8 => Fc!Untouched(v3)
        /\ ~v8 => v5["tmp"] = None
        /\ v6 = "c_write" => v5[v9] = Fc!NewFile
        /\ v6 = "c_meta" => v5[v9] = [kind |-> "file", text |-> "S", meta |-> "new"]
        /\ v6 # "c_open" => ~Fc!RecreatesLink
    BY <1>0, <1>1 DEF Fc!EntriesAt, Fc!Early, Fc!Payload, Fc!Ended
  <1>4. PICK e \in Fc!Entries :
           /\ v5' = [v5 EXCEPT ![v9] = e]
           /\ v6' \in {"c_write", "c_meta", "c_rename", "remove", "returned"}
           /\ v6' \notin {"c_write", "c_meta"} => v6' = Fc!AfterPayload /\ v10' = TRUE /\ Fc!Complete(e)
           /\ v6' = "c_write" => e = Fc!NewFile
           /\ v6' = "c_meta" => e = [kind |-> "file", text |-> "S", meta |-> "new"]
           /\ v6' \in {"c_write", "c_meta"} => ~Fc!RecreatesLink /\ v10' = v10
    <2>0. Fc!AfterPayload \in {"c_rename", "remove", "returned"}
      BY DEF Fc!AfterPayload, Fc!Copied
    <2>1. CASE Fc!CopyLink
      <3>1. Fc!Complete(Fc!Link("S"))
        BY <1>0, <1>2, <2>1, PayloadComplete DEF Fc!CopyLink, Fc!Complete
      <3> QED
        BY <2>0, <2>1, <3>1, EntriesKnown DEF Fc!CopyLink
    <2>2. CASE Fc!Open
      BY <2>2, EntriesKnown DEF Fc!Open
    <2>3. CASE Fc!Write
      <3>1. [v5[v9] EXCEPT !.text = "S"] = [kind |-> "file", text |-> "S", meta |-> "new"]
        BY <1>3, <2>3 DEF Fc!Write, Fc!NewFile
      <3>2. [kind |-> "file", text |-> "S", meta |-> "new"] \in Fc!Entries
        BY DEF Fc!Entries
      <3> QED
        BY <1>3, <2>3, <3>1, <3>2 DEF Fc!Write
    <2>4. CASE Fc!CopyMeta
      <3>1. [v5[v9] EXCEPT !.meta = "S"] = Fc!File("S")
        BY <1>3, <2>4 DEF Fc!CopyMeta, Fc!File
      <3>2. Fc!Complete(Fc!File("S"))
        BY <1>0, <1>2, <1>3, <2>4, PayloadComplete DEF Fc!CopyMeta
      <3> QED
        BY <2>0, <2>4, <3>1, <3>2, EntriesKnown DEF Fc!CopyMeta
    <2> QED
      BY <2>1, <2>2, <2>3, <2>4
  <1>5. v9 \in Fc!Names /\ v9 # "src" /\ (v8 => v9 = "tmp") /\ (~v8 => v9 = "dst" /\ v3 = "dst")
    BY <1>2 DEF Fc!Staged, Fc!Names
  <1>6. /\ v5'[v9] = e /\ v5'["src"] = v11["src"] /\ v11' = v11
        /\ v8 => v5'[v3] = v5[v3]
        /\ ~v8 => v5'["tmp"] = None
    BY <1>0, <1>1, <1>3, <1>4, <1>5 DEF Fc!TypeOK, Fc!ArgsOK, Fc!Names
  <1>7. Fc!TypeOK'
    BY <1>0, <1>1, <1>4, <1>5 DEF Fc!TypeOK
  <1>8. Fc!ArgsOK'
    BY <1>0, <1>1, <1>4 DEF Fc!ArgsOK, Fc!Payload, Fc!Ended
  <1>9. Fc!QueriesHold'
    BY <1>1, <1>2, <1>4 DEF Fc!QueriesHold, Fc!Staged, Fc!AfterPayload, Fc!Copied, Fc!Payload, Fc!Ended
  <1>10. Fc!EntriesAt'
    BY <1>1, <1>2, <1>3, <1>4, <1>5, <1>6
    DEF Fc!EntriesAt, Fc!Untouched, Fc!Complete, Fc!RecreatesLink, Fc!AfterPayload, Fc!Copied,
        Fc!Early, Fc!Payload, Fc!Ended
  <1>11. v6' = "returned" => v5'[v3] = e /\ Fc!Complete(e) /\ v10' /\ v5'["tmp"] = None /\ v1 # "move" /\ v3 = "dst"
    BY <1>4, <1>5, <1>6 DEF Fc!AfterPayload, Fc!Copied
  <1>12. v6' \in Fc!Ended => Fc!OriginalIntact' /\ Fc!NothingLost'
    BY <1>1, <1>4, <1>11 DEF Fc!OriginalIntact, Fc!NothingLost, Fc!Complete, Fc!Ended
  <1>13. Fc!FailureLeavesNothing' /\ Fc!SuccessIsComplete'
    BY <1>0, <1>1, <1>6, <1>11 DEF Fc!FailureLeavesNothing, Fc!SuccessIsComplete, Fc!Complete, Fc!ArgsOK
  <1> QED
    BY <1>7, <1>8, <1>9, <1>10, <1>12, <1>13 DEF Fc!CopyInv
\* The temporary file, which is complete, takes the place of the destination.
LEMMA StagedKeeps ==
    ASSUME Fc!CopyInv, Fc!RenameStaged
    PROVE  Fc!CopyInv'
  <1> USE DEF Fc!RenameStaged, Fc!Goto, Fc!args
  <1>0. Fc!TypeOK /\ Fc!ArgsOK /\ Fc!QueriesHold /\ Fc!EntriesAt
    BY DEF Fc!CopyInv
  <1>1. /\ v6 = "c_rename" /\ v6' = Fc!Copied /\ v6' \in {"remove", "returned"}
        /\ UNCHANGED <<v1, v2, v3, v4, v7, v8, v9, v10, v11, v12>>
    BY DEF Fc!Copied
  <1>2. /\ v8 /\ v10 /\ Fc!Complete(v5["tmp"]) /\ v5["src"] = v11["src"]
        /\ v11["src"] # None /\ v7 = v11["src"].kind /\ v7 # "dir" /\ (v1 = "move" => v3 = "dst")
    BY <1>0, <1>1 DEF Fc!EntriesAt, Fc!QueriesHold, Fc!Payload, Fc!Ended
  <1>3. v3 \in {"src", "dst"}
    BY <1>0 DEF Fc!ArgsOK
  <1>4. /\ v5' \in [Fc!Names -> Fc!Entries \cup {None}] /\ v5'[v3] = v5["tmp"] /\ v5'["tmp"] = None
        /\ v3 = "dst" => v5'["src"] = v11["src"]
    BY <1>0, <1>2, <1>3 DEF Fc!TypeOK, Fc!Names
  <1>5. Fc!TypeOK'
    BY <1>0, <1>1, <1>4 DEF Fc!TypeOK
  <1>6. Fc!ArgsOK'
    BY <1>0, <1>1 DEF Fc!ArgsOK, Fc!Ended
  <1>7. Fc!QueriesHold'
    BY <1>1, <1>2 DEF Fc!QueriesHold, Fc!Copied, Fc!Payload, Fc!Ended
  <1>8. Fc!EntriesAt'
    BY <1>1, <1>2, <1>4 DEF Fc!EntriesAt, Fc!Complete, Fc!Copied, Fc!Early, Fc!Payload, Fc!Ended
  <1>9. Fc!OriginalIntact' /\ Fc!NothingLost'
    BY <1>1, <1>2, <1>4 DEF Fc!OriginalIntact, Fc!NothingLost, Fc!Complete
  <1>10. Fc!FailureLeavesNothing' /\ Fc!SuccessIsComplete'
    BY <1>1, <1>2, <1>3, <1>4 DEF Fc!FailureLeavesNothing, Fc!SuccessIsComplete, Fc!Complete, Fc!Copied
  <1> QED
    BY <1>5, <1>6, <1>7, <1>8, <1>9, <1>10 DEF Fc!CopyInv

\* What has failed is removed, if that succeeds.
LEMMA FailureKeeps ==
    ASSUME Fc!CopyInv, Fc!CopyFails \/ Fc!CleanUp
    PROVE  Fc!CopyInv'
  <1> USE DEF Fc!Goto, Fc!Becomes, Fc!args
  <1>0. Fc!TypeOK /\ Fc!ArgsOK /\ Fc!QueriesHold /\ Fc!EntriesAt
    BY DEF Fc!CopyInv
  <1>1. CASE Fc!CopyFails
    <2>1. /\ v6 \in {"c_open"} \cup Fc!Payload /\ v6' = "c_clean" /\ v10' = FALSE
          /\ UNCHANGED <<v1, v2, v3, v4, v5, v7, v8, v9, v11, v12>>
      BY <1>1 DEF Fc!CopyFails, Fc!AfterFailure, Fc!Payload
    <2>2. Fc!TypeOK'
      BY <1>0, <2>1 DEF Fc!TypeOK
    <2>3. Fc!ArgsOK'
      BY <1>0, <2>1 DEF Fc!ArgsOK, Fc!Payload
    <2>4. Fc!QueriesHold'
      BY <1>0, <2>1 DEF Fc!QueriesHold, Fc!Staged, Fc!Payload, Fc!Ended
    <2>5. Fc!EntriesAt'
      BY <1>0, <2>1 DEF Fc!EntriesAt, Fc!Untouched, Fc!Early, Fc!Payload, Fc!Ended
    <2> QED
      BY <2>1, <2>2, <2>3, <2>4, <2>5 DEF Fc!CopyInv, Fc!Ended, Fc!FailureLeavesNothing, Fc!SuccessIsComplete
  <1>2. CASE Fc!CleanUp
    <2>1. /\ v6 = "c_clean" /\ v6' = "returned" /\ ~v10 /\ v12' \in {v12, TRUE}
          /\ v5' = [v5 EXCEPT ![v9] = None] \/ (v5' = v5 /\ v12' = TRUE)
          /\ UNCHANGED <<v1, v2, v3, v4, v7, v8, v9, v10, v11>>
      BY <1>0, <1>2 DEF Fc!CleanUp, Fc!EntriesAt
    <2>2. /\ v11["src"] # None /\ v9 = Fc!Staged /\ v5["src"] = v11["src"]
          /\ v8 => Fc!Untouched(v3)
          /\ ~v8 => v5["tmp"] = None /\ v3 = "dst" /\ v11["dst"] = None
          /\ v1 = "move" => v3 = "dst"
      BY <1>0, <2>1 DEF Fc!QueriesHold, Fc!EntriesAt, Fc!Payload, Fc!Ended
    <2>3. v9 \in {"dst", "tmp"} /\ (v8 => v9 = "tmp") /\ (~v8 => v9 = "dst") /\ v3 \in {"src", "dst"}
      BY <1>0, <2>2 DEF Fc!Staged, Fc!ArgsOK
    <2>4. /\ v5' \in [Fc!Names -> Fc!Entries \cup {None}] /\ v5'["src"] = v11["src"]
          /\ v8 => v5'[v3] = v5[v3]
          /\ v12' \/ (v5'["tmp"] = None /\ (~v8 => v5'["dst"] = None))
      <3>1. v5 \in [Fc!Names -> Fc!Entries \cup {None}]
        BY <1>0 DEF Fc!TypeOK
      <3>2. CASE v5' = [v5 EXCEPT ![v9] = None]
        <4>1. v5' \in [Fc!Names -> Fc!Entries \cup {None}] /\ v5'[v9] = None
              /\ \A n \in Fc!Names : n # v9 => v5'[n] = v5[n]
          BY <2>3, <3>1, <3>2 DEF Fc!Names
        <4>2. v5'["src"] = v5["src"] /\ (v9 # v3 => v5'[v3] = v5[v3])
              /\ (v9 # "tmp" => v5'["tmp"] = v5["tmp"])
          BY <2>3, <4>1 DEF Fc!Names
        <4>3. v5'["tmp"] = None
          BY <2>2, <2>3, <4>1, <4>2
        <4>4. v8 => v5'[v3] = v5[v3]
          BY <2>3, <4>2
        <4>5. ~v8 => v5'["dst"] = None
          BY <2>3, <4>1
        <4> QED
          BY <2>2, <4>1, <4>2, <4>3, <4>4, <4>5
      <3>3. CASE v5' = v5 /\ v12'
        BY <2>2, <3>1, <3>3
      <3> QED
        BY <2>1, <3>2, <3>3
    <2>5. Fc!TypeOK'
      BY <1>0, <2>1, <2>4 DEF Fc!TypeOK
    <2>6. Fc!ArgsOK'
      BY <1>0, <2>1 DEF Fc!ArgsOK, Fc!Ended
    <2>7. Fc!QueriesHold' /\ Fc!EntriesAt'
      BY <2>1 DEF Fc!QueriesHold, Fc!EntriesAt, Fc!Early, Fc!Payload, Fc!Ended
    <2>8. Fc!OriginalIntact' /\ Fc!NothingLost'
      BY <2>1, <2>2, <2>4 DEF Fc!OriginalIntact, Fc!NothingLost, Fc!Untouched, Fc!Complete
    <2>9. Fc!FailureLeavesNothing' /\ Fc!SuccessIsComplete'
      BY <2>1, <2>2, <2>3, <2>4 DEF Fc!FailureLeavesNothing, Fc!SuccessIsComplete, Fc!Untouched
    <2> QED
      BY <2>5, <2>6, <2>7, <2>8, <2>9 DEF Fc!CopyInv
  <1> QED
    BY <1>1, <1>2

\* rename(2) and the removal of the source.
LEMMA MoveKeeps ==
    ASSUME Fc!CopyInv, Fc!Rename \/ Fc!RemoveSource
    PROVE  Fc!CopyInv'
  <1> USE DEF Fc!Goto, Fc!Returns, Fc!Becomes, Fc!args
  <1>0. Fc!TypeOK /\ Fc!ArgsOK /\ Fc!QueriesHold /\ Fc!EntriesAt
    BY DEF Fc!CopyInv
  <1>1. v3 \in {"src", "dst"}
    BY <1>0 DEF Fc!ArgsOK
  <1>2. /\ v6' = "returned" /\ v10' \in BOOLEAN
        /\ UNCHANGED <<v1, v2, v3, v4, v7, v8, v9, v11, v12>>
    BY DEF Fc!Rename, Fc!RemoveSource
  <1>3. v1 = "move" /\ v5["src"] = v11["src"] /\ v5["tmp"] = None
    BY <1>0 DEF Fc!Rename, Fc!RemoveSource, Fc!QueriesHold, Fc!EntriesAt, Fc!Early, Fc!Ended
  <1>4. /\ v5' \in [Fc!Names -> Fc!Entries \cup {None}] /\ v5'["tmp"] = None
        /\ Fc!Complete(v5'[v3])
        /\ v10' => (v3 # "src" => v5'["src"] = None)
    <2>1. CASE Fc!Rename
      BY <1>0, <1>1, <1>3, <2>1 DEF Fc!Rename, Fc!TypeOK, Fc!Names, Fc!Complete
    <2>2. CASE Fc!RemoveSource
      <3>1. v3 = "dst" /\ Fc!Complete(v5[v3])
        BY <1>0, <1>3, <2>2 DEF Fc!RemoveSource, Fc!QueriesHold, Fc!EntriesAt
      <3> QED
        BY <1>0, <1>3, <2>2, <3>1 DEF Fc!RemoveSource, Fc!TypeOK, Fc!Names
    <2> QED
      BY <2>1, <2>2
  <1>5. Fc!TypeOK'
    BY <1>0, <1>2, <1>4 DEF Fc!TypeOK
  <1>6. Fc!ArgsOK'
    BY <1>0, <1>2 DEF Fc!ArgsOK, Fc!Ended
  <1>7. Fc!QueriesHold' /\ Fc!EntriesAt'
    BY <1>2 DEF Fc!QueriesHold, Fc!EntriesAt, Fc!Early, Fc!Payload, Fc!Ended
  <1>8. Fc!OriginalIntact' /\ Fc!NothingLost'
    BY <1>2, <1>4 DEF Fc!OriginalIntact, Fc!NothingLost, Fc!Complete
  <1>9. Fc!FailureLeavesNothing' /\ Fc!SuccessIsComplete'
    BY <1>2, <1>3, <1>4 DEF Fc!FailureLeavesNothing, Fc!SuccessIsComplete, Fc!Complete
  <1> QED
    BY <1>5, <1>6, <1>7, <1>8, <1>9 DEF Fc!CopyInv

\* Another program, at any moment.
LEMMA OthersKeep ==
    ASSUME Fc!CopyInv, Fc!OtherCreates
    PROVE  Fc!CopyInv'
  <1> USE DEF Fc!OtherCreates, Fc!Becomes, Fc!args, Fc!Has, Fc!Running
  <1>0. Fc!TypeOK /\ Fc!ArgsOK /\ Fc!QueriesHold /\ Fc!EntriesAt
    BY DEF Fc!CopyInv
  <1>1. /\ v6 \notin Fc!Ended /\ v3 = "dst" /\ v5["dst"] = None
        /\ UNCHANGED <<v1, v2, v3, v4, v6, v7, v8, v9, v10, v11, v12>>
    BY DEF Fc!Ended
  <1>2. /\ v5' \in [Fc!Names -> Fc!Entries \cup {None}] /\ v5'["dst"] = Fc!File("O")
        /\ v5'["src"] = v5["src"] /\ v5'["tmp"] = v5["tmp"]
    BY <1>0, <1>1, EntriesKnown DEF Fc!TypeOK, Fc!Names
  <1>3. v6 # "remove"
    <2>1. v6 = "remove" => v11["src"] # None /\ Fc!Complete(v5["dst"])
      BY <1>0, <1>1 DEF Fc!QueriesHold, Fc!EntriesAt, Fc!Ended
    <2> QED
      BY <1>1, <2>1, EntriesKnown DEF Fc!Complete
  <1>4. Fc!TypeOK'
    BY <1>0, <1>1, <1>2 DEF Fc!TypeOK
  <1>5. Fc!ArgsOK'
    BY <1>0, <1>1 DEF Fc!ArgsOK
  <1>6. Fc!QueriesHold'
    BY <1>0, <1>1 DEF Fc!QueriesHold, Fc!Staged
  <1>7. Fc!Untouched("dst") => Fc!Untouched("dst")'
    BY <1>1, <1>2, EntriesKnown DEF Fc!Untouched
  <1>8. v6 \in {"c_write", "c_meta"} => v9 # "dst"
    <2>1. [kind |-> "file", text |-> "S", meta |-> "new"] \in Fc!Entries
      BY DEF Fc!Entries
    <2> QED
      BY <1>0, <1>1, <2>1, EntriesKnown DEF Fc!EntriesAt
  <1>9. v9 \in Fc!Names /\ (v9 # "dst" => v5'[v9] = v5[v9])
    BY <1>0, <1>2 DEF Fc!TypeOK, Fc!Names
  <1>10. Fc!EntriesAt'
    BY <1>0, <1>1, <1>2, <1>3, <1>7, <1>8, <1>9
    DEF Fc!EntriesAt, Fc!RecreatesLink, Fc!Complete, Fc!Early, Fc!Payload, Fc!Ended
  <1> QED
    BY <1>1, <1>4, <1>5, <1>6, <1>10
    DEF Fc!CopyInv, Fc!FailureLeavesNothing, Fc!SuccessIsComplete, Fc!Ended

\* Between the system calls, too, the source and the destination are whole.
LEMMA CopyCorrect ==
    Fc!CopyInv => /\ Fc!OriginalIntact /\ Fc!FailureLeavesNothing
                  /\ Fc!SuccessIsComplete /\ Fc!NothingLost
  <1> SUFFICES ASSUME Fc!CopyInv, v6 \notin Fc!Ended PROVE Fc!OriginalIntact /\ Fc!NothingLost
    BY DEF Fc!CopyInv
  <1>0. Fc!ArgsOK /\ Fc!QueriesHold /\ Fc!EntriesAt
    BY DEF Fc!CopyInv
  <1>1. v6 \in Fc!Early \cup Fc!Payload \cup {"remove"} /\ v3 \in {"src", "dst"}
    BY <1>0 DEF Fc!ArgsOK
  <1>2. v5["src"] = v11["src"]
    BY <1>0 DEF Fc!EntriesAt
  <1>3. v11[v3] = None \/ Fc!Untouched(v3) \/ Fc!Complete(v5[v3])
    <2>1. CASE v6 \in Fc!Early \/ v6 = "remove" \/ (v6 \in Fc!Payload /\ v8)
      BY <1>0, <2>1 DEF Fc!EntriesAt
    <2>2. CASE v6 \in Fc!Payload /\ ~v8
      BY <1>0, <2>2 DEF Fc!QueriesHold
    <2> QED
      BY <1>1, <2>1, <2>2
  <1> QED
    BY <1>2, <1>3 DEF Fc!OriginalIntact, Fc!NothingLost, Fc!Complete, Fc!Untouched

\* The program dies, at any moment.
LEMMA CrashKeeps ==
    ASSUME Fc!CopyInv, Fc!Crash
    PROVE  Fc!CopyInv'
  <1> USE DEF Fc!Crash, Fc!Goto, Fc!args, Fc!Running
  <1>0. Fc!TypeOK /\ Fc!ArgsOK /\ Fc!QueriesHold /\ Fc!EntriesAt
    BY DEF Fc!CopyInv
  <1>1. /\ v6 \in Fc!Early \cup Fc!Payload \cup {"remove"} /\ v6' = "crashed" /\ v3 \in {"src", "dst"}
        /\ UNCHANGED <<v1, v2, v3, v4, v5, v7, v8, v9, v10, v11, v12>>
    BY <1>0 DEF Fc!ArgsOK, Fc!Ended
  <1>2. Fc!TypeOK'
    BY <1>0, <1>1 DEF Fc!TypeOK
  <1>3. Fc!ArgsOK'
    BY <1>0, <1>1 DEF Fc!ArgsOK, Fc!Ended
  <1>4. Fc!QueriesHold' /\ Fc!EntriesAt'
    BY <1>1 DEF Fc!QueriesHold, Fc!EntriesAt, Fc!Early, Fc!Payload, Fc!Ended
  <1>5. Fc!OriginalIntact /\ Fc!NothingLost
    BY CopyCorrect
  <1>6. Fc!OriginalIntact' /\ Fc!NothingLost'
    BY <1>1, <1>5 DEF Fc!OriginalIntact, Fc!NothingLost, Fc!Complete
  <1> QED
    BY <1>1, <1>2, <1>3, <1>4, <1>6 DEF Fc!CopyInv, Fc!FailureLeavesNothing, Fc!SuccessIsComplete

LEMMA CopyStep == ~LateErrors /\ Fc!CopyInv /\ Fc!Next => Fc!CopyInv'
  BY QueriesKeep, PayloadKeeps, StagedKeeps, FailureKeeps, MoveKeeps, OthersKeep, CrashKeeps DEF Fc!Next


LEMMA CopyStutters == Fc!CopyInv /\ UNCHANGED others => Fc!CopyInv'
  BY DEF others, Fc!CopyInv, Fc!TypeOK, Fc!ArgsOK, Fc!QueriesHold, Fc!EntriesAt, Fc!Untouched, Fc!Staged,
         Fc!RecreatesLink, Fc!Complete, Fc!OriginalIntact, Fc!NothingLost, Fc!FailureLeavesNothing, Fc!SuccessIsComplete

\* If close reports no late error, the invariant of the copy holds in every reachable state.
THEOREM CopyInvariance ==
    ASSUME ~LateErrors
    PROVE  MCSpec => [](part = "copy" => Fc!CopyInv)
  <1> DEFINE Inv == part = "copy" => Fc!CopyInv
  <1>1. MCInit => Inv
    BY CopyInit DEF MCInit
  <1>2. Inv /\ [MCNext]_<<part, vars, others>> => Inv'
    <2> SUFFICES ASSUME Inv, [MCNext]_<<part, vars, others>>, part' = "copy"
                 PROVE  Fc!CopyInv'
      OBVIOUS
    <2>1. CASE UNCHANGED <<part, vars, others>>
      BY <2>1, CopyStutters
    <2>2. CASE MCNext
      BY <2>2, CopyStep DEF MCNext
    <2> QED
      BY <2>1, <2>2
  <1> QED
    BY <1>1, <1>2, PTL DEF MCSpec

\* ucb_fs_copy_file and ucb_fs_move of a file are atomic, with any flags, whatever fails,
\* whatever another program does, and wherever the program dies.
THEOREM CopyAtomic ==
    ASSUME ~LateErrors
    PROVE  MCSpec => []CopyIsAtomic
  <1>1. (part = "copy" => Fc!CopyInv) => CopyIsAtomic
    BY CopyCorrect DEF CopyIsAtomic
  <1> QED
    BY <1>1, CopyInvariance, PTL

\* Of the same calls: one that returns true has done it all, and a move, between devices as
\* well, has the source in one place at least at every moment.
THEOREM CopyComplete ==
    ASSUME ~LateErrors
    PROVE  MCSpec => [](part = "copy" => Fc!SuccessIsComplete /\ Fc!NothingLost)
  <1>1. (part = "copy" => Fc!CopyInv) => (part = "copy" => Fc!SuccessIsComplete /\ Fc!NothingLost)
    BY CopyCorrect
  <1> QED
    BY <1>1, CopyInvariance, PTL
-----------------------------------------------------------------------------
(* Child processes on Windows: v1, v2 ... are the variables of WinProcess. *)

\* No child has been spawned.
LEMMA SpawnInit == Wp!Init => Wp!SpawnInv
  <1> SUFFICES ASSUME Wp!Init PROVE Wp!SpawnInv
    OBVIOUS
  <1> USE DEF Wp!Init, Wp!NoSpawn, Wp!NewSpawn
  <1>1. Wp!NoSpawn \in Wp!Spawns
    BY DEF Wp!Spawns, Wp!Slots
  <1>2. Wp!TypeOK
    BY <1>1 DEF Wp!TypeOK, Wp!Children
  <1>3. Wp!InheritKnown
    BY DEF Wp!InheritKnown
  <1>4. ASSUME NEW t \in Reporters
        PROVE  Wp!SpawnKnown(t)
    BY DEF Wp!SpawnKnown, Wp!MarksKnown, Wp!GivenKnown, Wp!ProcKnown
  <1> QED
    BY <1>2, <1>3, <1>4 DEF Wp!SpawnInv

\* The steps of a thread leave the others what they know.
LEMMA SpawnChanges ==
    ASSUME Wp!SpawnInv, NEW t \in Reporters, Wp!TypeOK', v1' = v1,
           \A u \in Reporters \ {t} :
              /\ v3'[u] = v3[u] /\ v4'[u] = v4[u] /\ v5'[u] = v5[u] /\ v6'[u] = v6[u]
              /\ u \in v7' <=> u \in v7
              /\ v8'[u] = v8[u],
           Wp!MarksKnown(v3'[t], v4'[t]), Wp!GivenKnown(v4'[t], v5'[t], v6'[t]),
           Wp!ProcKnown(v3'[t], v4'[t], v6'[t], t \in v7', v8'[t]),
           Wp!InheritKnown'
    PROVE  Wp!SpawnInv'
  <1>1. ASSUME NEW u \in Reporters PROVE Wp!SpawnKnown(u)'
    <2>1. CASE u = t
      BY <2>1 DEF Wp!SpawnKnown, Wp!MarksKnown, Wp!GivenKnown, Wp!ProcKnown
    <2>2. CASE u # t
      <3>1. Wp!SpawnKnown(u)
        BY DEF Wp!SpawnInv
      <3> QED
        BY <2>2, <3>1 DEF Wp!SpawnKnown, Wp!MarksKnown, Wp!GivenKnown, Wp!ProcKnown
    <2> QED
      BY <2>1, <2>2
  <1> QED
    BY <1>1 DEF Wp!SpawnInv

\* A spawn goes on to the next stream, with what it has learned about this one.
LEMMA SlotKeeps ==
    ASSUME Wp!SpawnInv, NEW t \in Reporters, v3[t] \in {"inspect", "mark"},
           NEW r \in Wp!Spawns, Wp!NextSlot(t, r),
           r.std = v4[t].std, r.all = v4[t].all, r.i = v4[t].i, r.created = v4[t].created,
           r.saved \in {v4[t].saved, v4[t].saved \cup {r.i}},
           r.usable \in {v4[t].usable, v4[t].usable \cup {r.i}},
           r.list \in {v4[t].list, v4[t].list \cup {r.std[r.i]}},
           r.i \in r.usable \ r.saved => r.std[r.i] \in WinHandles /\ ~v1[r.std[r.i]],
           \/ v2' = v2
           \/ /\ v2' = [v2 EXCEPT ![r.std[r.i]] = TRUE]
              /\ r.i \in r.usable \ r.saved,
           UNCHANGED <<v1, v5, v6, v7, v8>>
    PROVE  Wp!SpawnInv'
  <1> DEFINE s == v4[t]
             loc == IF r.i < 3 THEN "inspect" ELSE "create"
  <1>0. Wp!TypeOK /\ Wp!InheritKnown /\ Wp!SpawnKnown(t)
    BY DEF Wp!SpawnInv
  <1>1. s \in Wp!Spawns /\ s.i \in 1..3 /\ s.saved \cup s.usable \subseteq 1..(s.i - 1)
    BY <1>0 DEF Wp!SpawnKnown, Wp!MarksKnown, Wp!TypeOK, Wp!Slots
  <1>2. [r EXCEPT !.i = @ + 1] \in Wp!Spawns
    BY <1>1 DEF Wp!Spawns
  <1>3. Wp!TypeOK'
    BY <1>0, <1>2 DEF Wp!TypeOK, Wp!NextSlot, Wp!Goto
  <1>4. /\ v3'[t] = loc /\ v4'[t] = [r EXCEPT !.i = @ + 1]
        /\ \A u \in Reporters \ {t} : v3'[u] = v3[u] /\ v4'[u] = v4[u]
    BY <1>0 DEF Wp!TypeOK, Wp!NextSlot, Wp!Goto
  <1>5. /\ v4'[t].i = s.i + 1 /\ v4'[t].std = s.std /\ v4'[t].all = s.all /\ v4'[t].created = s.created
        /\ v4'[t].saved = r.saved /\ v4'[t].usable = r.usable /\ v4'[t].list = r.list
    BY <1>4 DEF Wp!Spawns
  <1>6. r.saved \cup r.usable \subseteq 1..s.i /\ r.saved \cup r.usable \subseteq Wp!Slots
    BY <1>1 DEF Wp!Slots
  <1>7. \A j \in r.usable \ r.saved : s.std[j] \in WinHandles /\ ~v1[s.std[j]]
    <2> SUFFICES ASSUME NEW j \in r.usable \ r.saved PROVE s.std[j] \in WinHandles /\ ~v1[s.std[j]]
      OBVIOUS
    <2>1. CASE j = s.i
      BY <2>1
    <2>2. CASE j # s.i
      <3>1. j \in s.usable \ s.saved
        BY <2>2
      <3> QED
        BY <1>0, <3>1 DEF Wp!SpawnKnown, Wp!MarksKnown
    <2> QED
      BY <2>1, <2>2
  <1>8. Wp!MarksKnown(v3'[t], v4'[t])
    BY <1>1, <1>4, <1>5, <1>6, <1>7 DEF Wp!MarksKnown, Wp!Slots
  <1>9. Wp!GivenKnown(v4'[t], v5'[t], v6'[t])
    <2>1. v4'[t].list \subseteq {s.std[j] : j \in Wp!Slots}
      BY <1>0, <1>1, <1>5 DEF Wp!SpawnKnown, Wp!GivenKnown, Wp!Slots
    <2>2. v5[t] = {} /\ ~s.created
      BY <1>0 DEF Wp!SpawnKnown, Wp!GivenKnown, Wp!ProcKnown
    <2> QED
      BY <1>0, <1>5, <2>1, <2>2 DEF Wp!SpawnKnown, Wp!GivenKnown
  <1>10. Wp!ProcKnown(v3'[t], v4'[t], v6'[t], t \in v7', v8'[t])
    BY <1>0, <1>4, <1>5 DEF Wp!SpawnKnown, Wp!ProcKnown
  <1>11. Wp!InheritKnown'
    <2>1. ASSUME NEW h \in WinHandles, v1[h] PROVE v2'[h]
      BY <1>0, <2>1 DEF Wp!InheritKnown, Wp!TypeOK
    <2>2. ASSUME NEW h \in WinHandles, v2'[h], ~v1[h]
          PROVE  \E u \in Reporters, j \in Wp!Slots : Wp!Restorer(u, j)' /\ v4'[u].std[j] = h
      <3>1. ASSUME NEW j \in r.usable \ r.saved, s.std[j] = h
            PROVE  j \in Wp!Slots /\ Wp!Restorer(t, j)' /\ v4'[t].std[j] = h
        BY <1>4, <1>5, <1>6, <3>1 DEF Wp!Restorer
      <3>2. CASE v2[h]
        <4>1. PICK u \in Reporters, j \in Wp!Slots : Wp!Restorer(u, j) /\ v4[u].std[j] = h
          BY <1>0, <2>2, <3>2 DEF Wp!InheritKnown
        <4>2. CASE u = t
          <5>1. j \in r.usable \ r.saved
            BY <1>1, <4>1, <4>2 DEF Wp!Restorer
          <5> QED
            BY <3>1, <4>1, <4>2, <5>1
        <4>3. CASE u # t
          BY <1>4, <4>1, <4>3 DEF Wp!Restorer
        <4> QED
          BY <4>2, <4>3
      <3>3. CASE ~v2[h]
        <4>1. r.i \in r.usable \ r.saved /\ s.std[r.i] = h
          BY <1>0, <2>2, <3>3 DEF Wp!TypeOK
        <4> QED
          BY <3>1, <4>1
      <3> QED
        BY <3>2, <3>3
    <2> QED
      BY <2>1, <2>2 DEF Wp!InheritKnown
  <1> HIDE DEF loc, s
  <1> QED
    BY <1>3, <1>4, <1>8, <1>9, <1>10, <1>11, SpawnChanges
\* GetHandleInformation and SetHandleInformation of a stream.
LEMMA MarkingKeeps ==
    ASSUME Wp!SpawnInv, NEW t \in Reporters,
           Wp!Inspect(t) \/ Wp!InspectFails(t) \/ Wp!Mark(t) \/ Wp!MarkFails(t)
    PROVE  Wp!SpawnInv'
  <1> DEFINE s == v4[t]
             h == s.std[s.i]
             saved == [s EXCEPT !.saved = @ \cup {s.i}]
  <1> USE DEF Wp!kernel
  <1>0. Wp!TypeOK /\ Wp!InheritKnown /\ Wp!SpawnKnown(t)
    BY DEF Wp!SpawnInv
  <1>1. v3[t] \in {"inspect", "mark"} /\ UNCHANGED <<v1, v5, v6, v7, v8>>
    BY DEF Wp!Inspect, Wp!InspectFails, Wp!Mark, Wp!MarkFails
  <1>2. s \in Wp!Spawns /\ s.i \in Wp!Slots /\ s.saved \cup s.usable \subseteq 1..(s.i - 1)
    BY <1>0, <1>1 DEF Wp!TypeOK, Wp!SpawnKnown, Wp!MarksKnown
  <1>3. s.i \notin s.usable /\ h \in WinHandles \cup {None} /\ Wp!Std(t) = h
    BY <1>2 DEF Wp!Spawns, Wp!Slots, Wp!Std
  <1>4. CASE v2' = v2 /\ Wp!NextSlot(t, s)
    BY <1>1, <1>2, <1>3, <1>4, SlotKeeps
  <1>5. saved \in Wp!Spawns /\ saved.std = s.std /\ saved.all = s.all /\ saved.i = s.i
        /\ saved.created = s.created /\ saved.saved = s.saved \cup {s.i}
        /\ saved.usable = s.usable /\ saved.list = s.list
    BY <1>2 DEF Wp!Spawns
  <1>6. CASE v2' = v2 /\ Wp!NextSlot(t, saved)
    BY <1>1, <1>3, <1>5, <1>6, SlotKeeps
  <1>7. ASSUME NEW r \in Wp!Spawns, r.std = s.std, r.all = s.all, r.i = s.i, r.created = s.created,
               r.list = s.list, r.usable = s.usable, h \in WinHandles
        PROVE  /\ Wp!Listed(r, h) \in Wp!Spawns /\ Wp!Listed(r, h).std = s.std
               /\ Wp!Listed(r, h).all = s.all /\ Wp!Listed(r, h).i = s.i
               /\ Wp!Listed(r, h).created = s.created /\ Wp!Listed(r, h).saved = r.saved
               /\ Wp!Listed(r, h).usable = s.usable \cup {s.i}
               /\ Wp!Listed(r, h).list = s.list \cup {h}
    BY <1>2, <1>7 DEF Wp!Spawns, Wp!Listed
  <1>8. CASE v2' = v2 /\ h \in WinHandles /\ Wp!NextSlot(t, Wp!Listed(saved, h))
    <2>1. PICK r \in Wp!Spawns :
             /\ r.std = s.std /\ r.all = s.all /\ r.i = s.i /\ r.created = s.created
             /\ r.saved = s.saved \cup {s.i} /\ r.usable = s.usable \cup {s.i}
             /\ r.list = s.list \cup {h} /\ Wp!NextSlot(t, r)
      BY <1>5, <1>7, <1>8
    <2>2. r.i \notin r.usable \ r.saved
      BY <2>1
    <2> QED
      BY <1>1, <1>8, <2>1, <2>2, SlotKeeps
  <1>9. CASE /\ v3[t] = "mark" /\ Wp!NextSlot(t, Wp!Listed(s, h))
             /\ v2' = [v2 EXCEPT ![h] = TRUE]
    <2>1. h \in WinHandles /\ ~v1[h]
      BY <1>0, <1>9 DEF Wp!SpawnKnown, Wp!MarksKnown
    <2>2. PICK r \in Wp!Spawns :
             /\ r.std = s.std /\ r.all = s.all /\ r.i = s.i /\ r.created = s.created
             /\ r.saved = s.saved /\ r.usable = s.usable \cup {s.i}
             /\ r.list = s.list \cup {h} /\ Wp!NextSlot(t, r)
      BY <1>2, <1>7, <1>9, <2>1
    <2>3. r.i \in r.usable \ r.saved /\ r.std[r.i] = h
      BY <1>2, <2>2
    <2> QED
      BY <1>1, <1>9, <2>1, <2>2, <2>3, SlotKeeps
  <1>10. CASE /\ v3[t] = "inspect" /\ v3' = [v3 EXCEPT ![t] = "mark"] /\ v2' = v2 /\ v4' = v4
              /\ h \in WinHandles /\ ~v2[h] /\ ~s.all
    <2>1. Wp!TypeOK'
      BY <1>0, <1>1, <1>10 DEF Wp!TypeOK
    <2>2. v3'[t] = "mark" /\ \A u \in Reporters \ {t} : v3'[u] = v3[u]
      BY <1>0, <1>10 DEF Wp!TypeOK
    <2>3. ~v1[h]
      BY <1>0, <1>10 DEF Wp!InheritKnown
    <2>4. Wp!MarksKnown(v3'[t], v4'[t])
      BY <1>0, <1>10, <2>2, <2>3 DEF Wp!SpawnKnown, Wp!MarksKnown
    <2>5. Wp!GivenKnown(v4'[t], v5'[t], v6'[t])
      BY <1>0, <1>1, <1>10 DEF Wp!SpawnKnown
    <2>6. Wp!ProcKnown(v3'[t], v4'[t], v6'[t], t \in v7', v8'[t])
      BY <1>0, <1>1, <1>10, <2>2 DEF Wp!SpawnKnown, Wp!ProcKnown
    <2>7. Wp!InheritKnown'
      BY <1>0, <1>1, <1>10, <2>2 DEF Wp!InheritKnown, Wp!Restorer
    <2> QED
      BY <1>1, <1>10, <2>1, <2>2, <2>4, <2>5, <2>6, <2>7, SpawnChanges
  <1>11. CASE Wp!Inspect(t)
    <2>1. /\ v3[t] = "inspect" /\ v2' = v2
          /\ \/ Wp!NextSlot(t, s)
             \/ Wp!NextSlot(t, saved)
             \/ h # None /\ Wp!NextSlot(t, Wp!Listed(saved, h))
             \/ h # None /\ ~v2[h] /\ ~s.all /\ Wp!Goto(t, "mark") /\ v4' = v4
      BY <1>3, <1>11 DEF Wp!Inspect
    <2> QED
      BY <1>3, <1>4, <1>6, <1>8, <1>10, <2>1 DEF Wp!Goto
  <1> QED
    BY <1>3, <1>4, <1>9, <1>11 DEF Wp!InspectFails, Wp!Mark, Wp!MarkFails

\* ucb_process_spawn before the streams are looked at.
LEMMA SpawnsKeep ==
    ASSUME Wp!SpawnInv, NEW t \in Reporters, Wp!Spawn(t)
    PROVE  Wp!SpawnInv'
  <1>0. Wp!TypeOK /\ Wp!InheritKnown /\ Wp!SpawnKnown(t)
    BY DEF Wp!SpawnInv
  <1>1. /\ v3[t] = "out" /\ v8[t] = None /\ v3' = [v3 EXCEPT ![t] = "inspect"]
        /\ UNCHANGED <<v1, v2, v5, v6, v7, v8>>
    BY DEF Wp!Spawn, Wp!Goto, Wp!kernel
  <1>2. PICK str \in WinStreams, all \in BOOLEAN : v4' = [v4 EXCEPT ![t] = Wp!NewSpawn(str, all)]
    BY DEF Wp!Spawn
  <1> DEFINE s == Wp!NewSpawn(str, all)
  <1>3. s \in Wp!Spawns
    <2>1. str \in [1..3 -> WinHandles \cup {None}]
      BY WinAssumption
    <2> QED
      BY <2>1 DEF Wp!Spawns, Wp!NewSpawn, Wp!Slots
  <1>4. v4' = [v4 EXCEPT ![t] = s]
    BY <1>2
  <1>5. s.i = 1 /\ s.saved = {} /\ s.usable = {} /\ s.list = {} /\ ~s.created
    BY DEF Wp!NewSpawn
  <1> HIDE DEF s
  <1>6. Wp!TypeOK'
    BY <1>0, <1>1, <1>3, <1>4 DEF Wp!TypeOK
  <1>7. v3'[t] = "inspect" /\ v4'[t] = s /\ \A u \in Reporters \ {t} : v3'[u] = v3[u] /\ v4'[u] = v4[u]
    BY <1>0, <1>1, <1>4 DEF Wp!TypeOK
  <1>8. ~v4[t].created /\ t \notin v7 /\ v5[t] = {} /\ v6[t] = Wp!NoChild
    BY <1>0, <1>1 DEF Wp!SpawnKnown, Wp!GivenKnown, Wp!ProcKnown
  <1>9. Wp!MarksKnown(v3'[t], v4'[t])
    BY <1>7, <1>5 DEF Wp!MarksKnown, Wp!Slots
  <1>10. Wp!GivenKnown(v4'[t], v5'[t], v6'[t])
    BY <1>1, <1>7, <1>8, <1>5 DEF Wp!GivenKnown
  <1>11. Wp!ProcKnown(v3'[t], v4'[t], v6'[t], t \in v7', v8'[t])
    BY <1>1, <1>7, <1>8, <1>5 DEF Wp!ProcKnown
  <1>12. Wp!InheritKnown'
    BY <1>0, <1>1, <1>7 DEF Wp!InheritKnown, Wp!Restorer
  <1> QED
    BY <1>1, <1>6, <1>7, <1>9, <1>10, <1>11, <1>12, SpawnChanges
\* CreateProcessW, and what a thread does with a child that it has.
LEMMA CreatesKeep ==
    ASSUME Wp!SpawnInv, NEW t \in Reporters, Wp!Create(t) \/ Wp!CreateFails(t)
    PROVE  Wp!SpawnInv'
  <1> USE DEF Wp!Goto, Wp!kernel
  <1>0. Wp!TypeOK /\ Wp!InheritKnown /\ Wp!SpawnKnown(t)
    BY DEF Wp!SpawnInv
  <1>1. v3[t] = "create" /\ v3' = [v3 EXCEPT ![t] = "clean"] /\ UNCHANGED <<v1, v2, v8>>
    BY DEF Wp!Create, Wp!CreateFails, Wp!Cleans
  <1> DEFINE s == v4[t]
  <1>2. s \in Wp!Spawns /\ ~s.created /\ v5[t] = {} /\ v6[t] = Wp!NoChild /\ v8[t] = None /\ t \notin v7
    BY <1>0, <1>1 DEF Wp!TypeOK, Wp!SpawnKnown, Wp!GivenKnown, Wp!ProcKnown
  <1>3. PICK r \in Wp!Spawns :
           /\ v4' = [v4 EXCEPT ![t] = r] /\ r.i = 1 /\ r.std = s.std /\ r.all = s.all
           /\ r.saved = s.saved /\ r.usable = s.usable /\ r.list = s.list
           /\ \/ r.created /\ Wp!Create(t)
              \/ ~r.created /\ UNCHANGED <<v5, v6, v7>>
    <2>1. CASE Wp!Create(t)
      <3>1. PICK q \in Wp!Spawns : q = [s EXCEPT !.created = TRUE]
        <4>1. [s EXCEPT !.created = TRUE] \in Wp!Spawns
          BY <1>2 DEF Wp!Spawns
        <4> QED
          BY <4>1
      <3>2. q.created /\ q.std = s.std /\ q.all = s.all /\ q.saved = s.saved /\ q.usable = s.usable
            /\ q.list = s.list
        BY <1>2, <3>1 DEF Wp!Spawns
      <3>3. PICK r \in Wp!Spawns : r = [q EXCEPT !.i = 1]
        <4>1. [q EXCEPT !.i = 1] \in Wp!Spawns
          BY DEF Wp!Spawns
        <4> QED
          BY <4>1
      <3>4. r.i = 1 /\ r.created = q.created /\ r.std = q.std /\ r.all = q.all /\ r.saved = q.saved
            /\ r.usable = q.usable /\ r.list = q.list
        BY <3>3 DEF Wp!Spawns
      <3>5. v4' = [v4 EXCEPT ![t] = r]
        BY <2>1, <3>1, <3>3 DEF Wp!Create, Wp!Cleans
      <3> QED
        BY <2>1, <3>2, <3>4, <3>5
    <2>2. CASE Wp!CreateFails(t)
      <3>1. PICK r \in Wp!Spawns : r = [s EXCEPT !.i = 1]
        <4>1. [s EXCEPT !.i = 1] \in Wp!Spawns
          BY <1>2 DEF Wp!Spawns
        <4> QED
          BY <4>1
      <3>2. r.i = 1 /\ r.created = s.created /\ r.std = s.std /\ r.all = s.all /\ r.saved = s.saved
            /\ r.usable = s.usable /\ r.list = s.list
        BY <1>2, <3>1 DEF Wp!Spawns
      <3>3. v4' = [v4 EXCEPT ![t] = r] /\ UNCHANGED <<v5, v6, v7>>
        BY <2>2, <3>1 DEF Wp!CreateFails, Wp!Cleans
      <3> QED
        BY <1>2, <3>2, <3>3
    <2> QED
      BY <2>1, <2>2
  <1>4. v3'[t] = "clean" /\ v4'[t] = r /\ \A u \in Reporters \ {t} : v3'[u] = v3[u] /\ v4'[u] = v4[u]
    BY <1>0, <1>1, <1>3 DEF Wp!TypeOK
  <1>5. /\ v5' \in [Reporters -> SUBSET WinHandles] /\ v6' \in [Reporters -> Wp!Children]
        /\ v7' \subseteq Reporters
        /\ \A u \in Reporters \ {t} : v5'[u] = v5[u] /\ v6'[u] = v6[u] /\ (u \in v7' <=> u \in v7)
        /\ r.created => /\ v5'[t] = {} \/ r.all \/ v5'[t] \subseteq r.list
                        /\ v6'[t] # Wp!NoChild /\ t \in v7'
        /\ ~r.created => v5'[t] = {} /\ v6'[t] = Wp!NoChild /\ t \notin v7'
    <2>1. CASE r.created /\ Wp!Create(t)
      <3>1. Wp!Inherited(s) \subseteq WinHandles /\ (s.all \/ Wp!Inherited(s) \subseteq s.list)
        BY <1>2 DEF Wp!Inherited, Wp!Inheritable, Wp!Spawns
      <3>2. /\ v5' = [v5 EXCEPT ![t] = Wp!Inherited(s)] /\ v6' = [v6 EXCEPT ![t] = Wp!Running]
            /\ v7' = v7 \cup {t}
        BY <2>1 DEF Wp!Create
      <3>3. v5'[t] = Wp!Inherited(s) /\ v6'[t] = Wp!Running
        BY <1>0, <3>2 DEF Wp!TypeOK
      <3>4. v5' \in [Reporters -> SUBSET WinHandles] /\ v6' \in [Reporters -> Wp!Children]
            /\ \A u \in Reporters \ {t} : v5'[u] = v5[u] /\ v6'[u] = v6[u]
        BY <1>0, <3>1, <3>2 DEF Wp!TypeOK, Wp!Children
      <3>5. Wp!Running # Wp!NoChild
        BY DEF Wp!Running, Wp!NoChild
      <3>6. v7' \subseteq Reporters /\ t \in v7' /\ \A u \in Reporters \ {t} : u \in v7' <=> u \in v7
        BY <1>0, <3>2 DEF Wp!TypeOK
      <3> QED
        BY <1>3, <2>1, <3>1, <3>3, <3>4, <3>5, <3>6
    <2>2. CASE ~r.created /\ UNCHANGED <<v5, v6, v7>>
      BY <1>0, <1>2, <2>2 DEF Wp!TypeOK
    <2> QED
      BY <1>3, <2>1, <2>2
  <1>6. Wp!TypeOK'
    BY <1>0, <1>1, <1>3, <1>5 DEF Wp!TypeOK
  <1>7. Wp!MarksKnown(v3'[t], v4'[t])
    BY <1>0, <1>3, <1>4 DEF Wp!SpawnKnown, Wp!MarksKnown, Wp!Slots
  <1>8. Wp!GivenKnown(v4'[t], v5'[t], v6'[t])
    BY <1>0, <1>3, <1>4, <1>5 DEF Wp!SpawnKnown, Wp!GivenKnown
  <1>9. Wp!ProcKnown(v3'[t], v4'[t], v6'[t], t \in v7', v8'[t])
    BY <1>1, <1>2, <1>4, <1>5 DEF Wp!ProcKnown
  <1>10. Wp!InheritKnown'
    <2>1. \A u \in Reporters, j \in Wp!Slots : Wp!Restorer(u, j) => Wp!Restorer(u, j)' /\ v4'[u].std = v4[u].std
      BY <1>3, <1>4 DEF Wp!Restorer, Wp!Slots
    <2> QED
      BY <1>0, <1>1, <2>1 DEF Wp!InheritKnown
  <1> QED
    BY <1>1, <1>4, <1>5, <1>6, <1>7, <1>8, <1>9, <1>10, SpawnChanges

\* The flags that a spawn has set are taken away, whether there is a child or not.
LEMMA CleansKeep ==
    ASSUME Wp!SpawnInv, NEW t \in Reporters, Wp!Clean(t)
    PROVE  Wp!SpawnInv'
  <1> USE DEF Wp!Goto, Wp!kernel
  <1> DEFINE s == v4[t]
             over == s.i = 3 /\ ~s.created
  <1>0. Wp!TypeOK /\ Wp!InheritKnown /\ Wp!SpawnKnown(t)
    BY DEF Wp!SpawnInv
  <1>1. /\ v3[t] = "clean" /\ UNCHANGED <<v1, v5, v6, v7, v8>>
        /\ v2' = IF Wp!Restores(s) THEN [v2 EXCEPT ![s.std[s.i]] = FALSE] ELSE v2
    BY DEF Wp!Clean
  <1>2. s \in Wp!Spawns /\ s.i \in 1..3 /\ v8[t] = None /\ (t \in v7 <=> s.created)
        /\ \A j \in s.usable \ s.saved : s.std[j] \in WinHandles /\ ~v1[s.std[j]]
    BY <1>0, <1>1 DEF Wp!TypeOK, Wp!SpawnKnown, Wp!MarksKnown, Wp!ProcKnown, Wp!Slots
  <1>3. PICK r \in Wp!Spawns : r = [s EXCEPT !.i = @ + 1]
    <2>1. [s EXCEPT !.i = @ + 1] \in Wp!Spawns
      BY <1>2 DEF Wp!Spawns
    <2> QED
      BY <2>1
  <1>4. r.i = s.i + 1 /\ r.created = s.created /\ r.std = s.std /\ r.all = s.all /\ r.saved = s.saved
        /\ r.usable = s.usable /\ r.list = s.list
    BY <1>2, <1>3 DEF Wp!Spawns
  <1>5. Wp!NoSpawn \in Wp!Spawns /\ Wp!NoSpawn.usable = {} /\ Wp!NoSpawn.list = {} /\ ~Wp!NoSpawn.created
        /\ Wp!NoSpawn.saved = {}
    BY DEF Wp!NoSpawn, Wp!NewSpawn, Wp!Spawns, Wp!Slots
  <1>6. /\ ~over => v4' = [v4 EXCEPT ![t] = r]
        /\ over  => v4' = [v4 EXCEPT ![t] = Wp!NoSpawn]
        /\ s.i < 3 => v3' = [v3 EXCEPT ![t] = "clean"]
        /\ s.i = 3 => v3' = [v3 EXCEPT ![t] = IF s.created THEN "wrap" ELSE "out"]
    <2>1. /\ v4' = [v4 EXCEPT ![t] = IF s.i < 3 \/ s.created THEN [s EXCEPT !.i = @ + 1] ELSE Wp!NoSpawn]
          /\ v3' = [v3 EXCEPT ![t] = IF s.i < 3 THEN "clean" ELSE IF s.created THEN "wrap" ELSE "out"]
      BY DEF Wp!Clean
    <2>2. over <=> ~(s.i < 3 \/ s.created)
      BY <1>2
    <2>3. s.i < 3 <=> s.i # 3
      BY <1>2
    <2> QED
      BY <1>3, <2>1, <2>2, <2>3
  <1>7. v2' \in [WinHandles -> BOOLEAN] /\ \A h \in WinHandles : v2'[h] => v2[h] /\ (v1[h] => v2'[h])
    BY <1>0, <1>1, <1>2 DEF Wp!TypeOK, Wp!Restores, Wp!InheritKnown
  <1>8. Wp!TypeOK'
    BY <1>0, <1>1, <1>2, <1>5, <1>6, <1>7 DEF Wp!TypeOK
  <1>9. /\ ~over => v4'[t] = r
        /\ over  => v4'[t] = Wp!NoSpawn /\ v3'[t] = "out"
        /\ s.i < 3 => v3'[t] = "clean"
        /\ s.i = 3 /\ s.created => v3'[t] = "wrap"
        /\ \A u \in Reporters \ {t} : v3'[u] = v3[u] /\ v4'[u] = v4[u]
    BY <1>0, <1>2, <1>6 DEF Wp!TypeOK
  <1>10. Wp!MarksKnown(v3'[t], v4'[t]) /\ Wp!GivenKnown(v4'[t], v5'[t], v6'[t])
         /\ Wp!ProcKnown(v3'[t], v4'[t], v6'[t], t \in v7', v8'[t])
    <2>1. CASE over
      BY <1>0, <1>1, <1>2, <1>5, <1>9, <2>1
      DEF Wp!SpawnKnown, Wp!MarksKnown, Wp!GivenKnown, Wp!ProcKnown
    <2>2. CASE ~over
      BY <1>0, <1>1, <1>2, <1>4, <1>9, <2>2
      DEF Wp!SpawnKnown, Wp!MarksKnown, Wp!GivenKnown, Wp!ProcKnown, Wp!Slots
    <2> QED
      BY <2>1, <2>2
  <1>11. Wp!InheritKnown'
    <2>1. ASSUME NEW h \in WinHandles, v1[h] PROVE v2'[h]
      BY <1>0, <1>1, <1>2, <2>1 DEF Wp!InheritKnown, Wp!TypeOK, Wp!Restores
    <2>2. ASSUME NEW h \in WinHandles, v2'[h], ~v1[h]
          PROVE  \E u \in Reporters, j \in Wp!Slots : Wp!Restorer(u, j)' /\ v4'[u].std[j] = h
      <3>1. PICK u \in Reporters, j \in Wp!Slots : Wp!Restorer(u, j) /\ v4[u].std[j] = h
        BY <1>0, <1>7, <2>2 DEF Wp!InheritKnown
      <3>2. CASE u = t
        <4>1. j \in s.usable \ s.saved /\ j >= s.i /\ j \in 1..3
          BY <1>1, <3>1, <3>2 DEF Wp!Restorer, Wp!Slots
        <4>2. j # s.i
          BY <1>0, <1>1, <1>2, <2>2, <3>1, <3>2, <4>1 DEF Wp!Restores, Wp!TypeOK
        <4>3. s.i < 3 /\ j >= s.i + 1
          BY <1>2, <4>1, <4>2
        <4> QED
          BY <1>4, <1>9, <3>1, <3>2, <4>1, <4>3 DEF Wp!Restorer
      <3>3. CASE u # t
        BY <1>9, <3>1, <3>3 DEF Wp!Restorer
      <3> QED
        BY <3>2, <3>3
    <2> QED
      BY <1>1, <2>1, <2>2 DEF Wp!InheritKnown
  <1> HIDE DEF s, over
  <1> QED
    BY <1>1, <1>8, <1>9, <1>10, <1>11, SpawnChanges
\* A thread that is not inside a spawn leaves the flags of the handles alone.
LEMMA UsesKeep ==
    ASSUME Wp!SpawnInv, NEW t \in Reporters,
           \/ Wp!Wrap(t) \/ Wp!WrapFails(t) \/ Wp!Exits(t) \/ Wp!Wait(t) \/ Wp!Terminate(t) \/ Wp!Free(t)
    PROVE  Wp!SpawnInv'
  <1> USE DEF Wp!Goto, Wp!kernel
  <1> DEFINE s == v4[t]
  <1>0. Wp!TypeOK /\ Wp!InheritKnown /\ Wp!SpawnKnown(t)
    BY DEF Wp!SpawnInv
  <1>1. s \in Wp!Spawns /\ v8[t] \in Wp!Processes \cup {None} /\ v6[t] \in Wp!Children
    BY <1>0 DEF Wp!TypeOK
  <1>2. Wp!MarksKnown(v3[t], s) /\ Wp!GivenKnown(s, v5[t], v6[t]) /\ Wp!ProcKnown(v3[t], s, v6[t], t \in v7, v8[t])
    BY <1>0 DEF Wp!SpawnKnown
  <1>3. Wp!NoSpawn \in Wp!Spawns /\ Wp!NoSpawn.usable = {} /\ Wp!NoSpawn.list = {} /\ ~Wp!NoSpawn.created
        /\ Wp!NoSpawn.saved = {}
    BY DEF Wp!NoSpawn, Wp!NewSpawn, Wp!Spawns, Wp!Slots
  \* The flags are those of the spawns that are under way.
  <1>4. ASSUME UNCHANGED <<v1, v2>>,
               \A u \in Reporters \ {t} : v3'[u] = v3[u] /\ v4'[u] = v4[u],
               v3[t] \in {"out", "wrap"} \/ (v3'[t] = v3[t] /\ v4'[t] = v4[t])
        PROVE  Wp!InheritKnown'
    <2>1. ASSUME NEW u \in Reporters, NEW j \in Wp!Slots, Wp!Restorer(u, j)
          PROVE  Wp!Restorer(u, j)' /\ v4'[u].std[j] = v4[u].std[j]
      <3>1. v3'[u] = v3[u] /\ v4'[u] = v4[u]
        BY <1>4, <2>1 DEF Wp!Restorer
      <3> QED
        BY <2>1, <3>1 DEF Wp!Restorer
    <2> QED
      BY <1>0, <1>4, <2>1 DEF Wp!InheritKnown
  <1>5. CASE Wp!Wrap(t)
    <2>1. /\ v3[t] = "wrap" /\ v3' = [v3 EXCEPT ![t] = "out"] /\ v8' = [v8 EXCEPT ![t] = Wp!Process]
          /\ UNCHANGED <<v1, v2, v4, v5, v6, v7>>
      BY <1>5 DEF Wp!Wrap
    <2>2. s.created /\ v8[t] = None /\ t \in v7
      BY <1>2, <2>1 DEF Wp!ProcKnown
    <2>3. Wp!Process \in Wp!Processes /\ Wp!Process.handle /\ ~Wp!Process.reaped /\ Wp!Process # None
      <3>1. Wp!Process \in Wp!Processes
        BY DEF Wp!Processes, Wp!Process
      <3>2. Wp!Process.handle /\ ~Wp!Process.reaped
        BY DEF Wp!Process
      <3> QED
        BY <3>1, <3>2, WinAssumption
    <2>4. Wp!TypeOK'
      BY <1>0, <2>1, <2>3 DEF Wp!TypeOK
    <2>5. v3'[t] = "out" /\ v8'[t] = Wp!Process
          /\ \A u \in Reporters \ {t} : v3'[u] = v3[u] /\ v8'[u] = v8[u]
      BY <1>0, <2>1 DEF Wp!TypeOK
    <2>6. Wp!MarksKnown(v3'[t], v4'[t]) /\ Wp!GivenKnown(v4'[t], v5'[t], v6'[t])
      BY <1>2, <2>1, <2>5 DEF Wp!MarksKnown
    <2>7. Wp!ProcKnown(v3'[t], v4'[t], v6'[t], t \in v7', v8'[t])
      BY <2>1, <2>2, <2>3, <2>5 DEF Wp!ProcKnown
    <2>8. Wp!InheritKnown'
      BY <1>4, <2>1, <2>5
    <2> QED
      BY <2>1, <2>4, <2>5, <2>6, <2>7, <2>8, SpawnChanges
  <1>6. CASE Wp!WrapFails(t) \/ Wp!Free(t)
    <2>1. /\ v3[t] \in {"out", "wrap"} /\ v3'[t] = "out" /\ v3' \in {v3, [v3 EXCEPT ![t] = "out"]}
          /\ v4' = [v4 EXCEPT ![t] = Wp!NoSpawn] /\ v6' = [v6 EXCEPT ![t] = Wp!NoChild]
          /\ v5' = [v5 EXCEPT ![t] = {}] /\ UNCHANGED <<v1, v2>>
      BY <1>0, <1>6 DEF Wp!WrapFails, Wp!Free, Wp!Forget, Wp!Uses, Wp!TypeOK
    <2>2. v8' \in {v8, [v8 EXCEPT ![t] = None]} /\ v8'[t] = None
      BY <1>0, <1>2, <1>6 DEF Wp!WrapFails, Wp!Free, Wp!ProcKnown, Wp!TypeOK
    <2>3. v7' = v7 \ {t}
      <3>1. CASE Wp!WrapFails(t)
        BY <3>1 DEF Wp!WrapFails
      <3>2. CASE Wp!Free(t)
        <4>1. v8[t].handle <=> t \in v7
          BY <1>2, <3>2 DEF Wp!Free, Wp!Uses, Wp!ProcKnown
        <4> QED
          BY <3>2, <4>1 DEF Wp!Free, Wp!Closes
      <3> QED
        BY <1>6, <3>1, <3>2
    <2>4. Wp!TypeOK'
      BY <1>0, <1>3, <2>1, <2>2, <2>3 DEF Wp!TypeOK, Wp!Children
    <2>5. /\ v4'[t] = Wp!NoSpawn /\ v5'[t] = {} /\ v6'[t] = Wp!NoChild /\ t \notin v7'
          /\ \A u \in Reporters \ {t} :
                /\ v3'[u] = v3[u] /\ v4'[u] = v4[u] /\ v5'[u] = v5[u] /\ v6'[u] = v6[u]
                /\ u \in v7' <=> u \in v7
                /\ v8'[u] = v8[u]
      BY <1>0, <2>1, <2>2, <2>3 DEF Wp!TypeOK
    <2>6. Wp!MarksKnown(v3'[t], v4'[t]) /\ Wp!GivenKnown(v4'[t], v5'[t], v6'[t])
          /\ Wp!ProcKnown(v3'[t], v4'[t], v6'[t], t \in v7', v8'[t])
      BY <1>3, <2>1, <2>2, <2>5 DEF Wp!MarksKnown, Wp!GivenKnown, Wp!ProcKnown
    <2>7. Wp!InheritKnown'
      BY <1>4, <2>1, <2>5
    <2> QED
      BY <2>1, <2>4, <2>5, <2>6, <2>7, SpawnChanges
  <1>7. CASE Wp!Exits(t) \/ Wp!Terminate(t)
    <2>1. PICK c \in {1, 7} : v6' = [v6 EXCEPT ![t] = c]
      BY <1>7 DEF Wp!Exits, Wp!Terminate
    <2>2. v6[t] = Wp!Running /\ UNCHANGED <<v1, v2, v3, v4, v5, v7, v8>>
      BY <1>7 DEF Wp!Exits, Wp!Terminate
    <2>3. c \in Wp!Children /\ c # Wp!NoChild /\ c # Wp!Running /\ Wp!Running # Wp!NoChild
      BY DEF Wp!Children, Wp!NoChild, Wp!Running
    <2>4. Wp!TypeOK'
      BY <1>0, <2>1, <2>2, <2>3 DEF Wp!TypeOK
    <2>5. v6'[t] = c /\ \A u \in Reporters \ {t} : v6'[u] = v6[u]
      BY <1>0, <2>1 DEF Wp!TypeOK
    <2>6. Wp!MarksKnown(v3'[t], v4'[t])
      BY <1>2, <2>2
    <2>7. Wp!GivenKnown(v4'[t], v5'[t], v6'[t])
      BY <1>2, <2>2, <2>3, <2>5 DEF Wp!GivenKnown
    <2>8. Wp!ProcKnown(v3'[t], v4'[t], v6'[t], t \in v7', v8'[t])
      BY <1>2, <2>2, <2>3, <2>5 DEF Wp!ProcKnown
    <2>9. Wp!InheritKnown'
      BY <1>4, <2>2
    <2> QED
      BY <2>2, <2>4, <2>5, <2>6, <2>7, <2>8, <2>9, SpawnChanges
  <1>8. CASE Wp!Wait(t)
    <2>1. /\ v3[t] = "out" /\ v8[t] # None /\ ~v8[t].reaped /\ t \in v7 /\ v6[t] # Wp!Running
          /\ v8' = [v8 EXCEPT ![t] = Wp!Reaped(v8[t], v6[t])] /\ v7' = v7 \ {t}
          /\ UNCHANGED <<v1, v2, v3, v4, v5, v6>>
      BY <1>8 DEF Wp!Wait, Wp!Uses
    <2>2. s.created /\ v6[t] \in {0, 1, 7}
      BY <1>1, <1>2, <2>1 DEF Wp!ProcKnown, Wp!GivenKnown, Wp!Children
    <2>3. PICK q : q = Wp!Reaped(v8[t], v6[t])
      OBVIOUS
    <2>4. q \in Wp!Processes /\ q.reaped /\ ~q.handle /\ q.code = v6[t] /\ q # None
      BY <1>1, <2>1, <2>2, <2>3, WinAssumption DEF Wp!Processes, Wp!Reaped
    <2>5. Wp!TypeOK'
      BY <1>0, <2>1, <2>3, <2>4 DEF Wp!TypeOK
    <2>6. v8'[t] = q /\ t \notin v7'
          /\ \A u \in Reporters \ {t} : v8'[u] = v8[u] /\ (u \in v7' <=> u \in v7)
      BY <1>0, <2>1, <2>3 DEF Wp!TypeOK
    <2>7. Wp!MarksKnown(v3'[t], v4'[t]) /\ Wp!GivenKnown(v4'[t], v5'[t], v6'[t])
      BY <1>2, <2>1
    <2>8. Wp!ProcKnown(v3'[t], v4'[t], v6'[t], t \in v7', v8'[t])
      BY <2>1, <2>2, <2>4, <2>6 DEF Wp!ProcKnown
    <2>9. Wp!InheritKnown'
      BY <1>4, <2>1
    <2> QED
      BY <2>1, <2>5, <2>6, <2>7, <2>8, <2>9, SpawnChanges
  <1> QED
    BY <1>5, <1>6, <1>7, <1>8

LEMMA SpawnStep == Wp!SpawnInv /\ Wp!Next => Wp!SpawnInv'
  BY SpawnsKeep, MarkingKeeps, CreatesKeep, CleansKeep, UsesKeep DEF Wp!Next

LEMMA SpawnCorrect ==
    Wp!SpawnInv => Wp!FlagsRestored /\ Wp!OnlyStreamsGiven /\ Wp!ProcessHandles
  <1> SUFFICES ASSUME Wp!SpawnInv PROVE Wp!FlagsRestored /\ Wp!OnlyStreamsGiven /\ Wp!ProcessHandles
    OBVIOUS
  <1>0. Wp!TypeOK /\ Wp!InheritKnown /\ \A t \in Reporters : Wp!SpawnKnown(t)
    BY DEF Wp!SpawnInv
  <1>1. Wp!FlagsRestored
    <2> SUFFICES ASSUME \A t \in Reporters : v3[t] \in {"out", "wrap"} PROVE v2 = v1
      BY DEF Wp!FlagsRestored
    <2>1. \A h \in WinHandles : v2[h] <=> v1[h]
      BY <1>0 DEF Wp!InheritKnown, Wp!Restorer
    <2>2. \A h \in WinHandles : v2[h] = v1[h]
      BY <1>0, <2>1 DEF Wp!TypeOK
    <2> QED
      BY <1>0, <2>2 DEF Wp!TypeOK
  <1>2. Wp!OnlyStreamsGiven
    BY <1>0 DEF Wp!SpawnKnown, Wp!GivenKnown, Wp!OnlyStreamsGiven
  <1>3. Wp!ProcessHandles
    <2> SUFFICES ASSUME NEW t \in Reporters
                 PROVE  /\ v8[t] # None => v8[t].handle = (t \in v7) /\ v8[t].handle = ~v8[t].reaped
                        /\ v8[t] # None /\ v8[t].reaped => v8[t].code = v6[t]
                        /\ v8[t] = None /\ t \in v7 => v3[t] # "out"
      BY DEF Wp!ProcessHandles
    <2>1. Wp!ProcKnown(v3[t], v4[t], v6[t], t \in v7, v8[t])
      BY <1>0 DEF Wp!SpawnKnown
    <2>2. v8[t] # None => v8[t].handle \in BOOLEAN /\ v8[t].reaped \in BOOLEAN
      BY <1>0 DEF Wp!TypeOK, Wp!Processes
    <2> QED
      BY <2>1, <2>2 DEF Wp!ProcKnown
  <1> QED
    BY <1>1, <1>2, <1>3

\* ucb_process_spawn on Windows with any number of threads and of handles that they share:
\* the flags of the handles are restored, a child inherits its streams and no more, and
\* the handle of a process is closed once.
THEOREM SpawnsCorrect ==
    MCSpec => [](part = "spawn" => Wp!FlagsRestored /\ Wp!OnlyStreamsGiven /\ Wp!ProcessHandles)
  <1> DEFINE Inv == part = "spawn" => Wp!SpawnInv
  <1>1. MCInit => Inv
    BY SpawnInit DEF MCInit
  <1>2. Inv /\ [MCNext]_<<part, vars, others>> => Inv'
    <2> SUFFICES ASSUME Inv, [MCNext]_<<part, vars, others>>, part' = "spawn"
                 PROVE  Wp!SpawnInv'
      OBVIOUS
    <2>1. CASE UNCHANGED <<part, vars, others>>
      BY <2>1 DEF others, Wp!SpawnInv, Wp!TypeOK, Wp!InheritKnown, Wp!Restorer, Wp!SpawnKnown,
                  Wp!MarksKnown, Wp!GivenKnown, Wp!ProcKnown
    <2>2. CASE MCNext
      BY <2>2, SpawnStep DEF MCNext
    <2> QED
      BY <2>1, <2>2
  <1>3. Inv => (part = "spawn" => Wp!FlagsRestored /\ Wp!OnlyStreamsGiven /\ Wp!ProcessHandles)
    BY SpawnCorrect
  <1> QED
    BY <1>1, <1>2, <1>3, PTL DEF MCSpec
-----------------------------------------------------------------------------
(* Transfers, ucb_file_read_full, write_full and read_buffer.              *)

\* What a read appends: the next n bytes of a file that nobody else writes.
LEMMA ReadsNext ==
    ASSUME NEW f \in Seq(Int), NEW g \in Seq(Int), NEW p \in Nat, NEW n \in Nat,
           n = 0 \/ p + n <= Len(f), \A i \in 1..Len(f) : f[i] = i
    PROVE  /\ g \o SubSeq(f, p + 1, p + n) \in Seq(Int)
           /\ Len(g \o SubSeq(f, p + 1, p + n)) = Len(g) + n
           /\ \A i \in 1..Len(g) : (g \o SubSeq(f, p + 1, p + n))[i] = g[i]
           /\ \A i \in 1..n : (g \o SubSeq(f, p + 1, p + n))[Len(g) + i] = p + i
  <1> DEFINE s == SubSeq(f, p + 1, p + n)
  <1>0. Len(f) \in Nat /\ Len(g) \in Nat
    BY LenProperties
  <1>1. \A i \in (p + 1)..(p + n) : f[i] \in Int
    BY <1>0
  <1>2. /\ s \in Seq(Int) /\ Len(s) = n
        /\ \A i \in 1..n : s[i] = p + i
    <2>1. /\ s \in Seq(Int) /\ Len(s) = IF p + 1 <= p + n THEN p + n - (p + 1) + 1 ELSE 0
          /\ \A i \in 1..(p + n - (p + 1) + 1) : s[i] = f[p + 1 + i - 1]
      BY <1>1, SubSeqProperties
    <2>2. p + n - (p + 1) + 1 = n
      OBVIOUS
    <2>3. Len(s) = n
      BY <2>1, <2>2
    <2>4. ASSUME NEW i \in 1..n PROVE s[i] = p + i
      <3>1. s[i] = f[p + 1 + i - 1] /\ p + 1 + i - 1 = p + i
        BY <2>1, <2>2
      <3>2. p + i \in 1..Len(f)
        BY <1>0
      <3> QED
        BY <3>1, <3>2
    <2> QED
      BY <2>1, <2>3, <2>4
  <1> HIDE DEF s
  <1>3. /\ g \o s \in Seq(Int) /\ Len(g \o s) = Len(g) + Len(s)
        /\ \A i \in 1..(Len(g) + Len(s)) : (g \o s)[i] = IF i <= Len(g) THEN g[i] ELSE s[i - Len(g)]
    BY <1>2, ConcatProperties
  <1>4. \A i \in 1..Len(g) : (g \o s)[i] = g[i]
    BY <1>0, <1>2, <1>3
  <1>5. ASSUME NEW i \in 1..n PROVE (g \o s)[Len(g) + i] = p + i
    <2>1. Len(g) + i \in 1..(Len(g) + Len(s)) /\ ~(Len(g) + i <= Len(g)) /\ Len(g) + i - Len(g) = i
      BY <1>0, <1>2
    <2> QED
      BY <1>2, <1>3, <2>1
  <1> QED
    BY <1>2, <1>3, <1>4, <1>5 DEF s

LEMMA IOInit == Fi!Init => Fi!IOInv
  <1> SUFFICES ASSUME Fi!Init PROVE Fi!IOInv
    OBVIOUS
  <1>1. PICK n \in 0..MaxSize : v1 = [i \in 1..n |-> i] /\ v2 \in 0..n
    BY DEF Fi!Init
  <1>2. v1 \in Seq(Int) /\ Len(v1) = n /\ \A i \in 1..Len(v1) : v1[i] = i
    BY <1>1, TransferAssumption
  <1>3. v7 = <<>> /\ Len(v7) = 0 /\ v7 \in Seq(Int)
    BY DEF Fi!Init
  <1>4. Fi!TypeOK
    <2>1. v10 \in BOOLEAN /\ v11 \in BOOLEAN
      BY Zenon DEF Fi!Init
    <2>2. v2 \in Nat /\ v5 \in Nat /\ v6 \in Nat /\ v9 \in Nat /\ v8 \in 0..Capacity
      BY <1>1, TransferAssumption DEF Fi!Init
    <2> QED
      BY <1>2, <1>3, <2>1, <2>2 DEF Fi!TypeOK
  <1>5. Fi!FileKnown /\ Fi!ReturnKnown /\ Fi!WritesInOrder
    BY <1>1, <1>2, <1>3, TransferAssumption DEF Fi!Init, Fi!FileKnown, Fi!ReturnKnown, Fi!WritesInOrder
  <1>6. \/ v4 = "read_full" /\ Fi!ReadFullKnown
        \/ v4 = "read_buffer" /\ Fi!ReadBufferKnown
        \/ v4 = "write_full" /\ Fi!WriteKnown
    BY <1>1, <1>2, <1>3, TransferAssumption
       DEF Fi!Init, Fi!ReadFullKnown, Fi!ReadBufferKnown, Fi!WriteKnown
  <1> QED
    BY <1>4, <1>5, <1>6 DEF Fi!IOInv

\* ucb_file_read_full on a file that another program may change.
LEMMA ReadFullKeeps ==
    ASSUME Fi!IOInv, v4 = "read_full",
           Fi!Fails \/ Fi!Tell \/ Fi!SeekEnd \/ Fi!TellEnd \/ Fi!SeekBack \/ Fi!ReadAllDone
    PROVE  Fi!IOInv'
  <1> USE DEF Fi!At, Fi!Goto, Fi!Returns, Fi!Args
  <1>0. Fi!TypeOK /\ Fi!FileKnown /\ Fi!ReturnKnown /\ Fi!ReadFullKnown
    BY DEF Fi!IOInv
  <1>1. Len(v1) \in Nat /\ Len(v7) \in Nat /\ v4' = v4 /\ v1' = v1 /\ v11' = v11 /\ v7' = v7 /\ v8' = v8
    BY <1>0, LenProperties DEF Fi!TypeOK, Fi!Fails, Fi!Tell, Fi!SeekEnd, Fi!TellEnd, Fi!SeekBack, Fi!ReadAllDone
  <1>2. Fi!TypeOK'
    <2>1. v10' \in BOOLEAN /\ v11' \in BOOLEAN
      BY <1>0, <1>1 DEF Fi!TypeOK, Fi!Fails, Fi!Tell, Fi!SeekEnd, Fi!TellEnd, Fi!SeekBack, Fi!ReadAllDone
    <2>2. v2' \in Nat /\ v5' \in Nat /\ v6' \in Nat /\ v9' \in Nat
      BY <1>0, <1>1 DEF Fi!TypeOK, Fi!Fails, Fi!Tell, Fi!SeekEnd, Fi!TellEnd, Fi!SeekBack, Fi!ReadAllDone,
                        Fi!ReadFullKnown, Fi!Back, Fi!Remaining
    <2> QED
      BY <1>0, <1>1, <2>1, <2>2 DEF Fi!TypeOK
  <1>3. Fi!FileKnown' /\ Fi!WritesInOrder'
    BY <1>0, <1>1 DEF Fi!FileKnown, Fi!WritesInOrder
  <1>4. Fi!ReturnKnown' /\ Fi!ReadFullKnown'
    <2> USE DEF Fi!ReturnKnown, Fi!ReadFullKnown, Fi!TypeOK, Fi!Remaining
    <2>1. CASE Fi!Fails
      BY <1>0, <1>1, <2>1 DEF Fi!Fails
    <2>2. CASE Fi!Tell
      BY <1>0, <1>1, <2>2 DEF Fi!Tell
    <2>3. CASE Fi!SeekEnd
      BY <1>0, <1>1, <2>3 DEF Fi!SeekEnd
    <2>4. CASE Fi!TellEnd
      BY <1>0, <1>1, <2>4 DEF Fi!TellEnd
    <2>5. CASE Fi!SeekBack
      <3>1. v3 = "seek_back" /\ v2' = v5 /\ v5' = v5 /\ v6' = v6 /\ v7 = <<>> /\ v9 = 0 /\ ~v10
        BY <1>0, <2>5 DEF Fi!SeekBack, Fi!Back
      <3>2. CASE Capacity < Fi!Remaining
        <4>1. v3' = "returned" /\ v10' = FALSE /\ v9' = Fi!Remaining
          BY <2>5, <3>2 DEF Fi!SeekBack
        <4> QED
          BY <1>0, <1>1, <3>1, <4>1
      <3>3. CASE ~(Capacity < Fi!Remaining)
        <4>1. v3' = "read_all" /\ v10' = v10 /\ v9' = v9
          BY <2>5, <3>3 DEF Fi!SeekBack
        <4>2. Len(v7) = 0 /\ v5 <= v6
          BY <1>0, <3>1
        <4> QED
          BY <1>0, <1>1, <3>1, <3>3, <4>1, <4>2, TransferAssumption
      <3> QED
        BY <3>2, <3>3
    <2>6. CASE Fi!ReadAllDone
      BY <1>0, <1>1, <2>6 DEF Fi!ReadAllDone
    <2> QED
      BY <2>1, <2>2, <2>3, <2>4, <2>5, <2>6
  <1> QED
    BY <1>1, <1>2, <1>3, <1>4 DEF Fi!IOInv

\* A step that reads, of read_full and of read_buffer.
LEMMA ReadsKeep ==
    ASSUME Fi!IOInv, Fi!ReadAll \/ Fi!ReadBuffer
    PROVE  Fi!IOInv'
  <1> USE DEF Fi!At, Fi!Goto, Fi!Returns, Fi!Args
  <1>0. Fi!TypeOK /\ Fi!FileKnown /\ Fi!ReturnKnown
    BY DEF Fi!IOInv
  <1>1. Len(v1) \in Nat /\ Len(v7) \in Nat
    BY <1>0, LenProperties DEF Fi!TypeOK
  <1>2. CASE Fi!ReadAll
    <2>1. v4 = "read_full" /\ Fi!ReadFullKnown
      BY <1>2 DEF Fi!IOInv, Fi!ReadAll, Fi!ReadBufferKnown, Fi!WriteKnown
    <2>2. PICK n \in Fi!Readable(Fi!Remaining - Len(v7)) :
             /\ Fi!ReadSome(n)
             /\ IF n = 0 THEN Fi!Returns(TRUE) /\ v9' = Len(v7) ELSE Fi!Goto("read_all") /\ v9' = v9
      BY <1>2 DEF Fi!ReadAll
    <2>3. /\ v3 = "read_all" /\ Len(v7) < Fi!Remaining /\ Fi!Remaining \in Nat
          /\ v1' = v1 /\ v4' = v4 /\ v11' = v11 /\ v5' = v5 /\ v6' = v6 /\ v8' = v8
      BY <1>0, <1>2, <2>1 DEF Fi!ReadAll, Fi!TypeOK, Fi!Remaining, Fi!ReadFullKnown
    <2>4. /\ n \in Nat /\ (n = 0 \/ v2 + n <= Len(v1)) /\ Len(v7) + n <= Fi!Remaining
          /\ n = 0 => v2 >= Len(v1)
      BY <1>0, <1>1, <2>2, <2>3 DEF Fi!Readable, Fi!TypeOK
    <2>5. /\ v7' \in Seq(Int) /\ Len(v7') = Len(v7) + n /\ v2' = v2 + n
          /\ \A i \in 1..Len(v7) : v7'[i] = v7[i]
          /\ \A i \in 1..n : v7'[Len(v7) + i] = v2 + i
      <3>1. v7' = v7 \o SubSeq(v1, v2 + 1, v2 + n) /\ v2' = v2 + n
        BY <2>2 DEF Fi!ReadSome
      <3>2. v1 \in Seq(Int) /\ v7 \in Seq(Int) /\ v2 \in Nat /\ \A i \in 1..Len(v1) : v1[i] = i
        BY <1>0, <2>1 DEF Fi!TypeOK, Fi!FileKnown
      <3> QED
        BY <2>4, <3>1, <3>2, ReadsNext
    <2>6. v2 = v5 + Len(v7) /\ \A i \in 1..Len(v7) : v7[i] = v5 + i
      BY <2>1, <2>3 DEF Fi!ReadFullKnown
    <2>7. ASSUME NEW i \in 1..Len(v7') PROVE v7'[i] = v5' + i
      <3>1. CASE i \in 1..Len(v7)
        BY <2>3, <2>5, <2>6, <3>1
      <3>2. CASE i \notin 1..Len(v7)
        <4>1. i - Len(v7) \in 1..n /\ Len(v7) + (i - Len(v7)) = i
          BY <1>1, <2>4, <2>5, <3>2
        <4>2. v7'[i] = v2 + (i - Len(v7))
          BY <2>5, <4>1
        <4> QED
          BY <1>0, <1>1, <2>3, <2>6, <4>2 DEF Fi!TypeOK
      <3> QED
        BY <3>1, <3>2
    <2>8. Fi!TypeOK'
      <3>1. v10' \in BOOLEAN /\ v11' \in BOOLEAN
        BY <1>0, <2>2, <2>3 DEF Fi!TypeOK
      <3>2. v9' \in Nat /\ v2' \in Nat
        BY <1>0, <1>1, <2>2, <2>4, <2>5 DEF Fi!TypeOK
      <3> QED
        BY <1>0, <2>3, <2>5, <3>1, <3>2 DEF Fi!TypeOK
    <2>9. Fi!FileKnown' /\ Fi!WritesInOrder'
      BY <1>0, <2>1, <2>3 DEF Fi!FileKnown, Fi!WritesInOrder
    <2>10. Fi!ReturnKnown'
      BY <1>0, <1>1, <2>1, <2>2, <2>3, <2>4, <2>5 DEF Fi!ReturnKnown, Fi!TypeOK
    <2>11. Fi!ReadFullKnown'
      <3>1. Fi!Remaining' = Fi!Remaining /\ Fi!Remaining <= Capacity
        BY <2>1, <2>3 DEF Fi!Remaining, Fi!ReadFullKnown
      <3>2. v2' = v5' + Len(v7') /\ Len(v7') <= Fi!Remaining /\ Len(v7') <= Capacity
        BY <1>0, <1>1, <2>3, <2>4, <2>5, <2>6, <3>1, TransferAssumption DEF Fi!TypeOK
      <3> QED
        BY <2>1, <2>2, <2>3, <2>7, <3>1, <3>2 DEF Fi!ReadFullKnown
    <2> QED
      BY <2>1, <2>3, <2>8, <2>9, <2>10, <2>11 DEF Fi!IOInv
  <1>3. CASE Fi!ReadBuffer
    <2>1. v4 = "read_buffer" /\ Fi!ReadBufferKnown /\ v3 = "read"
      BY <1>3 DEF Fi!IOInv, Fi!ReadBuffer, Fi!ReadFullKnown, Fi!WriteKnown
    <2>2. PICK n \in Fi!Readable(Capacity) :
             \/ Fi!ReadSome(n) /\ IF n = 0 THEN Fi!Returns(TRUE) ELSE Fi!Goto("read")
             \/ n > 0 /\ v2' = v2 + n /\ Fi!Returns(FALSE) /\ v7' = v7
      BY <1>3 DEF Fi!ReadBuffer
    <2>3. v1' = v1 /\ v4' = v4 /\ v11' = v11 /\ v5' = v5 /\ v6' = v6 /\ v8' = v8 /\ v9' = v9
      BY <1>3 DEF Fi!ReadBuffer
    <2>4. /\ n \in Nat /\ (n = 0 \/ v2 + n <= Len(v1))
          /\ n = 0 => v2 >= Len(v1)
      BY <1>0, <1>1, <2>2, TransferAssumption DEF Fi!Readable, Fi!TypeOK
    <2>5. CASE n > 0 /\ v2' = v2 + n /\ Fi!Returns(FALSE) /\ v7' = v7
      <3>1. Fi!TypeOK'
        <4>1. v10' \in BOOLEAN /\ v11' \in BOOLEAN
          BY <1>0, <2>3, <2>5 DEF Fi!TypeOK
        <4>2. v2' \in Nat
          BY <1>0, <2>4, <2>5 DEF Fi!TypeOK
        <4> QED
          BY <1>0, <2>3, <2>5, <4>1, <4>2 DEF Fi!TypeOK
      <3>2. Fi!FileKnown' /\ Fi!WritesInOrder'
        BY <1>0, <2>1, <2>3 DEF Fi!FileKnown, Fi!WritesInOrder
      <3>3. Fi!ReturnKnown' /\ Fi!ReadBufferKnown'
        BY <1>0, <2>1, <2>3, <2>5 DEF Fi!ReturnKnown, Fi!ReadBufferKnown
      <3> QED
        BY <2>1, <2>3, <3>1, <3>2, <3>3 DEF Fi!IOInv
    <2>6. CASE Fi!ReadSome(n) /\ IF n = 0 THEN Fi!Returns(TRUE) ELSE Fi!Goto("read")
      <3>1. /\ v7' \in Seq(Int) /\ Len(v7') = Len(v7) + n /\ v2' = v2 + n
            /\ \A i \in 1..Len(v7) : v7'[i] = v7[i]
            /\ \A i \in 1..n : v7'[Len(v7) + i] = v2 + i
        <4>1. v7' = v7 \o SubSeq(v1, v2 + 1, v2 + n) /\ v2' = v2 + n
          BY <2>6 DEF Fi!ReadSome
        <4>2. v1 \in Seq(Int) /\ v7 \in Seq(Int) /\ v2 \in Nat /\ \A i \in 1..Len(v1) : v1[i] = i
          BY <1>0, <2>1 DEF Fi!TypeOK, Fi!FileKnown
        <4>3. n \in Nat /\ (n = 0 \/ v2 + n <= Len(v1))
          BY <2>4
        <4>4. /\ v7 \o SubSeq(v1, v2 + 1, v2 + n) \in Seq(Int)
              /\ Len(v7 \o SubSeq(v1, v2 + 1, v2 + n)) = Len(v7) + n
              /\ \A i \in 1..Len(v7) : (v7 \o SubSeq(v1, v2 + 1, v2 + n))[i] = v7[i]
              /\ \A i \in 1..n : (v7 \o SubSeq(v1, v2 + 1, v2 + n))[Len(v7) + i] = v2 + i
          BY <4>2, <4>3, ReadsNext
        <4> QED
          BY <4>1, <4>4, Zenon
      <3>2. \A i \in 1..Len(v7) : v7[i] = v2 - Len(v7) + i
        BY <2>1 DEF Fi!ReadBufferKnown
      <3>3. ASSUME NEW i \in 1..Len(v7') PROVE v7'[i] = v2' - Len(v7') + i
        <4>0. v2' - Len(v7') = v2 - Len(v7) /\ v2 \in Nat
          BY <1>0, <1>1, <2>4, <3>1 DEF Fi!TypeOK
        <4>1. CASE i \in 1..Len(v7)
          BY <3>1, <3>2, <4>0, <4>1
        <4>2. CASE i \notin 1..Len(v7)
          <5>1. i - Len(v7) \in 1..n /\ Len(v7) + (i - Len(v7)) = i
            BY <1>1, <2>4, <3>1, <4>2
          <5>2. v7'[i] = v2 + (i - Len(v7))
            BY <3>1, <5>1
          <5> QED
            BY <1>1, <4>0, <5>2
        <4> QED
          BY <4>1, <4>2
      <3>4. Fi!TypeOK'
        <4>1. v10' \in BOOLEAN /\ v11' \in BOOLEAN
          BY <1>0, <2>3, <2>6 DEF Fi!TypeOK
        <4>2. v2' \in Nat
          BY <1>0, <2>4, <3>1 DEF Fi!TypeOK
        <4> QED
          BY <1>0, <2>3, <3>1, <4>1, <4>2 DEF Fi!TypeOK
      <3>5. Fi!FileKnown' /\ Fi!WritesInOrder'
        BY <1>0, <2>1, <2>3 DEF Fi!FileKnown, Fi!WritesInOrder
      <3>6. Fi!ReturnKnown' /\ Fi!ReadBufferKnown'
        <4>1. CASE n = 0
          <5>1. v3' = "returned" /\ v10' = TRUE /\ v2' >= Len(v1')
            BY <1>0, <1>1, <2>3, <2>4, <2>6, <3>1, <4>1 DEF Fi!TypeOK
          <5> QED
            BY <2>1, <2>3, <3>3, <5>1 DEF Fi!ReturnKnown, Fi!ReadBufferKnown
        <4>2. CASE n # 0
          <5>1. v3' = "read" /\ v10' = v10
            BY <2>6, <4>2
          <5> QED
            BY <1>0, <2>1, <2>3, <3>3, <5>1 DEF Fi!ReturnKnown, Fi!ReadBufferKnown
        <4> QED
          BY <4>1, <4>2
      <3> QED
        BY <2>1, <2>3, <3>4, <3>5, <3>6 DEF Fi!IOInv
    <2> QED
      BY <2>2, <2>5, <2>6
  <1> QED
    BY <1>2, <1>3

\* ucb_file_write_full, and what may happen to any of the calls.
LEMMA WritesKeep ==
    ASSUME Fi!IOInv,
           (Fi!Fails /\ v4 # "read_full") \/ Fi!Write \/ Fi!WriteDone \/ Fi!OtherChanges
    PROVE  Fi!IOInv'
  <1> USE DEF Fi!At, Fi!Goto, Fi!Returns, Fi!Args
  <1>0. Fi!TypeOK /\ Fi!FileKnown /\ Fi!ReturnKnown /\ Fi!WritesInOrder
    BY DEF Fi!IOInv
  <1>1. Len(v1) \in Nat /\ Len(v7) \in Nat
    BY <1>0, LenProperties DEF Fi!TypeOK
  <1>2. CASE (Fi!Fails /\ v4 # "read_full") \/ Fi!WriteDone
    <2>1. /\ UNCHANGED <<v1, v2, v4, v5, v6, v7, v8, v9, v11>> /\ v3' = "returned"
          /\ \/ ~v10' /\ v10' \in BOOLEAN
             \/ v3 = "write" /\ v10' = TRUE /\ v8 = Capacity
          /\ v3 # "returned" /\ v4 # "read_full"
      BY <1>2 DEF Fi!Fails, Fi!WriteDone, Fi!IOInv, Fi!ReadFullKnown
    <2>2. Fi!TypeOK'
      BY <1>0, <2>1 DEF Fi!TypeOK
    <2>3. Fi!FileKnown' /\ Fi!WritesInOrder' /\ Fi!ReturnKnown'
      BY <1>0, <2>1 DEF Fi!FileKnown, Fi!WritesInOrder, Fi!ReturnKnown, Fi!IOInv, Fi!ReadBufferKnown
    <2>4. CASE v4 = "read_buffer"
      BY <2>1, <2>2, <2>3, <2>4 DEF Fi!IOInv, Fi!ReadBufferKnown
    <2>5. CASE v4 = "write_full"
      BY <2>1, <2>2, <2>3, <2>5 DEF Fi!IOInv, Fi!WriteKnown
    <2> QED
      BY <2>1, <2>4, <2>5 DEF Fi!IOInv
  <1>3. CASE Fi!Write
    <2>1. v4 = "write_full" /\ Fi!WriteKnown /\ v3 = "write" /\ v3' = "write" /\ v10' = v10 /\ v8 < Capacity
      BY <1>3 DEF Fi!IOInv, Fi!Write, Fi!ReadFullKnown, Fi!ReadBufferKnown
    <2>2. PICK n \in 1..(Capacity - v8) :
             v1' = v1 \o Fi!NextBytes(n) /\ v8' = v8 + n /\ v2' = Len(v1) + n
      BY <1>3 DEF Fi!Write
    <2>3. v4' = v4 /\ v11' = v11 /\ v5' = v5 /\ v6' = v6 /\ v7' = v7 /\ v9' = v9
      BY <1>3 DEF Fi!Write
    <2>4. v8 \in Nat /\ n \in Nat /\ n > 0 /\ v8 <= Len(v1) /\ v8 + n <= Capacity
      BY <1>0, <2>1, <2>2, TransferAssumption DEF Fi!TypeOK, Fi!WriteKnown
    <2>5. PICK q : q = Fi!NextBytes(n)
      OBVIOUS
    <2>6. q \in Seq(Int) /\ Len(q) = n /\ \A i \in 1..n : q[i] = -(v8 + i)
      BY <2>4, <2>5 DEF Fi!NextBytes
    <2>7. /\ v1' \in Seq(Int) /\ Len(v1') = Len(v1) + n
          /\ \A i \in 1..(Len(v1) + n) : v1'[i] = IF i <= Len(v1) THEN v1[i] ELSE q[i - Len(v1)]
      <3>1. v1 \in Seq(Int) /\ v1' = v1 \o q
        BY <1>0, <2>2, <2>5 DEF Fi!TypeOK
      <3>2. /\ v1 \o q \in Seq(Int) /\ Len(v1 \o q) = Len(v1) + Len(q)
            /\ \A i \in 1..(Len(v1) + Len(q)) : (v1 \o q)[i] = IF i <= Len(v1) THEN v1[i] ELSE q[i - Len(v1)]
        BY <2>6, <3>1, ConcatProperties
      <3> QED
        BY <2>6, <3>1, <3>2
    <2>8. Len(v1') - v8' = Len(v1) - v8 /\ Len(v1) - v8 \in Nat
      BY <1>1, <2>2, <2>4, <2>7
    <2>9. ASSUME NEW i \in 1..(Len(v1) - v8) PROVE v1'[i] > 0
      <3>1. i \in 1..(Len(v1) + n) /\ i <= Len(v1)
        BY <1>1, <2>4
      <3>2. v1'[i] = v1[i]
        BY <2>7, <3>1
      <3> QED
        BY <1>0, <2>1, <3>2 DEF Fi!WritesInOrder
    <2>10. ASSUME NEW i \in 1..(v8 + n) PROVE v1'[Len(v1) - v8 + i] = -i
      <3>1. Len(v1) - v8 + i \in 1..(Len(v1) + n)
        BY <1>1, <2>4
      <3>2. CASE i <= v8
        <4>1. Len(v1) - v8 + i <= Len(v1) /\ i \in 1..v8
          BY <1>1, <2>4, <3>2
        <4>2. v1'[Len(v1) - v8 + i] = v1[Len(v1) - v8 + i]
          BY <2>7, <3>1, <4>1
        <4> QED
          BY <1>0, <2>1, <4>1, <4>2 DEF Fi!WritesInOrder
      <3>3. CASE i > v8
        <4>1. ~(Len(v1) - v8 + i <= Len(v1)) /\ Len(v1) - v8 + i - Len(v1) = i - v8 /\ i - v8 \in 1..n
          BY <1>1, <2>4, <3>3
        <4>2. v1'[Len(v1) - v8 + i] = q[i - v8]
          <5>1. PICK k : k = Len(v1) - v8 + i
            OBVIOUS
          <5>2. k \in 1..(Len(v1) + n) /\ ~(k <= Len(v1)) /\ k - Len(v1) = i - v8
            BY <1>1, <2>4, <3>1, <4>1, <5>1
          <5>3. v1'[k] = q[k - Len(v1)]
            BY <2>7, <5>2
          <5> QED
            BY <5>1, <5>2, <5>3
        <4>3. q[i - v8] = -(v8 + (i - v8)) /\ v8 + (i - v8) = i
          BY <2>4, <2>6, <4>1
        <4> QED
          BY <4>2, <4>3
      <3> QED
        BY <2>4, <3>2, <3>3
    <2>11. Fi!TypeOK'
      BY <1>0, <1>1, <2>1, <2>2, <2>3, <2>4, <2>7 DEF Fi!TypeOK
    <2>12. Fi!WritesInOrder'
      BY <2>1, <2>2, <2>8, <2>9, <2>10 DEF Fi!WritesInOrder
    <2>13. Fi!FileKnown' /\ Fi!ReturnKnown' /\ Fi!WriteKnown'
      BY <1>0, <1>1, <2>1, <2>2, <2>3, <2>4, <2>7 DEF Fi!FileKnown, Fi!ReturnKnown, Fi!WriteKnown
    <2> QED
      BY <2>1, <2>3, <2>11, <2>12, <2>13 DEF Fi!IOInv
  <1>4. CASE Fi!OtherChanges
    <2>1. PICK n \in 0..MaxSize : v1' = [i \in 1..n |-> i]
      BY <1>4 DEF Fi!OtherChanges
    <2>2. /\ v3 # "returned" /\ v4 # "write_full" /\ v11' = TRUE
          /\ UNCHANGED <<v2, v3, v4, v5, v6, v7, v8, v9, v10>>
      BY <1>4 DEF Fi!OtherChanges
    <2>3. v1' \in Seq(Int) /\ \A i \in 1..Len(v1') : v1'[i] = i
      BY <2>1, TransferAssumption
    <2>4. Fi!TypeOK'
      BY <1>0, <2>2, <2>3 DEF Fi!TypeOK
    <2>5. Fi!FileKnown' /\ Fi!WritesInOrder' /\ Fi!ReturnKnown'
      BY <1>0, <2>2, <2>3 DEF Fi!FileKnown, Fi!WritesInOrder, Fi!ReturnKnown
    <2>6. CASE v4 = "read_full"
      <3>1. Fi!ReadFullKnown'
        BY <2>2, <2>6 DEF Fi!IOInv, Fi!ReadFullKnown, Fi!Remaining
      <3> QED
        BY <2>2, <2>4, <2>5, <2>6, <3>1 DEF Fi!IOInv
    <2>7. CASE v4 = "read_buffer"
      <3>1. Fi!ReadBufferKnown'
        BY <2>2, <2>7 DEF Fi!IOInv, Fi!ReadBufferKnown
      <3> QED
        BY <2>2, <2>4, <2>5, <2>7, <3>1 DEF Fi!IOInv
    <2> QED
      BY <2>2, <2>6, <2>7 DEF Fi!IOInv
  <1> QED
    BY <1>2, <1>3, <1>4

LEMMA IOStep == Fi!IOInv /\ Fi!Next => Fi!IOInv'
  <1> SUFFICES ASSUME Fi!IOInv, Fi!Next PROVE Fi!IOInv'
    OBVIOUS
  <1>1. Fi!Tell \/ Fi!SeekEnd \/ Fi!TellEnd \/ Fi!SeekBack \/ Fi!ReadAllDone => v4 = "read_full"
    BY DEF Fi!IOInv, Fi!ReadBufferKnown, Fi!WriteKnown, Fi!At,
           Fi!Tell, Fi!SeekEnd, Fi!TellEnd, Fi!SeekBack, Fi!ReadAllDone
  <1> QED
    BY <1>1, ReadFullKeeps, ReadsKeep, WritesKeep DEF Fi!Next

LEMMA IOCorrect == Fi!IOInv => Fi!ReadsWhole /\ Fi!WritesInOrder
  <1> SUFFICES ASSUME Fi!IOInv, v3 = "returned", v4 # "write_full"
               PROVE  /\ v10 => v7 = [i \in 1..Len(v7) |-> Fi!From + i]
                      /\ v4 = "read_full" => Len(v7) <= Capacity
                      /\ v10 /\ ~v11 => v2 >= Len(v1)
                      /\ ~v10 /\ v9 > 0 => v7 = <<>> /\ v2 = v5 /\ (~v11 => v9 = Len(v1) - v5)
    BY DEF Fi!IOInv, Fi!ReadsWhole
  <1>0. Fi!TypeOK /\ Fi!ReturnKnown
    BY DEF Fi!IOInv
  <1>1. ASSUME v10 PROVE v7 = [i \in 1..Len(v7) |-> Fi!From + i]
    <2>1. \A i \in 1..Len(v7) : v7[i] = Fi!From + i
      BY <1>1 DEF Fi!IOInv, Fi!ReadFullKnown, Fi!ReadBufferKnown, Fi!From
    <2>2. v7 = [i \in 1..Len(v7) |-> v7[i]]
      BY <1>0 DEF Fi!TypeOK
    <2> QED
      BY <2>1, <2>2
  <1>2. v4 = "read_full" => Len(v7) <= Capacity
    BY DEF Fi!IOInv, Fi!ReadFullKnown
  <1>3. /\ v10 /\ ~v11 => v2 >= Len(v1)
        /\ ~v10 /\ v9 > 0 => v7 = <<>> /\ v2 = v5 /\ (~v11 => v9 = Len(v1) - v5)
    BY <1>0 DEF Fi!ReturnKnown
  <1> QED
    BY <1>1, <1>2, <1>3

\* ucb_file_read_full, read_buffer and write_full with files and buffers of any size: what
\* a read returns has no gap and fits, and a file that nobody changes is read to its end; a
\* write has put every byte in the file once and in order.
THEOREM TransfersCorrect == MCSpec => [](part = "io" => Fi!ReadsWhole /\ Fi!WritesInOrder)
  <1> DEFINE Inv == part = "io" => Fi!IOInv
  <1>1. MCInit => Inv
    BY IOInit DEF MCInit
  <1>2. Inv /\ [MCNext]_<<part, vars, others>> => Inv'
    <2> SUFFICES ASSUME Inv, [MCNext]_<<part, vars, others>>, part' = "io"
                 PROVE  Fi!IOInv'
      OBVIOUS
    <2>1. CASE UNCHANGED <<part, vars, others>>
      BY <2>1 DEF others, Fi!IOInv, Fi!TypeOK, Fi!FileKnown, Fi!ReturnKnown, Fi!WritesInOrder,
                  Fi!ReadFullKnown, Fi!ReadBufferKnown, Fi!WriteKnown, Fi!Remaining
    <2>2. CASE MCNext
      BY <2>2, IOStep DEF MCNext
    <2> QED
      BY <2>1, <2>2
  <1>3. Inv => (part = "io" => Fi!ReadsWhole /\ Fi!WritesInOrder)
    BY IOCorrect
  <1> QED
    BY <1>1, <1>2, <1>3, PTL DEF MCSpec
-----------------------------------------------------------------------------
(* The streams of a child on POSIX, between fork and exec.                 *)

LEMMA LowestFree ==
    ASSUME NEW S, S \subseteq Nat, S # {}
    PROVE  Rd!Lowest(S) \in S /\ \A x \in S : Rd!Lowest(S) <= x
  <1>1. PICK x \in S : \A y \in S : ~(<<y, x>> \in OpToRel(<, Nat))
    BY NatLessThanWellFounded, WFMin, Zenon
  <1>2. \A y \in S : ~(y < x)
    BY <1>1 DEF OpToRel
  <1>3. \A y \in S : x <= y
    BY <1>2
  <1> QED
    BY <1>1, <1>3, Zenon DEF Rd!Lowest

\* The status pipe is no descriptor of the program.
LEMMA PipeIsNew ==
    ASSUME v1 \in Opens
    PROVE  Rd!StatusWrite \in ChildFds \ v1 /\ Rd!StatusRead \in ChildFds \ v1
  <1>1. PICK f \in ChildFds \ v1, g \in ChildFds \ v1 : f # g
    BY RedirectAssumption
  <1>2. ChildFds \ v1 \subseteq Nat /\ ChildFds \ v1 # {}
    BY <1>1, RedirectAssumption
  <1>3. Rd!StatusRead \in ChildFds \ v1
    BY <1>2, LowestFree DEF Rd!StatusRead
  <1>4. /\ ChildFds \ (v1 \cup {Rd!StatusRead}) \subseteq Nat
        /\ ChildFds \ (v1 \cup {Rd!StatusRead}) # {}
    BY <1>1, <1>2
  <1>5. Rd!StatusWrite \in ChildFds \ (v1 \cup {Rd!StatusRead})
    BY <1>4, LowestFree DEF Rd!StatusWrite
  <1> QED
    BY <1>3, <1>5

LEMMA EndsOfFork ==
    ASSUME Rd!TypeOK, NEW f \in ChildFds
    PROVE  /\ Rd!Kept(f) \in Rd!Ends /\ Rd!Kept(f).of = f /\ Rd!Kept(f) # None
           /\ Rd!Closing(f) \in Rd!Ends /\ Rd!Closing(f).of = f /\ Rd!Closing(f) # None
           /\ ~Rd!Kept(f).cloexec /\ Rd!Closing(f).cloexec
           /\ Rd!AtFork(f) \in Rd!Ends \cup {None}
           /\ f \in v1 \cup {Rd!StatusWrite} => Rd!AtFork(f) # None /\ Rd!AtFork(f).of = f
  <1>1. Rd!Kept(f) \in Rd!Ends /\ Rd!Kept(f).of = f
    BY DEF Rd!Kept, Rd!Ends
  <1>2. Rd!Closing(f) \in Rd!Ends /\ Rd!Closing(f).of = f
    BY DEF Rd!Closing, Rd!Ends
  <1>3. ~Rd!Kept(f).cloexec
    BY DEF Rd!Kept
  <1>4. Rd!Closing(f).cloexec
    BY DEF Rd!Closing
  <1>5. Rd!Kept(f) # None /\ Rd!Closing(f) # None
    BY <1>1, <1>2, RedirectAssumption
  <1> QED
    BY <1>1, <1>2, <1>3, <1>4, <1>5 DEF Rd!AtFork

\* A source that no stream before has replaced is what the program has.
LEMMA SourceIs ==
    ASSUME Rd!TypeOK, NEW k \in 1..3, Rd!MovedTo(k - 1), v3[k] # None
    PROVE  /\ v3[k] \in v1 /\ v3[k] \in ChildFds
           /\ ~Rd!Replaced(k) => v4[v3[k]] # None /\ v4[v3[k]].of = v3[k]
  <1>1. v3[k] \in v1 /\ v3[k] \in ChildFds
    BY RedirectAssumption DEF Rd!TypeOK, Rd!Streams
  <1>2. ~Rd!Replaced(k) => ~Rd!Moved(k - 1, v3[k])
    BY DEF Rd!Replaced, Rd!Moved
  <1>3. ~Rd!Replaced(k) => v4[v3[k]] = Rd!AtFork(v3[k])
    BY <1>1, <1>2 DEF Rd!MovedTo
  <1> QED
    BY <1>1, <1>3, EndsOfFork

LEMMA RedirectInit == Rd!Init => Rd!RedirectInv
  <1> SUFFICES ASSUME Rd!Init PROVE Rd!RedirectInv
    OBVIOUS
  <1>0. /\ v1 \in Opens /\ v2 \in SUBSET v1 /\ v3 \in [Rd!Streams -> v1 \cup {None}]
        /\ v4 = [f \in ChildFds |-> Rd!AtFork(f)]
        /\ v5 = "in" /\ v6 = FALSE /\ v7 = FALSE /\ v8 = None
    BY DEF Rd!Init
  <1>1. Rd!StatusWrite \in ChildFds \ v1 /\ Rd!StatusRead \in ChildFds \ v1
    BY <1>0, PipeIsNew
  <1>2. ASSUME NEW f \in ChildFds
        PROVE  /\ Rd!AtFork(f) \in Rd!Ends \cup {None}
               /\ f = Rd!StatusWrite => Rd!AtFork(f) # None /\ Rd!AtFork(f).of = f
    <2>1. Rd!Kept(f) \in Rd!Ends
      BY DEF Rd!Kept, Rd!Ends
    <2>2. Rd!Closing(f) \in Rd!Ends /\ Rd!Closing(f).of = f
      BY DEF Rd!Closing, Rd!Ends
    <2> QED
      BY <1>1, <2>1, <2>2, RedirectAssumption DEF Rd!AtFork
  <1>3. v4 \in [ChildFds -> Rd!Ends \cup {None}] /\ \A f \in ChildFds : v4[f] = Rd!AtFork(f)
    BY <1>0, <1>2
  <1>4. Rd!TypeOK
    BY <1>0, <1>3 DEF Rd!TypeOK
  <1>5. Rd!TableKnown
    <2>1. Rd!MovedTo(0)
      <3>1. \A f \in v1 : f \in ChildFds /\ Rd!AtFork(f) # None
        BY <1>4, EndsOfFork, RedirectAssumption DEF Rd!TypeOK
      <3> QED
        BY <1>3, <3>1 DEF Rd!MovedTo, Rd!StreamsMoved
    <2>2. \A k \in 1..4 : v5 = Rd!Steps[k] => k = 1
      BY <1>0 DEF Rd!Steps
    <2>3. \A k \in 1..4 : v5 = Rd!Steps[k] => Rd!MovedTo(k - 1)
      BY <2>1, <2>2
    <2> QED
      BY <1>0, <2>3 DEF Rd!TableKnown, Rd!RedirectedAsAsked
  <1>6. Rd!PipeKnown
    BY <1>0, <1>1, <1>2, <1>3, RedirectAssumption DEF Rd!PipeKnown
  <1> QED
    BY <1>4, <1>5, <1>6 DEF Rd!RedirectInv

\* What a step of the child leaves as it is.
LEMMA StreamsKeep ==
    ASSUME UNCHANGED <<v1, v2, v3>>
    PROVE  /\ \A k \in 1..3 : Rd!Moves(k)' = Rd!Moves(k) /\ Rd!Replaced(k)' = Rd!Replaced(k)
           /\ \A n \in 0..3, f \in ChildFds : Rd!Moved(n, f)' = Rd!Moved(n, f)
           /\ \A f \in ChildFds : Rd!AtFork(f)' = Rd!AtFork(f)
           /\ Rd!StatusWrite' = Rd!StatusWrite /\ Rd!StatusOverwritten' = Rd!StatusOverwritten
           /\ Rd!Closed' = Rd!Closed
  BY DEF Rd!Moves, Rd!Replaced, Rd!Moved, Rd!AtFork, Rd!StatusWrite, Rd!StatusRead,
         Rd!StatusOverwritten, Rd!Closed, Rd!Sources

LEMMA TableKeeps ==
    ASSUME UNCHANGED <<v1, v2, v3, v4, v5, v6>>, Rd!TableKnown
    PROVE  Rd!TableKnown'
  <1>1. /\ \A k \in 1..3 : Rd!Moves(k)' = Rd!Moves(k) /\ Rd!Replaced(k)' = Rd!Replaced(k)
        /\ \A n \in 0..3, f \in ChildFds : Rd!Moved(n, f)' = Rd!Moved(n, f)
        /\ \A f \in ChildFds : Rd!AtFork(f)' = Rd!AtFork(f)
        /\ Rd!Closed' = Rd!Closed
    BY StreamsKeep
  <1>2. ASSUME NEW n \in 0..3, Rd!StreamsMoved(n) PROVE Rd!StreamsMoved(n)'
    BY <1>1, <1>2 DEF Rd!StreamsMoved, Rd!Target, Rd!Kept
  <1>3. ASSUME NEW n \in 0..3, Rd!MovedTo(n) PROVE Rd!MovedTo(n)'
    BY <1>1, <1>2, <1>3 DEF Rd!MovedTo
  <1>4. Rd!RedirectedAsAsked'
    BY DEF Rd!TableKnown, Rd!RedirectedAsAsked, Rd!Replaced, Rd!Refused, Rd!Moves, Rd!Inherited, Rd!Sources
  <1>5. \A k \in 1..4 : v5' = Rd!Steps[k] => Rd!MovedTo(k - 1)'
    BY <1>3 DEF Rd!TableKnown
  <1> QED
    BY <1>1, <1>2, <1>3, <1>4, <1>5 DEF Rd!TableKnown, Rd!Steps

LEMMA DupKeeps ==
    ASSUME Rd!RedirectInv, NEW k \in 1..3, Rd!Redirect(k)
    PROVE  Rd!RedirectInv'
  <1>0. Rd!TypeOK /\ Rd!TableKnown /\ Rd!PipeKnown
    BY DEF Rd!RedirectInv
  <1>1. /\ v5 = Rd!Steps[k] /\ v5' = Rd!Steps[k + 1] /\ UNCHANGED <<v1, v2, v3, v6, v7, v8>>
        /\ v4' = IF Rd!Moves(k) THEN Rd!Dup2(k) ELSE v4
    BY DEF Rd!Redirect, Rd!program
  <1>2. /\ v5 \in {"in", "out", "err"} /\ v5' \in {"out", "err", "chdir"}
        /\ \A n \in 1..4 : v5' = Rd!Steps[n] => n = k + 1
    BY <1>1 DEF Rd!Steps
  <1>3. Rd!MovedTo(k - 1)
    BY <1>0, <1>1 DEF Rd!TableKnown
  <1>4. Rd!Target(k) \in ChildFds /\ \A j \in 1..3 : j # k => Rd!Target(j) # Rd!Target(k)
    BY RedirectAssumption DEF Rd!Target
  <1>5. /\ \A j \in 1..3 : Rd!Moves(j)' = Rd!Moves(j) /\ Rd!Replaced(j)' = Rd!Replaced(j)
        /\ \A n \in 0..3, f \in ChildFds : Rd!Moved(n, f)' = Rd!Moved(n, f)
        /\ \A f \in ChildFds : Rd!AtFork(f)' = Rd!AtFork(f)
        /\ Rd!StatusWrite' = Rd!StatusWrite /\ Rd!StatusOverwritten' = Rd!StatusOverwritten
    BY <1>1, StreamsKeep
  <1>6. ASSUME Rd!Moves(k)
        PROVE  \E x \in Rd!Ends : /\ v4' = [v4 EXCEPT ![Rd!Target(k)] = x]
                                  /\ ~Rd!Replaced(k) => x = Rd!Kept(v3[k])
    <2>1. v3[k] # None
      BY <1>6 DEF Rd!Moves
    <2>2. /\ v3[k] \in v1 /\ v3[k] \in ChildFds
          /\ ~Rd!Replaced(k) => v4[v3[k]] # None /\ v4[v3[k]].of = v3[k]
      BY <1>0, <1>3, <2>1, SourceIs
    <2>3. v4' = [v4 EXCEPT ![Rd!Target(k)] = Rd!Kept(v4[v3[k]].of)]
      BY <1>1, <1>4, <1>6 DEF Rd!Dup2
    <2>4. v4[v3[k]] # None /\ v4[v3[k]] \in Rd!Ends \cup {None}
      BY <1>0, <1>3, <2>2 DEF Rd!MovedTo, Rd!TypeOK
    <2>5. v4[v3[k]].of \in ChildFds
      BY <2>4 DEF Rd!Ends
    <2>6. Rd!Kept(v4[v3[k]].of) \in Rd!Ends
      BY <1>0, <2>5, EndsOfFork
    <2> QED
      BY <2>2, <2>3, <2>6
  <1>7. CASE ~Rd!Moves(k)
    <2>1. v4' = v4
      BY <1>1, <1>7
    <2>2. Rd!TypeOK'
      BY <1>0, <1>1, <1>2, <2>1 DEF Rd!TypeOK
    <2>3. \A f \in ChildFds : Rd!Moved(k, f) => Rd!Moved(k - 1, f)
      BY <1>7 DEF Rd!Moved
    <2>4. Rd!StreamsMoved(k)' /\ \A f \in v1' : v4'[f] # None
      BY <1>1, <1>3, <1>5, <1>7, <2>1 DEF Rd!MovedTo, Rd!StreamsMoved, Rd!Target, Rd!Kept
    <2>5. Rd!MovedTo(k)'
      BY <1>3, <1>5, <2>1, <2>3, <2>4 DEF Rd!MovedTo, Rd!Moved
    <2>6. Rd!TableKnown'
      BY <1>2, <2>5 DEF Rd!TableKnown, Rd!RedirectedAsAsked
    <2>7. Rd!PipeKnown'
      BY <1>0, <1>1, <1>2, <1>5, <2>1 DEF Rd!PipeKnown
    <2> QED
      BY <2>2, <2>6, <2>7 DEF Rd!RedirectInv
  <1>8. CASE Rd!Moves(k)
    <2>1. PICK x \in Rd!Ends : /\ v4' = [v4 EXCEPT ![Rd!Target(k)] = x]
                               /\ ~Rd!Replaced(k) => x = Rd!Kept(v3[k])
      BY <1>6, <1>8
    <2>2. Rd!TypeOK'
      BY <1>0, <1>1, <1>2, <1>4, <2>1 DEF Rd!TypeOK
    <2>3. x # None
      BY RedirectAssumption
    <2>4. v4'[Rd!Target(k)] = x /\ \A f \in ChildFds : f # Rd!Target(k) => v4'[f] = v4[f]
      BY <1>0, <1>4, <2>1 DEF Rd!TypeOK
    <2>5. v1 \subseteq ChildFds
      BY <1>0, RedirectAssumption DEF Rd!TypeOK
    <2>6. \A f \in v1' : v4'[f] # None
      BY <1>1, <1>3, <2>3, <2>4, <2>5 DEF Rd!MovedTo
    <2>7. Rd!StreamsMoved(k)'
      <3>1. ASSUME NEW j \in 1..k, Rd!Moves(j)
            PROVE  Rd!Replaced(j) \/ v4'[Rd!Target(j)] = Rd!Kept(v3[j])
        <4>1. CASE j = k
          BY <2>1, <2>4, <4>1
        <4>2. CASE j # k
          <5>1. j \in 1..(k - 1) /\ Rd!Target(j) \in ChildFds /\ Rd!Target(j) # Rd!Target(k)
            BY <1>4, <4>2, RedirectAssumption DEF Rd!Target
          <5>2. Rd!Replaced(j) \/ v4[Rd!Target(j)] = Rd!Kept(v3[j])
            BY <1>3, <3>1, <5>1 DEF Rd!MovedTo, Rd!StreamsMoved
          <5> QED
            BY <2>4, <5>1, <5>2
        <4> QED
          BY <4>1, <4>2
      <3> QED
        BY <1>1, <1>5, <3>1 DEF Rd!StreamsMoved, Rd!Target, Rd!Kept
    <2>8. ASSUME NEW f \in ChildFds, ~Rd!Moved(k, f) PROVE v4'[f] = Rd!AtFork(f)
      <3>1. f # Rd!Target(k) /\ ~Rd!Moved(k - 1, f)
        BY <1>8, <2>8 DEF Rd!Moved
      <3> QED
        BY <1>3, <2>4, <3>1 DEF Rd!MovedTo
    <2>9. Rd!MovedTo(k)'
      BY <1>5, <2>6, <2>7, <2>8 DEF Rd!MovedTo
    <2>10. Rd!TableKnown'
      BY <1>2, <2>9 DEF Rd!TableKnown, Rd!RedirectedAsAsked
    <2>11. Rd!PipeKnown'
      <3>1. ASSUME ~Rd!StatusOverwritten PROVE Rd!Target(k) # Rd!StatusWrite
        BY <1>8, <3>1 DEF Rd!StatusOverwritten, Rd!Streams
      <3>2. Rd!StatusWrite \in ChildFds
        BY <1>0, PipeIsNew DEF Rd!TypeOK
      <3> QED
        BY <1>0, <1>1, <1>2, <1>5, <2>4, <3>1, <3>2 DEF Rd!PipeKnown
    <2> QED
      BY <2>2, <2>10, <2>11 DEF Rd!RedirectInv
  <1> QED
    BY <1>7, <1>8

LEMMA FailingKeeps ==
    ASSUME Rd!RedirectInv,
           \/ \E k \in 1..3 : Rd!RedirectFails(k)
           \/ Rd!Chdir \/ Rd!ExecFails \/ Rd!Tell \/ Rd!ReadFailure \/ Rd!ReadEof
    PROVE  Rd!RedirectInv'
  <1>0. Rd!TypeOK /\ Rd!TableKnown /\ Rd!PipeKnown
    BY DEF Rd!RedirectInv
  <1>1. UNCHANGED <<v1, v2, v3>>
    BY DEF Rd!RedirectFails, Rd!Chdir, Rd!ExecFails, Rd!Tell, Rd!ReadFailure, Rd!ReadEof, Rd!program
  <1>2. /\ \A j \in 1..3 : Rd!Moves(j)' = Rd!Moves(j) /\ Rd!Replaced(j)' = Rd!Replaced(j)
        /\ \A n \in 0..3, f \in ChildFds : Rd!Moved(n, f)' = Rd!Moved(n, f)
        /\ \A f \in ChildFds : Rd!AtFork(f)' = Rd!AtFork(f)
        /\ Rd!StatusWrite' = Rd!StatusWrite /\ Rd!StatusOverwritten' = Rd!StatusOverwritten
        /\ Rd!Closed' = Rd!Closed
    BY <1>1, StreamsKeep
  <1>3. Rd!StatusWrite \in ChildFds
    BY <1>0, PipeIsNew DEF Rd!TypeOK
  <1>4. CASE \E k \in 1..3 : Rd!RedirectFails(k)
    <2>1. v5 \in {"in", "out", "err"} /\ v5' = "close" /\ v6' = TRUE /\ UNCHANGED <<v4, v7, v8>>
      BY <1>4 DEF Rd!RedirectFails, Rd!program, Rd!Steps
    <2>2. Rd!TypeOK'
      BY <1>0, <1>1, <2>1 DEF Rd!TypeOK
    <2>3. Rd!TableKnown'
      BY <2>1 DEF Rd!TableKnown, Rd!RedirectedAsAsked, Rd!Steps
    <2>4. Rd!PipeKnown'
      BY <1>0, <1>2, <2>1 DEF Rd!PipeKnown
    <2> QED
      BY <2>2, <2>3, <2>4 DEF Rd!RedirectInv
  <1>5. CASE Rd!Chdir
    <2>1. v5 = "chdir" /\ v5' = "close" /\ v6' \in BOOLEAN /\ UNCHANGED <<v4, v7, v8>>
      BY <1>5 DEF Rd!Chdir, Rd!program
    <2>2. Rd!TypeOK'
      BY <1>0, <1>1, <2>1 DEF Rd!TypeOK
    <2>3. Rd!MovedTo(3)
      <3>1. v5 = Rd!Steps[4]
        BY <2>1 DEF Rd!Steps
      <3>2. v5 = Rd!Steps[4] => Rd!MovedTo(4 - 1)
        BY <1>0 DEF Rd!TableKnown
      <3> QED
        BY <3>1, <3>2
    <2>4. Rd!MovedTo(3)'
      BY <1>1, <1>2, <2>1, <2>3 DEF Rd!MovedTo, Rd!StreamsMoved, Rd!Target, Rd!Kept
    <2>5. Rd!TableKnown'
      BY <2>1, <2>4 DEF Rd!TableKnown, Rd!RedirectedAsAsked, Rd!Steps
    <2>6. Rd!PipeKnown'
      BY <1>0, <1>2, <2>1 DEF Rd!PipeKnown
    <2> QED
      BY <2>2, <2>5, <2>6 DEF Rd!RedirectInv
  <1>6. CASE Rd!ExecFails
    <2>1. v5 = "exec" /\ v5' = "tell" /\ v6' = TRUE /\ UNCHANGED <<v4, v7, v8>>
      BY <1>6 DEF Rd!ExecFails, Rd!program, Rd!AfterExec
    <2>2. Rd!TypeOK'
      BY <1>0, <1>1, <2>1 DEF Rd!TypeOK
    <2>3. Rd!TableKnown'
      BY <2>1 DEF Rd!TableKnown, Rd!RedirectedAsAsked, Rd!Steps
    <2>4. Rd!PipeKnown'
      BY <1>0, <1>2, <2>1 DEF Rd!PipeKnown
    <2> QED
      BY <2>2, <2>3, <2>4 DEF Rd!RedirectInv
  <1>7. CASE Rd!Tell
    <2>1. v5 = "tell" /\ v5' = "gone" /\ v7' = (v4[Rd!StatusWrite].of = Rd!StatusWrite) /\ UNCHANGED <<v6, v8>>
          /\ v4' = [f \in ChildFds |-> None]
      BY <1>7 DEF Rd!Tell, Rd!program
    <2>2. Rd!TypeOK'
      BY <1>0, <1>1, <2>1 DEF Rd!TypeOK
    <2>3. Rd!TableKnown'
      BY <2>1 DEF Rd!TableKnown, Rd!RedirectedAsAsked, Rd!Steps
    <2>4. Rd!PipeKnown'
      BY <1>0, <1>2, <2>1 DEF Rd!PipeKnown
    <2> QED
      BY <2>2, <2>3, <2>4 DEF Rd!RedirectInv
  <1>8. CASE Rd!ReadFailure \/ Rd!ReadEof
    <2>1. UNCHANGED <<v4, v5, v6, v7>>
      BY <1>8 DEF Rd!ReadFailure, Rd!ReadEof
    <2>2. Rd!TypeOK'
      BY <1>0, <1>1, <2>1 DEF Rd!TypeOK
    <2>3. Rd!TableKnown'
      <3>1. UNCHANGED v6
        BY <2>1
      <3> QED
        BY <1>0, <1>1, <2>1, TableKeeps
    <2>4. ASSUME ~Rd!StatusOverwritten, v8' = "handle" PROVE v5 = "runs"
      <3>1. CASE Rd!ReadFailure
        BY <2>4, <3>1 DEF Rd!ReadFailure
      <3>2. CASE Rd!ReadEof
        <4>1. ~v7 /\ Rd!StatusWrite \notin Rd!WriteEnds
          BY <3>2 DEF Rd!ReadEof
        <4>2. ~(v4[Rd!StatusWrite] # None /\ v4[Rd!StatusWrite].of = Rd!StatusWrite)
          BY <1>3, <4>1 DEF Rd!WriteEnds
        <4> QED
          BY <1>0, <2>4, <4>1, <4>2 DEF Rd!PipeKnown, Rd!TypeOK
      <3> QED
        BY <1>8, <3>1, <3>2
    <2>5. Rd!PipeKnown'
      BY <1>0, <1>2, <2>1, <2>4 DEF Rd!PipeKnown
    <2> QED
      BY <2>2, <2>3, <2>5 DEF Rd!RedirectInv
  <1> QED
    BY <1>4, <1>5, <1>6, <1>7, <1>8

LEMMA ClosingKeeps ==
    ASSUME Rd!RedirectInv, Rd!CloseSources
    PROVE  Rd!RedirectInv'
  <1>0. Rd!TypeOK /\ Rd!TableKnown /\ Rd!PipeKnown
    BY DEF Rd!RedirectInv
  <1>1. /\ v5 = "close" /\ v5' = (IF v6 THEN "tell" ELSE "exec") /\ UNCHANGED <<v1, v2, v3, v6, v7, v8>>
        /\ v4' = [f \in ChildFds |-> IF f \in Rd!Closed THEN None ELSE v4[f]]
    BY DEF Rd!CloseSources, Rd!program
  <1>2. /\ \A j \in 1..3 : Rd!Moves(j)' = Rd!Moves(j) /\ Rd!Replaced(j)' = Rd!Replaced(j)
        /\ \A n \in 0..3, f \in ChildFds : Rd!Moved(n, f)' = Rd!Moved(n, f)
        /\ \A f \in ChildFds : Rd!AtFork(f)' = Rd!AtFork(f)
        /\ Rd!StatusWrite' = Rd!StatusWrite /\ Rd!StatusOverwritten' = Rd!StatusOverwritten
        /\ Rd!Closed' = Rd!Closed
    BY <1>1, StreamsKeep
  <1>3. v5' \in {"tell", "exec"} /\ (v5' = "exec" => ~v6)
    BY <1>1
  <1>4. Rd!TypeOK'
    BY <1>0, <1>1, <1>3 DEF Rd!TypeOK
  <1>5. ASSUME v5' = "exec" PROVE Rd!MovedTo(3)
    BY <1>0, <1>1, <1>3, <1>5 DEF Rd!TableKnown
  <1>6. \A f \in ChildFds : v4'[f] = IF f \in Rd!Closed THEN None ELSE v4[f]
    BY <1>1
  <1>7. ASSUME v5' = "exec" PROVE Rd!StreamsMoved(3)'
    <2>1. ASSUME NEW j \in 1..3, Rd!Moves(j)
          PROVE  Rd!Replaced(j) \/ v4'[Rd!Target(j)] = Rd!Kept(v3[j])
      <3>1. Rd!Target(j) \in ChildFds /\ Rd!Target(j) \notin Rd!Closed
        BY RedirectAssumption DEF Rd!Target, Rd!Closed
      <3> QED
        BY <1>5, <1>6, <1>7, <2>1, <3>1 DEF Rd!MovedTo, Rd!StreamsMoved
    <2> QED
      BY <1>1, <1>2, <2>1 DEF Rd!StreamsMoved, Rd!Target, Rd!Kept
  <1>8. ASSUME v5' = "exec", NEW f \in ChildFds
        PROVE  IF f \in Rd!Closed THEN v4'[f] = None ELSE ~Rd!Moved(3, f) => v4'[f] = Rd!AtFork(f)
    BY <1>5, <1>6, <1>8 DEF Rd!MovedTo
  <1>9. Rd!TableKnown'
    BY <1>2, <1>3, <1>7, <1>8 DEF Rd!TableKnown, Rd!RedirectedAsAsked, Rd!Steps
  <1>10. Rd!PipeKnown'
    <2>1. Rd!StatusWrite \in ChildFds /\ Rd!StatusWrite \notin v1
      BY <1>0, PipeIsNew DEF Rd!TypeOK
    <2>2. Rd!StatusWrite \notin Rd!Closed
      BY <1>0, <2>1, RedirectAssumption DEF Rd!Closed, Rd!Sources, Rd!TypeOK
    <2> QED
      BY <1>0, <1>1, <1>2, <1>3, <1>6, <2>1, <2>2 DEF Rd!PipeKnown
  <1> QED
    BY <1>4, <1>9, <1>10 DEF Rd!RedirectInv

LEMMA ExecKeeps ==
    ASSUME Rd!RedirectInv, Rd!Exec
    PROVE  Rd!RedirectInv'
  <1>0. Rd!TypeOK /\ Rd!TableKnown /\ Rd!PipeKnown
    BY DEF Rd!RedirectInv
  <1>1. /\ v5 = "exec" /\ v5' = "runs" /\ UNCHANGED <<v1, v2, v3, v6, v7, v8>>
        /\ v4' = [f \in ChildFds |-> IF v4[f] # None /\ v4[f].cloexec THEN None ELSE v4[f]]
    BY DEF Rd!Exec, Rd!program
  <1>2. Rd!TypeOK'
    BY <1>0, <1>1 DEF Rd!TypeOK
  <1>3. /\ Rd!StreamsMoved(3)
        /\ \A f \in ChildFds : IF f \in Rd!Closed THEN v4[f] = None
                                ELSE ~Rd!Moved(3, f) => v4[f] = Rd!AtFork(f)
    BY <1>0, <1>1 DEF Rd!TableKnown
  <1>4. \A f \in ChildFds : v4'[f] = IF v4[f] # None /\ v4[f].cloexec THEN None ELSE v4[f]
    BY <1>1
  <1>5. ASSUME NEW f \in ChildFds, v4[f] = Rd!AtFork(f) PROVE v4'[f] = Rd!Inherited(f)
    <2>1. CASE f \in v1 \ v2
      <3>1. Rd!AtFork(f) = Rd!Kept(f) /\ Rd!Inherited(f) = Rd!Kept(f)
        BY <2>1 DEF Rd!AtFork, Rd!Inherited
      <3> QED
        BY <1>0, <1>4, <1>5, <3>1, EndsOfFork
    <2>2. CASE f \notin v1 \ v2
      <3>1. Rd!AtFork(f) \in {Rd!Closing(f), None} /\ Rd!Inherited(f) = None
        BY <2>2 DEF Rd!AtFork, Rd!Inherited
      <3> QED
        BY <1>0, <1>4, <1>5, <3>1, EndsOfFork
    <2> QED
      BY <2>1, <2>2
  <1>6. ASSUME NEW k \in 1..3
        PROVE  /\ Rd!Target(k) \in ChildFds /\ Rd!Target(k) \notin Rd!Closed
               /\ ~Rd!Moves(k) => ~Rd!Moved(3, Rd!Target(k))
    BY RedirectAssumption DEF Rd!Target, Rd!Closed, Rd!Moved
  <1>7. ASSUME NEW k \in 1..3, v3[k] = None PROVE v4'[Rd!Target(k)] = Rd!Inherited(Rd!Target(k))
    <2>1. ~Rd!Moves(k)
      BY <1>7 DEF Rd!Moves
    <2>2. v4[Rd!Target(k)] = Rd!AtFork(Rd!Target(k))
      BY <1>3, <1>6, <2>1
    <2> QED
      BY <1>5, <1>6, <2>2
  <1>8. ASSUME NEW k \in 1..3, v3[k] # None, ~Rd!Replaced(k), ~Rd!Refused(k)
        PROVE  v4'[Rd!Target(k)] = Rd!Kept(v3[k])
    <2>1. v3[k] \in v1 /\ v3[k] \in ChildFds
      BY <1>0, <1>8, RedirectAssumption DEF Rd!TypeOK, Rd!Streams
    <2>2. CASE Rd!Moves(k)
      <3>1. v4[Rd!Target(k)] = Rd!Kept(v3[k])
        BY <1>3, <1>8, <2>2 DEF Rd!StreamsMoved
      <3>2. ~Rd!Kept(v3[k]).cloexec
        BY <1>0, <2>1, EndsOfFork
      <3> QED
        BY <1>4, <1>6, <3>1, <3>2
    <2>3. CASE ~Rd!Moves(k)
      <3>1. v3[k] = Rd!Target(k) /\ v3[k] \notin v2
        BY <1>8, <2>3 DEF Rd!Moves, Rd!Refused
      <3>2. v4[Rd!Target(k)] = Rd!AtFork(Rd!Target(k))
        BY <1>3, <1>6, <2>3
      <3>3. v4'[Rd!Target(k)] = Rd!Inherited(Rd!Target(k))
        BY <1>5, <1>6, <3>2
      <3> QED
        BY <2>1, <3>1, <3>3 DEF Rd!Inherited
    <2> QED
      BY <2>2, <2>3
  <1>9. ASSUME NEW f \in ChildFds, f \notin 0..2
        PROVE  v4'[f] = IF f \in Rd!Sources THEN None ELSE Rd!Inherited(f)
    <2>1. f > 2
      BY <1>9, RedirectAssumption
    <2>2. f \in Rd!Closed <=> f \in Rd!Sources
      BY <2>1 DEF Rd!Closed
    <2>3. ~Rd!Moved(3, f)
      BY <2>1, RedirectAssumption DEF Rd!Moved, Rd!Target
    <2>4. CASE f \in Rd!Sources
      BY <1>3, <1>4, <2>2, <2>4
    <2>5. CASE f \notin Rd!Sources
      BY <1>3, <1>5, <2>2, <2>3, <2>5
    <2> QED
      BY <2>4, <2>5
  <1>10. Rd!RedirectedAsAsked'
    <2>1. ASSUME NEW k \in Rd!Streams
          PROVE  IF v3'[k] = None THEN v4'[Rd!Target(k)] = Rd!Inherited(Rd!Target(k))'
                 ELSE Rd!Replaced(k)' \/ Rd!Refused(k)' \/ v4'[Rd!Target(k)] = Rd!Kept(v3'[k])
      BY <1>1, <1>7, <1>8 DEF Rd!Streams, Rd!Inherited, Rd!Replaced, Rd!Moves, Rd!Refused
    <2>2. ASSUME NEW f \in ChildFds \ (0..2)
          PROVE  v4'[f] = IF f \in Rd!Sources' THEN None ELSE Rd!Inherited(f)'
      BY <1>1, <1>9 DEF Rd!Sources, Rd!Inherited
    <2> QED
      BY <2>1, <2>2 DEF Rd!RedirectedAsAsked, Rd!Target, Rd!Kept, Rd!Inherited
  <1>11. Rd!TableKnown'
    BY <1>1, <1>10 DEF Rd!TableKnown, Rd!Steps
  <1>12. Rd!PipeKnown'
    BY <1>0, <1>1, StreamsKeep DEF Rd!PipeKnown
  <1> QED
    BY <1>2, <1>11, <1>12 DEF Rd!RedirectInv

LEMMA RedirectStep == Rd!RedirectInv /\ Rd!Next => Rd!RedirectInv'
  BY DupKeeps, FailingKeeps, ClosingKeeps, ExecKeeps DEF Rd!Next, Rd!Streams

\* The child that process_unix.c makes, for every set of descriptors: its streams are what
\* was asked for or is inherited, no source leaks, and its failure is told.
THEOREM RedirectionsCorrect == MCSpec => [](part = "redirect" => Rd!RedirectedAsAsked /\ Rd!FailureIsTold)
  <1> DEFINE Inv == part = "redirect" => Rd!RedirectInv
  <1>1. MCInit => Inv
    BY RedirectInit DEF MCInit
  <1>2. Inv /\ [MCNext]_<<part, vars, others>> => Inv'
    <2> SUFFICES ASSUME Inv, [MCNext]_<<part, vars, others>>, part' = "redirect"
                 PROVE  Rd!RedirectInv'
      OBVIOUS
    <2>1. CASE UNCHANGED <<part, vars, others>>
      <3>1. UNCHANGED <<v1, v2, v3, v4, v5, v6, v7, v8, part>>
        BY <2>1 DEF others
      <3>2. Rd!RedirectInv
        BY <3>1
      <3>3. Rd!TypeOK' /\ Rd!TableKnown'
        BY <3>1, <3>2, TableKeeps DEF Rd!RedirectInv, Rd!TypeOK
      <3>4. Rd!PipeKnown'
        BY <3>1, <3>2, StreamsKeep DEF Rd!RedirectInv, Rd!PipeKnown
      <3> QED
        BY <3>3, <3>4 DEF Rd!RedirectInv
    <2>2. CASE MCNext
      BY <2>2, RedirectStep DEF MCNext
    <2> QED
      BY <2>1, <2>2
  <1>3. Inv => (part = "redirect" => Rd!RedirectedAsAsked /\ Rd!FailureIsTold)
    BY DEF Rd!RedirectInv, Rd!TableKnown, Rd!PipeKnown, Rd!FailureIsTold
  <1> QED
    BY <1>1, <1>2, <1>3, PTL DEF MCSpec
-----------------------------------------------------------------------------
(* The handles of files, ucb_file.                                         *)

LEMMA LowestOne ==
    ASSUME NEW S, S \subseteq Nat, S # {}
    PROVE  Fh!Lowest(S) \in S
  <1>1. Rd!Lowest(S) \in S /\ \A x \in S : Rd!Lowest(S) <= x
    BY LowestFree
  <1> QED
    BY <1>1, Zenon DEF Fh!Lowest

\* A new descriptor has a number that is free.
LEMMA NewNumbers ==
    ASSUME Fh!TypeOK
    PROVE  /\ Fh!Free # {} => Fh!NewFd \in HandleFds /\ v1[Fh!NewFd] = None
           /\ Fh!Two(Fh!Free) => /\ Fh!NewFd \in HandleFds /\ v1[Fh!NewFd] = None
                                 /\ Fh!Second \in HandleFds /\ v1[Fh!Second] = None
                                 /\ Fh!Second # Fh!NewFd
  <1>1. Fh!Free \subseteq Nat /\ Fh!Free \subseteq HandleFds /\ \A fd \in Fh!Free : v1[fd] = None
    BY HandleAssumption DEF Fh!Free
  <1>2. Fh!Free # {} => Fh!NewFd \in Fh!Free
    BY <1>1, LowestOne DEF Fh!NewFd
  <1>3. ASSUME Fh!Two(Fh!Free) PROVE Fh!Second \in Fh!Free \ {Fh!NewFd} /\ Fh!Free # {}
    <2>1. Fh!Free \ {Fh!NewFd} # {} /\ Fh!Free # {}
      BY <1>3 DEF Fh!Two
    <2>2. Fh!Free \ {Fh!NewFd} \subseteq Nat
      BY <1>1
    <2> QED
      BY <2>1, <2>2, LowestOne DEF Fh!Second
  <1> QED
    BY <1>1, <1>2, <1>3

LEMMA NewDescriptor ==
    ASSUME v3 \in Nat, NEW n \in Nat
    PROVE  /\ \A flags \in {{}, {"cloexec"}, {"inherit"}} :
                 /\ Fh!Descriptor(n, "ucb", "cloexec" \in flags) \in Fh!Descs \ {None}
                 /\ Fh!Descriptor(n, "ucb", "cloexec" \in flags).who = "ucb"
           /\ \A b \in BOOLEAN, who \in {"ucb", "other"} :
                 /\ Fh!Descriptor(n, who, b) \in Fh!Descs \ {None}
                 /\ Fh!Descriptor(n, who, b).who = who
  <1>1. ASSUME NEW flags \in {{}, {"cloexec"}, {"inherit"}}
        PROVE  /\ Fh!Descriptor(n, "ucb", "cloexec" \in flags) \in Fh!Descs
               /\ Fh!Descriptor(n, "ucb", "cloexec" \in flags).who = "ucb"
    BY DEF Fh!Descriptor, Fh!Descs
  <1>2. ASSUME NEW who \in {"ucb", "other"}, NEW b \in BOOLEAN
        PROVE  Fh!Descriptor(n, who, b) \in Fh!Descs /\ Fh!Descriptor(n, who, b).who = who
    BY DEF Fh!Descriptor, Fh!Descs
  <1>3. None \notin Fh!Descs
    BY HandleAssumption
  <1> QED
    BY <1>1, <1>2, <1>3, Zenon

LEMMA CallIsNotIdle ==
    ASSUME NEW c \in Fh!Calls
    PROVE  c # Fh!Idle
  <1>1. c.fn \in {"open", "pipe", "dup"}
    BY DEF Fh!Calls
  <1>2. Fh!Idle.fn = "none"
    BY DEF Fh!Idle
  <1> QED
    BY <1>1, <1>2

LEMMA SameSize == \A S : Fh!Cardinality(S) = Cardinality(S)
  BY DEF Fh!Cardinality, Cardinality

LEMMA MadeSize == Cardinality({}) = 0 /\ \A h : Cardinality({h}) = 1
  BY FS_EmptySet, FS_Singleton

\* What a handle has is not disturbed by a descriptor that is opened, and nobody has that.
LEMMA OpeningKeeps ==
    ASSUME Fh!HandlesKnown, Fh!TypeOK, v2' = v2,
           \A fd \in HandleFds : v1[fd] # None => v1'[fd] = v1[fd]
    PROVE  /\ Fh!HandlesKnown'
           /\ \A fd \in HandleFds : v1[fd] = None /\ v1'[fd] # None /\ v1'[fd].who = "ucb" => Fh!Waits(fd)'
           /\ \A fd \in HandleFds : Fh!Waits(fd) => Fh!Waits(fd)'
  <1>1. \A h \in Handles : Fh!Usable(h) => v2[h].fd \in HandleFds
    BY DEF Fh!TypeOK, Fh!Usable, Fh!Objects
  <1>2. \A h \in Handles : Fh!Usable(h)' = Fh!Usable(h) /\ \A fd \in HandleFds : Fh!Has(h, fd)' = Fh!Has(h, fd)
    BY DEF Fh!Usable, Fh!Has
  <1>3. \A h \in Handles : Fh!Usable(h) => v1'[v2[h].fd] = v1[v2[h].fd] /\ v1[v2[h].fd] # None
    BY <1>1 DEF Fh!HandlesKnown, Fh!Right
  <1>4. \A h \in Handles : Fh!Usable(h)' => Fh!Right(v2[h])'
    BY <1>2, <1>3 DEF Fh!HandlesKnown, Fh!Right, Fh!Tells
  <1>5. Fh!HandlesKnown'
    BY <1>1, <1>2, <1>4 DEF Fh!HandlesKnown
  <1>6. \A fd \in HandleFds, h \in Handles : v1[fd] = None => ~Fh!Has(h, fd)
    BY <1>3 DEF Fh!Has
  <1> QED
    BY <1>2, <1>5, <1>6 DEF Fh!Waits

LEMMA HandleInit == Fh!Init => Fh!HandleInv
  <1> SUFFICES ASSUME Fh!Init PROVE Fh!HandleInv
    OBVIOUS
  <1>1. Fh!TypeOK
    BY DEF Fh!Init, Fh!TypeOK
  <1>2. Fh!HandlesKnown /\ Fh!CallKnown /\ Fh!Accounted
    BY DEF Fh!Init, Fh!HandlesKnown, Fh!CallKnown, Fh!Accounted, Fh!Usable
  <1> QED
    BY <1>1, <1>2 DEF Fh!HandleInv

\* ucb_file_open_mode and ucb_file_dup.
LEMMA OpensKeep ==
    ASSUME Fh!TypeOK, Fh!HandlesKnown, Fh!Accounted, Fh!Open \/ \E h \in Handles : Fh!Dup(h)
    PROVE  Fh!TypeOK' /\ Fh!HandlesKnown' /\ Fh!CallKnown' /\ Fh!Accounted'
  <1>1. /\ v4 = Fh!Idle /\ v2' = v2 /\ v3' = v3 + 1 /\ v3 \in Nat /\ Fh!Unused # {} /\ Fh!Free # {}
    BY DEF Fh!Open, Fh!Dup, Fh!TypeOK
  <1>2. PICK n \in HandleFds : n = Fh!NewFd /\ v1[n] = None
    BY <1>1, NewNumbers
  <1>3. PICK d \in Fh!Descs : v1' = [v1 EXCEPT ![n] = d] /\ d.who = "ucb" /\ d # None
    <2>1. CASE Fh!Open
      <3>1. PICK flags \in {{}, {"cloexec"}, {"inherit"}} :
               v1' = [v1 EXCEPT ![n] = Fh!Descriptor(1, "ucb", "cloexec" \in flags)]
        BY <1>2, <2>1 DEF Fh!Open
      <3>2. /\ Fh!Descriptor(1, "ucb", "cloexec" \in flags) \in Fh!Descs \ {None}
            /\ Fh!Descriptor(1, "ucb", "cloexec" \in flags).who = "ucb"
        BY <1>1, NewDescriptor
      <3> QED
        BY <3>1, <3>2, Zenon
    <2>2. CASE \E h \in Handles : Fh!Dup(h)
      BY <1>1, <1>2, <2>2, NewDescriptor DEF Fh!Dup
    <2> QED
      BY <2>1, <2>2
  <1>4. /\ v1' \in [HandleFds -> Fh!Descs \cup {None}] /\ v1'[n] = d
        /\ \A fd \in HandleFds : fd # n => v1'[fd] = v1[fd]
    BY <1>3 DEF Fh!TypeOK
  <1>5. /\ Fh!HandlesKnown' /\ Fh!Waits(n)'
    BY <1>1, <1>2, <1>3, <1>4, OpeningKeeps
  <1>6. /\ v4' \in Fh!Calls /\ v4' # Fh!Idle /\ v4'.fn # "pipe" /\ v4'.fds = <<n>> /\ v4'.made = {}
        /\ v4'.at = "wrap" => v4'.flags = {}
        /\ v4'.fn = "open" /\ v4'.at = "inherit" => v4'.flags \in {{"cloexec"}, {"inherit"}}
        /\ v4'.fn = "dup" /\ v4'.at = "inherit" =>
              \E h \in Handles : Fh!Has(h, v4'.of) /\ v2[h].flags = v4'.flags
    <2>0. <<n>> \in Seq(HandleFds)
      OBVIOUS
    <2>1. CASE Fh!Open
      <3>1. PICK flags \in {{}, {"cloexec"}, {"inherit"}} :
               v4' = Fh!Calling("open", IF flags = {} THEN "wrap" ELSE "inherit", flags, <<n>>, None)
        BY <1>2, <2>1 DEF Fh!Open
      <3>2. PICK at \in {"wrap", "inherit"} : at = (IF flags = {} THEN "wrap" ELSE "inherit")
        OBVIOUS
      <3>3. flags \in SUBSET Fh!Flags
        BY DEF Fh!Flags
      <3>4. /\ v4' \in Fh!Calls /\ v4' # Fh!Idle /\ v4'.fn = "open" /\ v4'.at = at /\ v4'.flags = flags
            /\ v4'.fds = <<n>> /\ v4'.made = {}
        <4>1. PICK fds \in Seq(HandleFds) : fds = <<n>>
          BY <2>0
        <4>2. v4' = Fh!Calling("open", at, flags, fds, None)
          BY <3>1, <3>2, <4>1
        <4>3. /\ v4'.fn = "open" /\ v4'.at = at /\ v4'.flags = flags /\ v4'.fds = fds /\ v4'.made = {}
          BY <4>2 DEF Fh!Calling
        <4>4. v4' \in Fh!Calls
          BY <3>3, <4>2 DEF Fh!Calling, Fh!Calls
        <4> QED
          BY <4>1, <4>3, <4>4, CallIsNotIdle
      <3>5. at = "wrap" <=> flags = {}
        BY <3>2
      <3> QED
        BY <3>4, <3>5
    <2>2. CASE \E h \in Handles : Fh!Dup(h)
      <3>1. PICK h \in Handles : /\ v4' = Fh!Calling("dup", "inherit", v2[h].flags, <<n>>, v2[h].fd)
                                 /\ Fh!Usable(h)
        BY <1>2, <2>2 DEF Fh!Dup
      <3>2. v2[h].flags \in SUBSET Fh!Flags /\ v2[h].fd \in HandleFds
        BY <3>1 DEF Fh!TypeOK, Fh!Objects, Fh!Usable
      <3>3. /\ v4' \in Fh!Calls /\ v4' # Fh!Idle /\ v4'.fn = "dup" /\ v4'.at = "inherit"
            /\ v4'.flags = v2[h].flags /\ v4'.fds = <<n>> /\ v4'.made = {} /\ v4'.of = v2[h].fd
        <4>1. PICK fds \in Seq(HandleFds) : fds = <<n>>
          BY <2>0
        <4>2. v4' = Fh!Calling("dup", "inherit", v2[h].flags, fds, v2[h].fd)
          BY <3>1, <4>1
        <4>3. /\ v4'.fn = "dup" /\ v4'.at = "inherit" /\ v4'.flags = v2[h].flags
              /\ v4'.fds = fds /\ v4'.made = {} /\ v4'.of = v2[h].fd
          BY <4>2 DEF Fh!Calling
        <4>4. v4' \in Fh!Calls
          BY <3>2, <4>2 DEF Fh!Calling, Fh!Calls
        <4> QED
          BY <4>1, <4>3, <4>4, CallIsNotIdle
      <3>4. Fh!Has(h, v4'.of)
        BY <3>1, <3>3 DEF Fh!Has
      <3> QED
        BY <3>3, <3>4
    <2> QED
      BY <2>1, <2>2
  <1>7. Fh!TypeOK'
    BY <1>1, <1>4, <1>6 DEF Fh!TypeOK
  <1>8. Fh!One(n)'
    <2>1. Fh!Tells({}, v1[n])'
      BY DEF Fh!Tells
    <2> QED
      BY <1>1, <1>5, <1>6, <2>1 DEF Fh!One, Fh!Unused, Fh!Has, Fh!Usable, Fh!Tells
  <1>9. Fh!CallKnown'
    BY <1>8 DEF Fh!CallKnown
  <1>10. Fh!Accounted'
    <2>1. ASSUME NEW fd \in HandleFds, v1'[fd] # None, v1'[fd].who = "ucb" PROVE Fh!Held(fd)'
      <3>1. CASE fd = n
        <4>1. 1 \in 1..Len(v4'.fds) /\ v4'.fds[1] = fd
          BY <1>6, <3>1
        <4> QED
          BY <1>6, <4>1 DEF Fh!Held
      <3>2. CASE fd # n
        <4>1. \E h \in Handles : Fh!Has(h, fd)
          BY <1>1, <1>4, <2>1, <3>2 DEF Fh!Accounted, Fh!Held
        <4> QED
          BY <1>1, <4>1 DEF Fh!Held, Fh!Has, Fh!Usable
      <3> QED
        BY <3>1, <3>2
    <2> QED
      BY <2>1 DEF Fh!Accounted
  <1> QED
    BY <1>5, <1>7, <1>9, <1>10

\* ucb_pipe_create.
LEMMA PipesKeep ==
    ASSUME Fh!TypeOK, Fh!HandlesKnown, Fh!Accounted, Fh!Pipe
    PROVE  Fh!TypeOK' /\ Fh!HandlesKnown' /\ Fh!CallKnown' /\ Fh!Accounted'
  <1>1. /\ v4 = Fh!Idle /\ v2' = v2 /\ v3' = v3 + 2 /\ v3 \in Nat /\ Fh!Two(Fh!Unused) /\ Fh!Two(Fh!Free)
    BY DEF Fh!Pipe, Fh!TypeOK
  <1>2. PICK m \in HandleFds, n \in HandleFds :
           m = Fh!NewFd /\ n = Fh!Second /\ v1[m] = None /\ v1[n] = None /\ m # n
    BY <1>1, NewNumbers
  <1>3. PICK flags \in {{}, {"cloexec"}, {"inherit"}} :
           /\ v1' = [v1 EXCEPT ![m] = Fh!Descriptor(1, "ucb", "cloexec" \in flags),
                               ![n] = Fh!Descriptor(2, "ucb", "cloexec" \in flags)]
           /\ v4' = Fh!Calling("pipe", IF "inherit" \in flags THEN "inherit" ELSE "wrap", flags, <<m, n>>, None)
    BY <1>2 DEF Fh!Pipe
  <1>4. PICK c \in Fh!Descs, d \in Fh!Descs :
           /\ v1' = [v1 EXCEPT ![m] = c, ![n] = d]
           /\ c.who = "ucb" /\ d.who = "ucb" /\ c # None /\ d # None
    <2>1. /\ Fh!Descriptor(1, "ucb", "cloexec" \in flags) \in Fh!Descs \ {None}
          /\ Fh!Descriptor(1, "ucb", "cloexec" \in flags).who = "ucb"
          /\ Fh!Descriptor(2, "ucb", "cloexec" \in flags) \in Fh!Descs \ {None}
          /\ Fh!Descriptor(2, "ucb", "cloexec" \in flags).who = "ucb"
      BY <1>1, NewDescriptor
    <2> QED
      BY <1>3, <2>1, Zenon
  <1>5. /\ v1' \in [HandleFds -> Fh!Descs \cup {None}] /\ v1'[m] = c /\ v1'[n] = d
        /\ \A fd \in HandleFds : fd \notin {m, n} => v1'[fd] = v1[fd]
    BY <1>2, <1>4 DEF Fh!TypeOK
  <1>6. Fh!HandlesKnown' /\ Fh!Waits(m)' /\ Fh!Waits(n)'
    BY <1>1, <1>2, <1>4, <1>5, OpeningKeeps
  <1>7. /\ v4' \in Fh!Calls /\ v4' # Fh!Idle /\ v4'.fn = "pipe" /\ v4'.fds = <<m, n>> /\ v4'.made = {}
    <2>1. PICK at \in {"wrap", "inherit"} : at = (IF "inherit" \in flags THEN "inherit" ELSE "wrap")
      OBVIOUS
    <2>2. flags \in SUBSET Fh!Flags /\ <<m, n>> \in Seq(HandleFds)
      BY DEF Fh!Flags
    <2> QED
      <3>1. PICK fds \in Seq(HandleFds) : fds = <<m, n>>
        BY <2>2
      <3>2. v4' = Fh!Calling("pipe", at, flags, fds, None)
        BY <1>3, <2>1, <3>1
      <3>3. v4'.fn = "pipe" /\ v4'.fds = fds /\ v4'.made = {}
        BY <3>2 DEF Fh!Calling
      <3>4. v4' \in Fh!Calls
        BY <2>2, <3>2 DEF Fh!Calling, Fh!Calls
      <3> QED
        BY <3>1, <3>3, <3>4, CallIsNotIdle
  <1>8. Fh!TypeOK'
    BY <1>1, <1>5, <1>7 DEF Fh!TypeOK
  <1>9. Fh!CallKnown'
    <2>1. Fh!Both(m, n)'
      BY <1>1, <1>2, <1>6, <1>7 DEF Fh!Both, Fh!Unused, Fh!Two
    <2> QED
      BY <2>1 DEF Fh!CallKnown
  <1>10. Fh!Accounted'
    <2>1. ASSUME NEW fd \in HandleFds, v1'[fd] # None, v1'[fd].who = "ucb" PROVE Fh!Held(fd)'
      <3>1. CASE fd \in {m, n}
        <4>1. Len(v4'.fds) = 2 /\ v4'.fds[1] = m /\ v4'.fds[2] = n
          BY <1>7
        <4>2. \E i \in 1..Len(v4'.fds) : v4'.fds[i] = fd
          BY <3>1, <4>1
        <4> QED
          BY <1>7, <4>2 DEF Fh!Held
      <3>2. CASE fd \notin {m, n}
        <4>1. \E h \in Handles : Fh!Has(h, fd)
          BY <1>1, <1>5, <2>1, <3>2 DEF Fh!Accounted, Fh!Held
        <4> QED
          BY <1>1, <4>1 DEF Fh!Held, Fh!Has, Fh!Usable
      <3> QED
        BY <3>1, <3>2
    <2> QED
      BY <2>1 DEF Fh!Accounted
  <1> QED
    BY <1>6, <1>8, <1>9, <1>10

\* ucb_file_unix_apply_inherit.
LEMMA InheritKeeps ==
    ASSUME Fh!TypeOK, Fh!HandlesKnown, Fh!CallKnown, Fh!Accounted, Fh!ApplyInherit
    PROVE  Fh!TypeOK' /\ Fh!HandlesKnown' /\ Fh!CallKnown' /\ Fh!Accounted'
  <1> DEFINE Mine(fd) == \E i \in 1..Len(v4.fds) : v4.fds[i] = fd
  <1>1. /\ v4 # Fh!Idle /\ v4 \in Fh!Calls /\ v4.at = "inherit" /\ v2' = v2 /\ v3' = v3
        /\ v4' = [v4 EXCEPT !.at = "wrap"]
        /\ v1' = [fd \in HandleFds |-> IF Mine(fd) THEN [v1[fd] EXCEPT !.cloexec = Fh!Inheritance] ELSE v1[fd]]
    BY DEF Fh!ApplyInherit, Fh!TypeOK
  <1>2. /\ v4' \in Fh!Calls /\ v4'.at = "wrap" /\ v4'.fn = v4.fn /\ v4'.flags = v4.flags
        /\ v4'.fds = v4.fds /\ v4'.made = v4.made /\ v4' # Fh!Idle
    <2>1. v4' \in Fh!Calls /\ v4'.at = "wrap" /\ v4'.fn = v4.fn /\ v4'.flags = v4.flags
          /\ v4'.fds = v4.fds /\ v4'.made = v4.made
      BY <1>1 DEF Fh!Calls
    <2> QED
      BY <2>1, CallIsNotIdle
  <1>3. Fh!Inheritance \in BOOLEAN
    BY DEF Fh!Inheritance
  <1>4. PICK b \in BOOLEAN : b = Fh!Inheritance
    BY <1>3
  <1>5. \A fd \in HandleFds : v1'[fd] = IF Mine(fd) THEN [v1[fd] EXCEPT !.cloexec = b] ELSE v1[fd]
    BY <1>1, <1>4
  <1>6. \A fd \in HandleFds : Mine(fd) => Fh!Waits(fd)
    <2>1. CASE \E f \in HandleFds : Fh!One(f)
      BY <2>1 DEF Fh!One
    <2>2. CASE \E f, g \in HandleFds : Fh!Both(f, g)
      <3>1. PICK f \in HandleFds, g \in HandleFds : Fh!Both(f, g)
        BY <2>2
      <3>2. v4.fds = <<f, g>> /\ Fh!Waits(f) /\ Fh!Waits(g)
        BY <3>1 DEF Fh!Both
      <3>3. \A fd \in HandleFds : Mine(fd) => fd = f \/ fd = g
        BY <3>2
      <3> QED
        BY <3>2, <3>3
    <2> QED
      BY <1>1, <2>1, <2>2 DEF Fh!CallKnown, Fh!Rest
  <1> HIDE DEF Mine
  <1>7. ASSUME NEW fd \in HandleFds, Mine(fd)
        PROVE  /\ v1'[fd] \in Fh!Descs /\ v1'[fd] # None /\ v1'[fd].who = "ucb"
               /\ v1'[fd].cloexec <=> b
    <2>1. v1[fd] \in Fh!Descs /\ v1[fd].who = "ucb"
      BY <1>6, <1>7 DEF Fh!Waits, Fh!TypeOK
    <2>2. v1'[fd] = [v1[fd] EXCEPT !.cloexec = b]
      BY <1>5, <1>7
    <2> QED
      BY <2>1, <2>2, HandleAssumption DEF Fh!Descs
  <1>8. \A fd \in HandleFds : ~Mine(fd) => v1'[fd] = v1[fd]
    BY <1>5
  <1>9. Fh!TypeOK'
    <2>1. v1' \in [HandleFds -> Fh!Descs \cup {None}]
      <3>1. \A fd \in HandleFds : v1'[fd] \in Fh!Descs \cup {None}
        BY <1>7, <1>8 DEF Fh!TypeOK
      <3>2. PICK d : d = v1'
        OBVIOUS
      <3>3. d = [fd \in HandleFds |-> d[fd]]
        BY <1>1, <3>2
      <3> QED
        BY <3>1, <3>2, <3>3
    <2> QED
      BY <1>1, <1>2, <2>1 DEF Fh!TypeOK
  <1>10. \A h \in Handles : Fh!Usable(h)' = Fh!Usable(h) /\ \A fd \in HandleFds : Fh!Has(h, fd)' = Fh!Has(h, fd)
    BY <1>1 DEF Fh!Has, Fh!Usable
  <1>11. \A h \in Handles : Fh!Usable(h) => v2[h].fd \in HandleFds /\ v1'[v2[h].fd] = v1[v2[h].fd]
    <2>1. \A h \in Handles : Fh!Usable(h) => v2[h].fd \in HandleFds
      BY DEF Fh!TypeOK, Fh!Usable, Fh!Objects
    <2>2. \A h \in Handles : Fh!Usable(h) => ~Mine(v2[h].fd)
      BY <1>6, <2>1 DEF Fh!Waits, Fh!Has
    <2> QED
      BY <1>8, <2>1, <2>2
  <1>12. Fh!HandlesKnown'
    <2>1. ASSUME NEW h \in Handles, Fh!Usable(h)' PROVE Fh!Right(v2[h])'
      <3>1. Fh!Usable(h) /\ Fh!Right(v2[h])
        BY <1>10, <2>1 DEF Fh!HandlesKnown
      <3>2. v2' = v2 /\ v1'[v2[h].fd] = v1[v2[h].fd]
        BY <1>1, <1>11, <3>1
      <3> QED
        BY <3>1, <3>2 DEF Fh!Right, Fh!Tells
    <2> QED
      BY <1>1, <1>10, <1>11, <2>1 DEF Fh!HandlesKnown
  <1>13. \A fd \in HandleFds : Mine(fd) => Fh!Waits(fd)'
    BY <1>6, <1>7, <1>10 DEF Fh!Waits
  <1>14. Fh!Unused' = Fh!Unused
    BY <1>1 DEF Fh!Unused
  <1>15. Fh!CallKnown'
    <2>1. CASE \E f \in HandleFds : Fh!One(f)
      <3>1. PICK f \in HandleFds : Fh!One(f)
        BY <2>1
      <3>2. v4.fds = <<f>> /\ Mine(f)
        BY <3>1 DEF Fh!One, Mine
      <3>3. Fh!Tells(v4.flags, v1'[f])
        <4>1. v1'[f].cloexec <=> Fh!Inheritance
          BY <1>4, <1>7, <3>2
        <4>2. CASE v4.fn = "dup"
          <5>1. PICK h \in Handles : Fh!Has(h, v4.of) /\ v2[h].flags = v4.flags
            BY <1>1, <3>1, <4>2 DEF Fh!One
          <5>2. v1[v4.of] # None /\ Fh!Tells(v4.flags, v1[v4.of])
            BY <5>1 DEF Fh!Has, Fh!HandlesKnown, Fh!Right
          <5>3. Fh!Inheritance <=> v1[v4.of].cloexec
            BY <4>2, <5>2 DEF Fh!Inheritance
          <5> QED
            BY <4>1, <5>2, <5>3 DEF Fh!Tells
        <4>3. CASE v4.fn # "dup"
          <5>1. v4.flags \in {{"cloexec"}, {"inherit"}}
            BY <1>1, <3>1, <4>3 DEF Fh!One, Fh!Calls
          <5>2. Fh!Inheritance <=> "inherit" \notin v4.flags
            BY <4>3 DEF Fh!Inheritance
          <5> QED
            BY <4>1, <5>1, <5>2 DEF Fh!Tells
        <4> QED
          BY <4>2, <4>3
      <3>4. Fh!One(f)'
        BY <1>2, <1>13, <1>14, <3>1, <3>2, <3>3 DEF Fh!One, Fh!Tells
      <3> QED
        BY <3>4 DEF Fh!CallKnown
    <2>2. CASE \E f, g \in HandleFds : Fh!Both(f, g)
      <3>1. PICK f \in HandleFds, g \in HandleFds : Fh!Both(f, g)
        BY <2>2
      <3>2. Mine(f) /\ Mine(g)
        <4>1. Len(v4.fds) = 2 /\ v4.fds[1] = f /\ v4.fds[2] = g
          BY <3>1 DEF Fh!Both
        <4> QED
          BY <4>1 DEF Mine
      <3>3. Fh!Both(f, g)'
        BY <1>2, <1>13, <1>14, <3>1, <3>2 DEF Fh!Both, Fh!Two
      <3> QED
        BY <3>3 DEF Fh!CallKnown
    <2> QED
      BY <1>1, <2>1, <2>2 DEF Fh!CallKnown, Fh!Rest
  <1>16. Fh!Accounted'
    <2>1. ASSUME NEW fd \in HandleFds, v1'[fd] # None, v1'[fd].who = "ucb" PROVE Fh!Held(fd)'
      <3>1. CASE Mine(fd)
        BY <1>2, <3>1 DEF Fh!Held, Mine
      <3>2. CASE ~Mine(fd)
        <4>1. \E h \in Handles : Fh!Has(h, fd)
          BY <1>1, <1>8, <2>1, <3>2 DEF Fh!Accounted, Fh!Held, Mine
        <4> QED
          BY <1>10, <4>1 DEF Fh!Held
      <3> QED
        BY <3>1, <3>2
    <2> QED
      BY <2>1 DEF Fh!Accounted
  <1> QED
    BY <1>9, <1>12, <1>15, <1>16

\* A handle is made for a descriptor that no other has.
LEMMA NewHandle ==
    ASSUME Fh!TypeOK, Fh!HandlesKnown, NEW f \in HandleFds, NEW h \in Fh!Unused, NEW o \in Fh!Objects,
           \A k \in Handles : ~Fh!Has(k, f), o.fd = f, Fh!Right(o)',
           v2' = [v2 EXCEPT ![h] = o], \A g \in HandleFds : g # f => v1'[g] = v1[g]
    PROVE  /\ v2' \in [Handles -> Fh!Objects \cup {None}] /\ Fh!HandlesKnown'
           /\ Fh!Has(h, f)' /\ v2'[h] = o
           /\ \A k \in Handles, g \in HandleFds : Fh!Has(k, g) => Fh!Has(k, g)'
           /\ \A g \in HandleFds : g # f /\ Fh!Waits(g) => Fh!Waits(g)'
           /\ \A k \in Handles : k # h => v2'[k] = v2[k]
  <1>1. h \in Handles /\ v2[h] = None
    BY DEF Fh!Unused
  <1>2. v2' \in [Handles -> Fh!Objects \cup {None}] /\ v2'[h] = o /\ \A k \in Handles : k # h => v2'[k] = v2[k]
    BY <1>1 DEF Fh!TypeOK
  <1>3. o # None /\ f # -1
    BY HandleAssumption
  <1>4. Fh!Usable(h)' /\ Fh!Has(h, f)' /\ ~Fh!Usable(h)
    BY <1>1, <1>2, <1>3 DEF Fh!Usable, Fh!Has
  <1>5. \A k \in Handles : k # h => /\ Fh!Usable(k)' = Fh!Usable(k)
                                    /\ \A g \in HandleFds : Fh!Has(k, g)' = Fh!Has(k, g)
    BY <1>2 DEF Fh!Usable, Fh!Has
  <1>6. \A k \in Handles : Fh!Usable(k) => v2[k].fd \in HandleFds /\ v2[k].fd # f /\ v1'[v2[k].fd] = v1[v2[k].fd]
    BY DEF Fh!TypeOK, Fh!Usable, Fh!Objects, Fh!Has
  <1>7. ASSUME NEW k \in Handles, Fh!Usable(k)' PROVE Fh!Right(v2[k])'
    <2>1. CASE k = h
      BY <1>2, <2>1 DEF Fh!Right, Fh!Tells
    <2>2. CASE k # h
      <3>1. Fh!Usable(k) /\ Fh!Right(v2[k])
        BY <1>5, <1>7, <2>2 DEF Fh!HandlesKnown
      <3> QED
        BY <1>2, <1>6, <2>2, <3>1 DEF Fh!Right, Fh!Tells
    <2> QED
      BY <2>1, <2>2
  <1>8. ASSUME NEW k \in Handles, v2'[k] # None, v2'[k].own PROVE v2'[k].fd # -1
    BY <1>2, <1>3, <1>8 DEF Fh!HandlesKnown
  <1>9. ASSUME NEW j \in Handles, NEW k \in Handles, Fh!Usable(j)', Fh!Has(k, v2[j].fd)' PROVE j = k
    <2>1. CASE j = h
      <3>1. k # h => Fh!Usable(k) /\ v2[k].fd = f
        BY <1>2, <1>5, <1>9, <2>1 DEF Fh!Has
      <3> QED
        BY <1>6, <2>1, <3>1
    <2>2. CASE j # h
      <3>1. Fh!Usable(j) /\ v2'[j] = v2[j] /\ v2[j].fd # f /\ v2[j].fd \in HandleFds
        BY <1>2, <1>5, <1>6, <1>9, <2>2
      <3>2. CASE k = h
        BY <1>2, <1>9, <3>1, <3>2 DEF Fh!Has
      <3>3. CASE k # h
        BY <1>5, <1>9, <3>1, <3>3 DEF Fh!HandlesKnown
      <3> QED
        BY <3>2, <3>3
    <2> QED
      BY <2>1, <2>2
  <1>10. Fh!HandlesKnown'
    BY <1>7, <1>8, <1>9 DEF Fh!HandlesKnown
  <1>11. \A k \in Handles, g \in HandleFds : Fh!Has(k, g) => Fh!Has(k, g)'
    BY <1>4, <1>5 DEF Fh!Has
  <1>12. ASSUME NEW g \in HandleFds, g # f, Fh!Waits(g) PROVE Fh!Waits(g)'
    <2>1. ~Fh!Has(h, g)'
      BY <1>2, <1>12 DEF Fh!Has
    <2> QED
      BY <1>5, <1>12, <2>1 DEF Fh!Waits
  <1> QED
    BY <1>2, <1>4, <1>10, <1>11, <1>12

\* ucb_file_unix_from_fd.
LEMMA WrapsKeep ==
    ASSUME Fh!TypeOK, Fh!HandlesKnown, Fh!CallKnown, Fh!Accounted, Fh!Wrap
    PROVE  Fh!TypeOK' /\ Fh!HandlesKnown' /\ Fh!CallKnown' /\ Fh!Accounted'
  <1> DEFINE n == Cardinality(v4.made)
             fd == v4.fds[n + 1]
             h == Fh!NewOne
  <1>1. /\ v4 # Fh!Idle /\ v4 \in Fh!Calls /\ v4.at = "wrap" /\ v1' = v1 /\ v3' = v3
        /\ v2' = [v2 EXCEPT ![h] = Fh!Object(fd, TRUE, Fh!FlagsOf(fd))]
        /\ v4' = IF n + 1 = Len(v4.fds) THEN Fh!Idle ELSE [v4 EXCEPT !.made = @ \cup {h}]
    <2>1. v4 # Fh!Idle /\ v4 \in Fh!Calls /\ v4.at = "wrap" /\ v1' = v1 /\ v3' = v3
      BY DEF Fh!Wrap, Fh!TypeOK
    <2>2. v2' = [v2 EXCEPT ![h] = Fh!Object(fd, TRUE, Fh!FlagsOf(fd))]
      BY SameSize DEF Fh!Wrap
    <2>3. v4' = IF n + 1 = Len(v4.fds) THEN Fh!Idle ELSE [v4 EXCEPT !.made = @ \cup {h}]
      BY SameSize DEF Fh!Wrap
    <2> QED
      BY <2>1, <2>2, <2>3
  <1>2. Fh!Unused # {}
    BY <1>1 DEF Fh!CallKnown, Fh!One, Fh!Both, Fh!Rest, Fh!Two
  <1>3. PICK hh \in Fh!Unused : hh = h
    BY <1>2 DEF Fh!NewOne
  <1>4. PICK f \in HandleFds : f = fd /\ Fh!Waits(f)
    <2>1. CASE \E x \in HandleFds : Fh!One(x)
      <3>1. PICK x \in HandleFds : v4.fds = <<x>> /\ v4.made = {} /\ Fh!Waits(x)
        BY <2>1 DEF Fh!One
      <3> QED
        BY <3>1, MadeSize
    <2>2. CASE \E x, y \in HandleFds : Fh!Both(x, y)
      <3>1. PICK x \in HandleFds, y \in HandleFds : v4.fds = <<x, y>> /\ v4.made = {} /\ Fh!Waits(x)
        BY <2>2 DEF Fh!Both
      <3> QED
        BY <3>1, MadeSize
    <2>3. CASE \E x, y \in HandleFds : \E k \in Handles : Fh!Rest(x, y, k)
      <3>1. PICK x \in HandleFds, y \in HandleFds, k \in Handles :
               v4.fds = <<x, y>> /\ v4.made = {k} /\ Fh!Waits(y)
        BY <2>3 DEF Fh!Rest
      <3>2. n = 1
        BY <3>1, MadeSize, Zenon
      <3>3. v4.fds[2] = y
        BY <3>1
      <3> QED
        BY <3>1, <3>2, <3>3
    <2> QED
      BY <1>1, <2>1, <2>2, <2>3 DEF Fh!CallKnown
  <1>5. PICK flags : flags = Fh!FlagsOf(f)
    OBVIOUS
  <1>6. flags \in SUBSET Fh!Flags /\ Fh!Tells(flags, v1[f])
    <2>1. CASE v4.fn = "pipe"
      BY <1>5, <2>1 DEF Fh!FlagsOf, Fh!Detected, Fh!Flags, Fh!Tells
    <2>2. CASE v4.fn # "pipe"
      <3>1. PICK x \in HandleFds : Fh!One(x)
        BY <1>1, <2>2 DEF Fh!CallKnown, Fh!Both, Fh!Rest
      <3>2. n = 0 /\ v4.fds = <<x>> /\ Fh!Tells(v4.flags, v1[x])
        BY <1>1, <3>1, MadeSize DEF Fh!One
      <3>3. x = f
        BY <1>4, <3>2
      <3> QED
        BY <1>1, <1>5, <2>2, <3>2, <3>3 DEF Fh!FlagsOf, Fh!Calls
    <2> QED
      BY <2>1, <2>2
  <1>7. PICK o \in Fh!Objects : /\ o = Fh!Object(fd, TRUE, Fh!FlagsOf(fd)) /\ o.fd = f /\ o.own
                                /\ o.flags = flags /\ o.id = v1[f].id
    <2>1. v1[f].id \in Nat
      BY <1>4 DEF Fh!Waits, Fh!TypeOK, Fh!Descs
    <2>2. Fh!Object(f, TRUE, flags) \in Fh!Objects
      BY <1>6, <2>1 DEF Fh!Object, Fh!Objects
    <2>3. /\ Fh!Object(f, TRUE, flags).fd = f /\ Fh!Object(f, TRUE, flags).flags = flags
          /\ Fh!Object(f, TRUE, flags).id = v1[f].id
      BY DEF Fh!Object
    <2>4. Fh!Object(f, TRUE, flags).own
      BY DEF Fh!Object
    <2> QED
      BY <1>4, <1>5, <2>2, <2>3, <2>4
  <1>8. v2' = [v2 EXCEPT ![hh] = o]
    BY <1>1, <1>3, <1>7
  <1>9. Fh!Right(o)'
    BY <1>1, <1>4, <1>6, <1>7 DEF Fh!Right, Fh!Waits, Fh!Tells
  <1>10. /\ v2' \in [Handles -> Fh!Objects \cup {None}] /\ Fh!HandlesKnown'
         /\ Fh!Has(hh, f)' /\ v2'[hh] = o
         /\ \A k \in Handles, g \in HandleFds : Fh!Has(k, g) => Fh!Has(k, g)'
         /\ \A g \in HandleFds : g # f /\ Fh!Waits(g) => Fh!Waits(g)'
         /\ \A k \in Handles : k # hh => v2'[k] = v2[k]
    <2>1. \A k \in Handles : ~Fh!Has(k, f)
      BY <1>4 DEF Fh!Waits
    <2>2. \A g \in HandleFds : g # f => v1'[g] = v1[g]
      BY <1>1
    <2> QED
      <3>1. hh \in Fh!Unused /\ o \in Fh!Objects /\ o.fd = f
        BY <1>7
      <3> QED
        BY <1>8, <1>9, <2>1, <2>2, <3>1, NewHandle
  <1>11. CASE \E x \in HandleFds : Fh!One(x)
    <2>1. PICK x \in HandleFds : v4.fds = <<x>> /\ v4.made = {}
      BY <1>11 DEF Fh!One
    <2>2. x = f /\ v4' = Fh!Idle
      BY <1>1, <1>4, <2>1, MadeSize
    <2>3. Fh!TypeOK' /\ Fh!CallKnown'
      BY <1>1, <1>10, <2>2 DEF Fh!TypeOK, Fh!CallKnown
    <2>4. ASSUME NEW g \in HandleFds, v1'[g] # None, v1'[g].who = "ucb" PROVE Fh!Held(g)'
      <3>1. g = f \/ \E k \in Handles : Fh!Has(k, g)
        BY <1>1, <2>1, <2>2, <2>4 DEF Fh!Accounted, Fh!Held
      <3> QED
        BY <1>10, <3>1 DEF Fh!Held, Fh!Unused
    <2> QED
      BY <1>10, <2>3, <2>4 DEF Fh!Accounted
  <1>12. CASE \E x, y \in HandleFds : Fh!Both(x, y)
    <2>1. PICK x \in HandleFds, y \in HandleFds :
             /\ v4.fds = <<x, y>> /\ v4.made = {} /\ v4.fn = "pipe" /\ x # y /\ Fh!Waits(y)
             /\ Fh!Two(Fh!Unused)
      BY <1>12 DEF Fh!Both
    <2>2. x = f /\ v4' = [v4 EXCEPT !.made = @ \cup {hh}]
      BY <1>1, <1>3, <1>4, <2>1, MadeSize
    <2>3. /\ v4' \in Fh!Calls /\ v4'.fds = <<x, y>> /\ v4'.made = {hh} /\ v4'.fn = "pipe" /\ v4'.at = "wrap"
          /\ v4' # Fh!Idle
      <3>1. /\ v4' \in Fh!Calls /\ v4'.fds = <<x, y>> /\ v4'.made = {hh} /\ v4'.fn = "pipe" /\ v4'.at = "wrap"
        BY <1>1, <1>3, <2>1, <2>2 DEF Fh!Calls, Fh!Unused
      <3> QED
        BY <3>1, CallIsNotIdle
    <2>4. Fh!TypeOK'
      BY <1>1, <1>10, <2>3 DEF Fh!TypeOK
    <2>5. Fh!Unused' # {}
      <3>1. PICK k \in Fh!Unused : k # hh
        BY <2>1 DEF Fh!Two
      <3> QED
        BY <1>10, <3>1 DEF Fh!Unused
    <2>6. Fh!Rest(x, y, hh)' /\ hh \in Handles
      BY <1>7, <1>10, <2>1, <2>2, <2>3, <2>5 DEF Fh!Rest, Fh!Unused
    <2>7. Fh!CallKnown'
      BY <2>6 DEF Fh!CallKnown
    <2>8. ASSUME NEW g \in HandleFds, v1'[g] # None, v1'[g].who = "ucb" PROVE Fh!Held(g)'
      <3>1. (\E i \in 1..Len(v4.fds) : v4.fds[i] = g) \/ \E k \in Handles : Fh!Has(k, g)
        BY <1>1, <2>8 DEF Fh!Accounted, Fh!Held
      <3>2. v4'.fds = v4.fds
        BY <2>1, <2>3
      <3> QED
        BY <1>10, <2>3, <3>1, <3>2 DEF Fh!Held
    <2> QED
      BY <1>10, <2>4, <2>7, <2>8 DEF Fh!Accounted
  <1>13. CASE \E x, y \in HandleFds : \E k \in Handles : Fh!Rest(x, y, k)
    <2>1. PICK x \in HandleFds, y \in HandleFds, k \in Handles :
             v4.fds = <<x, y>> /\ v4.made = {k} /\ Fh!Has(k, x)
      BY <1>13 DEF Fh!Rest
    <2>2. n + 1 = 2 /\ Len(v4.fds) = 2
      BY <2>1, MadeSize
    <2>3. y = f /\ v4' = Fh!Idle
      BY <1>1, <1>4, <2>1, <2>2
    <2>4. Fh!TypeOK' /\ Fh!CallKnown'
      BY <1>1, <1>10, <2>3 DEF Fh!TypeOK, Fh!CallKnown
    <2>5. ASSUME NEW g \in HandleFds, v1'[g] # None, v1'[g].who = "ucb" PROVE Fh!Held(g)'
      <3>1. g = f \/ g = x \/ \E j \in Handles : Fh!Has(j, g)
        BY <1>1, <2>1, <2>3, <2>5 DEF Fh!Accounted, Fh!Held
      <3> QED
        BY <1>10, <2>1, <3>1 DEF Fh!Held, Fh!Unused
    <2> QED
      BY <1>10, <2>4, <2>5 DEF Fh!Accounted
  <1> QED
    BY <1>1, <1>11, <1>12, <1>13 DEF Fh!CallKnown

\* A call in progress is not disturbed by what happens to the descriptors of others.
LEMMA CallStays ==
    ASSUME Fh!CallKnown, v2' = v2, v4' = v4,
           \A fd \in HandleFds : Fh!Waits(fd) => Fh!Waits(fd)' /\ v1'[fd] = v1[fd]
    PROVE  Fh!CallKnown'
  <1>1. /\ Fh!Unused' = Fh!Unused
        /\ \A h : Fh!Usable(h)' = Fh!Usable(h) /\ \A fd : Fh!Has(h, fd)' = Fh!Has(h, fd)
    BY DEF Fh!Unused, Fh!Usable, Fh!Has
  <1>2. \A f \in HandleFds : Fh!One(f) => Fh!One(f)'
    BY <1>1 DEF Fh!One, Fh!Tells
  <1>3. \A f, g \in HandleFds : Fh!Both(f, g) => Fh!Both(f, g)'
    BY <1>1 DEF Fh!Both, Fh!Two
  <1>4. \A f, g \in HandleFds, h \in Handles : Fh!Rest(f, g, h) => Fh!Rest(f, g, h)'
    BY <1>1 DEF Fh!Rest
  <1> QED
    BY <1>2, <1>3, <1>4 DEF Fh!CallKnown

\* When a call fails: what it has opened is closed and what it has made is gone.
LEMMA AbandonKeeps ==
    ASSUME Fh!TypeOK, Fh!HandlesKnown, Fh!CallKnown, Fh!Accounted, Fh!OpenFails
    PROVE  Fh!TypeOK' /\ Fh!HandlesKnown' /\ Fh!CallKnown' /\ Fh!Accounted'
  <1> DEFINE S == {v4.fds[i] : i \in 1..Len(v4.fds)}
  <1>1. /\ v4 # Fh!Idle /\ v4' = Fh!Idle /\ v3' = v3
        /\ v1' = [fd \in HandleFds |-> IF fd \in S THEN None ELSE v1[fd]]
        /\ v2' = [h \in Handles |-> IF h \in v4.made THEN None ELSE v2[h]]
    BY DEF Fh!OpenFails, Fh!CloseFds, Fh!Abandoned, Fh!Ends
  <1>2. /\ \A k \in Handles : Fh!Usable(k) /\ k \notin v4.made => v2[k].fd \notin S
        /\ \A k \in Handles : k \in v4.made => Fh!Usable(k) /\ v2[k].fd \in S
    <2>1. CASE \E f \in HandleFds : Fh!One(f)
      <3>1. PICK f \in HandleFds : v4.fds = <<f>> /\ v4.made = {} /\ Fh!Waits(f)
        BY <2>1 DEF Fh!One
      <3>2. S = {f}
        BY <3>1
      <3> QED
        BY <3>1, <3>2 DEF Fh!Waits, Fh!Has
    <2>2. CASE \E f, g \in HandleFds : Fh!Both(f, g)
      <3>1. PICK f \in HandleFds, g \in HandleFds :
               v4.fds = <<f, g>> /\ v4.made = {} /\ Fh!Waits(f) /\ Fh!Waits(g)
        BY <2>2 DEF Fh!Both
      <3>2. S = {f, g}
        BY <3>1
      <3> QED
        BY <3>1, <3>2 DEF Fh!Waits, Fh!Has
    <2>3. CASE \E f, g \in HandleFds : \E h \in Handles : Fh!Rest(f, g, h)
      <3>1. PICK f \in HandleFds, g \in HandleFds, h \in Handles :
               v4.fds = <<f, g>> /\ v4.made = {h} /\ Fh!Has(h, f) /\ Fh!Waits(g)
        BY <2>3 DEF Fh!Rest
      <3>2. S = {f, g}
        BY <3>1
      <3>3. \A k \in Handles : Fh!Usable(k) /\ v2[k].fd = f => k = h
        BY <3>1 DEF Fh!HandlesKnown
      <3> QED
        BY <3>1, <3>2, <3>3 DEF Fh!Waits, Fh!Has
    <2> QED
      BY <1>1, <2>1, <2>2, <2>3 DEF Fh!CallKnown
  <1>3. \A fd \in HandleFds : fd \in S <=> \E i \in 1..Len(v4.fds) : v4.fds[i] = fd
    OBVIOUS
  <1> HIDE DEF S
  <1>4. /\ \A fd \in HandleFds : fd \in S => v1'[fd] = None
        /\ \A fd \in HandleFds : fd \notin S => v1'[fd] = v1[fd]
        /\ \A k \in Handles : k \in v4.made => v2'[k] = None
        /\ \A k \in Handles : k \notin v4.made => v2'[k] = v2[k]
    BY <1>1
  <1>5. Fh!TypeOK'
    <2>1. v1' \in [HandleFds -> Fh!Descs \cup {None}]
      BY <1>1 DEF Fh!TypeOK
    <2>2. v2' \in [Handles -> Fh!Objects \cup {None}]
      BY <1>1 DEF Fh!TypeOK
    <2> QED
      BY <1>1, <2>1, <2>2 DEF Fh!TypeOK
  <1>6. \A k \in Handles : Fh!Usable(k)' => /\ k \notin v4.made /\ Fh!Usable(k) /\ v2'[k] = v2[k]
                                            /\ v2[k].fd \in HandleFds /\ v1'[v2[k].fd] = v1[v2[k].fd]
    BY <1>2, <1>4 DEF Fh!Usable, Fh!TypeOK, Fh!Objects
  <1>7. Fh!HandlesKnown'
    <2>1. \A k \in Handles : Fh!Usable(k)' => Fh!Right(v2[k])'
      BY <1>6 DEF Fh!HandlesKnown, Fh!Right, Fh!Tells
    <2>2. \A k \in Handles : v2'[k] # None /\ v2'[k].own => v2'[k].fd # -1
      BY <1>4 DEF Fh!HandlesKnown
    <2>3. \A j, k \in Handles : Fh!Usable(j)' /\ Fh!Has(k, v2[j].fd)' => j = k
      BY <1>6 DEF Fh!HandlesKnown, Fh!Has
    <2> QED
      BY <2>1, <2>2, <2>3 DEF Fh!HandlesKnown
  <1>8. Fh!CallKnown'
    BY <1>1 DEF Fh!CallKnown
  <1>9. ASSUME NEW fd \in HandleFds, v1'[fd] # None, v1'[fd].who = "ucb" PROVE Fh!Held(fd)'
    <2>1. fd \notin S /\ v1[fd] # None /\ v1[fd].who = "ucb"
      BY <1>4, <1>9
    <2>2. PICK k \in Handles : Fh!Has(k, fd)
      BY <1>3, <2>1 DEF Fh!Accounted, Fh!Held
    <2>3. k \notin v4.made
      BY <1>2, <2>1, <2>2 DEF Fh!Has
    <2>4. Fh!Has(k, fd)'
      BY <1>4, <2>2, <2>3 DEF Fh!Has, Fh!Usable
    <2> QED
      BY <2>4 DEF Fh!Held
  <1> QED
    BY <1>5, <1>7, <1>8, <1>9 DEF Fh!Accounted

\* ucb_file_from_fd: the descriptor is the handle's if it is given, and the program's if it is lent.
LEMMA LendKeeps ==
    ASSUME Fh!TypeOK, Fh!HandlesKnown, Fh!Accounted, NEW f \in HandleFds, NEW own \in BOOLEAN, Fh!FromFd(f, own)
    PROVE  Fh!TypeOK' /\ Fh!HandlesKnown' /\ Fh!CallKnown' /\ Fh!Accounted'
  <1>1. /\ v4 = Fh!Idle /\ v4' = v4 /\ v3' = v3 /\ Fh!Unused # {} /\ v1[f] # None /\ v1[f].who = "other"
        /\ v2' = [v2 EXCEPT ![Fh!NewOne] = Fh!Object(f, own, Fh!Detected(f))]
        /\ v1' = IF own THEN [v1 EXCEPT ![f].who = "ucb"] ELSE v1
        /\ \A k \in Handles : ~Fh!Has(k, f)
    BY DEF Fh!FromFd, Fh!Has
  <1>2. PICK h \in Fh!Unused : h = Fh!NewOne
    BY <1>1 DEF Fh!NewOne
  <1>3. v1[f] \in Fh!Descs
    BY <1>1 DEF Fh!TypeOK
  <1>4. PICK d : d = [v1[f] EXCEPT !.who = "ucb"]
    OBVIOUS
  <1>5. d \in Fh!Descs /\ d.who = "ucb" /\ d.id = v1[f].id /\ d.cloexec = v1[f].cloexec /\ d # None
    <2>1. d \in Fh!Descs /\ d.who = "ucb" /\ d.id = v1[f].id /\ d.cloexec = v1[f].cloexec
      BY <1>3, <1>4 DEF Fh!Descs
    <2> QED
      BY <2>1, HandleAssumption
  <1>6. /\ v1' \in [HandleFds -> Fh!Descs \cup {None}]
        /\ v1'[f] # None /\ v1'[f].id = v1[f].id /\ v1'[f].cloexec = v1[f].cloexec
        /\ own <=> v1'[f].who = "ucb"
        /\ \A g \in HandleFds : g # f => v1'[g] = v1[g]
    <2>1. CASE own
      <3>1. v1' = [v1 EXCEPT ![f] = d]
        BY <1>1, <1>4, <2>1
      <3> QED
        BY <1>5, <2>1, <3>1 DEF Fh!TypeOK
    <2>2. CASE ~own
      BY <1>1, <2>2 DEF Fh!TypeOK
    <2> QED
      BY <2>1, <2>2
  <1>7. PICK o \in Fh!Objects : /\ o = Fh!Object(f, own, Fh!Detected(f)) /\ o.fd = f /\ o.id = v1[f].id
                                /\ o.own <=> own
                                /\ o.flags = IF v1[f].cloexec THEN {"cloexec"} ELSE {"inherit"}
    <2>1. v1[f].id \in Nat
      BY <1>3 DEF Fh!Descs
    <2>2. PICK flags \in SUBSET Fh!Flags :
             flags = Fh!Detected(f) /\ flags = IF v1[f].cloexec THEN {"cloexec"} ELSE {"inherit"}
      BY DEF Fh!Detected, Fh!Flags
    <2>3. Fh!Object(f, own, flags) \in Fh!Objects
      BY <2>1 DEF Fh!Object, Fh!Objects
    <2>4. /\ Fh!Object(f, own, flags).fd = f /\ Fh!Object(f, own, flags).flags = flags
          /\ Fh!Object(f, own, flags).id = v1[f].id
      BY DEF Fh!Object
    <2>5. Fh!Object(f, own, flags).own <=> own
      BY DEF Fh!Object
    <2> QED
      BY <2>2, <2>3, <2>4, <2>5
  <1>8. Fh!Right(o)'
    BY <1>6, <1>7 DEF Fh!Right, Fh!Tells
  <1>9. /\ v2' \in [Handles -> Fh!Objects \cup {None}] /\ Fh!HandlesKnown'
        /\ Fh!Has(h, f)'
        /\ \A k \in Handles, g \in HandleFds : Fh!Has(k, g) => Fh!Has(k, g)'
    <2>1. v2' = [v2 EXCEPT ![h] = o] /\ h \in Fh!Unused /\ o \in Fh!Objects /\ o.fd = f
      BY <1>1, <1>2, <1>7
    <2>2. \A g \in HandleFds : g # f => v1'[g] = v1[g]
      BY <1>6
    <2>3. \A k \in Handles : ~Fh!Has(k, f)
      BY <1>1
    <2> QED
      BY <1>8, <2>1, <2>2, <2>3, NewHandle
  <1>10. Fh!TypeOK'
    BY <1>1, <1>6, <1>9 DEF Fh!TypeOK
  <1>11. Fh!CallKnown'
    BY <1>1 DEF Fh!CallKnown
  <1>12. ASSUME NEW g \in HandleFds, v1'[g] # None, v1'[g].who = "ucb" PROVE Fh!Held(g)'
    <2>1. g = f \/ \E k \in Handles : Fh!Has(k, g)
      BY <1>1, <1>6, <1>12 DEF Fh!Accounted, Fh!Held
    <2> QED
      BY <1>9, <2>1 DEF Fh!Held, Fh!Unused
  <1> QED
    BY <1>9, <1>10, <1>11, <1>12 DEF Fh!Accounted

\* ucb_file_set_inherit.
LEMMA SettingKeeps ==
    ASSUME Fh!TypeOK, Fh!HandlesKnown, Fh!Accounted, NEW h \in Handles, NEW b \in BOOLEAN, Fh!SetInherit(h, b)
    PROVE  Fh!TypeOK' /\ Fh!HandlesKnown' /\ Fh!CallKnown' /\ Fh!Accounted'
  <1>1. /\ v4 = Fh!Idle /\ v4' = v4 /\ v3' = v3 /\ Fh!Usable(h)
        /\ v1' = [v1 EXCEPT ![v2[h].fd].cloexec = ~b]
        /\ v2' = [v2 EXCEPT ![h].flags = {IF b THEN "inherit" ELSE "cloexec"}]
    BY DEF Fh!SetInherit
  <1>2. v2[h] \in Fh!Objects /\ v2[h] # None
    BY <1>1 DEF Fh!TypeOK, Fh!Usable
  <1>3. PICK f \in HandleFds : f = v2[h].fd
    BY <1>1, <1>2 DEF Fh!Objects, Fh!Usable
  <1>4. v1[f] \in Fh!Descs /\ v1[f] # None
    BY <1>1, <1>3 DEF Fh!TypeOK, Fh!HandlesKnown, Fh!Right
  <1>5. PICK c \in BOOLEAN : c <=> ~b
    OBVIOUS
  <1>6. PICK d : d = [v1[f] EXCEPT !.cloexec = c]
    OBVIOUS
  <1>7. d \in Fh!Descs /\ d.who = v1[f].who /\ d.id = v1[f].id /\ d # None /\ (d.cloexec <=> ~b)
    <2>1. d \in Fh!Descs /\ d.who = v1[f].who /\ d.id = v1[f].id
      BY <1>4, <1>6 DEF Fh!Descs
    <2>2. d.cloexec <=> ~b
      BY <1>4, <1>5, <1>6 DEF Fh!Descs
    <2> QED
      BY <2>1, <2>2, HandleAssumption
  <1>8. v1' = [v1 EXCEPT ![f] = d]
    BY <1>1, <1>3, <1>5, <1>6
  <1>9. /\ v1' \in [HandleFds -> Fh!Descs \cup {None}] /\ v1'[f] = d
        /\ \A g \in HandleFds : g # f => v1'[g] = v1[g]
    BY <1>7, <1>8 DEF Fh!TypeOK
  <1>10. PICK flags \in SUBSET Fh!Flags : flags = {IF b THEN "inherit" ELSE "cloexec"}
    BY DEF Fh!Flags
  <1>11. PICK o : o = [v2[h] EXCEPT !.flags = flags]
    OBVIOUS
  <1>12. o \in Fh!Objects /\ o.fd = f /\ o.id = v2[h].id /\ o.flags = flags /\ o # None /\ (o.own <=> v2[h].own)
    <2>1. o \in Fh!Objects /\ o.fd = f /\ o.id = v2[h].id /\ o.flags = flags
      BY <1>2, <1>3, <1>11 DEF Fh!Objects
    <2>2. o.own <=> v2[h].own
      BY <1>2, <1>11 DEF Fh!Objects
    <2> QED
      BY <2>1, <2>2, HandleAssumption
  <1>13. v2' = [v2 EXCEPT ![h] = o]
    BY <1>1, <1>10, <1>11
  <1>14. /\ v2' \in [Handles -> Fh!Objects \cup {None}] /\ v2'[h] = o
         /\ \A k \in Handles : k # h => v2'[k] = v2[k]
    BY <1>12, <1>13 DEF Fh!TypeOK
  <1>15. Fh!TypeOK'
    BY <1>1, <1>9, <1>14 DEF Fh!TypeOK
  <1>16. \A k \in Handles : /\ Fh!Usable(k)' = Fh!Usable(k)
                            /\ Fh!Usable(k) => v2'[k].fd = v2[k].fd
                            /\ \A g : Fh!Has(k, g) <=> Fh!Has(k, g)'
    BY <1>2, <1>3, <1>12, <1>14 DEF Fh!Usable, Fh!Has
  <1>17. Fh!Right(o)'
    <2>1. Fh!Tells(flags, d)
      BY <1>7, <1>10 DEF Fh!Tells
    <2>2. Fh!Right(v2[h])
      BY <1>1 DEF Fh!HandlesKnown
    <2> QED
      BY <1>3, <1>7, <1>9, <1>12, <2>1, <2>2 DEF Fh!Right, Fh!Tells
  <1>18. ASSUME NEW k \in Handles, Fh!Usable(k)' PROVE Fh!Right(v2[k])'
    <2>1. CASE k = h
      <3>1. v2'[k] = o
        BY <1>14, <2>1
      <3> QED
        BY <1>17, <3>1 DEF Fh!Right, Fh!Tells
    <2>2. CASE k # h
      <3>1. Fh!Usable(k) /\ Fh!Right(v2[k])
        BY <1>16, <1>18 DEF Fh!HandlesKnown
      <3>2. v2[k].fd # f
        BY <1>1, <1>3, <2>2, <3>1 DEF Fh!HandlesKnown, Fh!Has
      <3>3. v2[k].fd \in HandleFds
        BY <3>1 DEF Fh!TypeOK, Fh!Usable, Fh!Objects
      <3>4. v2'[k] = v2[k] /\ v1'[v2[k].fd] = v1[v2[k].fd]
        BY <1>9, <1>14, <2>2, <3>2, <3>3
      <3> QED
        BY <3>1, <3>4 DEF Fh!Right, Fh!Tells
    <2> QED
      BY <2>1, <2>2
  <1>19. Fh!HandlesKnown'
    <2>1. ASSUME NEW k \in Handles, v2'[k] # None, v2'[k].own PROVE v2'[k].fd # -1
      <3>1. CASE k = h
        BY <1>12, <1>14, <3>1, HandleAssumption
      <3>2. CASE k # h
        <4>1. v2'[k] = v2[k]
          BY <1>14, <3>2
        <4> QED
          BY <2>1, <4>1 DEF Fh!HandlesKnown
      <3> QED
        BY <3>1, <3>2
    <2>2. \A j, k \in Handles : Fh!Usable(j)' /\ Fh!Has(k, v2[j].fd)' => j = k
      BY <1>16 DEF Fh!HandlesKnown
    <2> QED
      BY <1>18, <2>1, <2>2 DEF Fh!HandlesKnown
  <1>20. Fh!CallKnown'
    BY <1>1 DEF Fh!CallKnown
  <1>21. ASSUME NEW g \in HandleFds, v1'[g] # None, v1'[g].who = "ucb" PROVE Fh!Held(g)'
    <2>1. v1[g] # None /\ v1[g].who = "ucb"
      BY <1>4, <1>7, <1>9, <1>21
    <2>2. \E k \in Handles : Fh!Has(k, g)
      BY <1>1, <2>1 DEF Fh!Accounted, Fh!Held
    <2> QED
      BY <1>16, <2>2 DEF Fh!Held
  <1> QED
    BY <1>15, <1>19, <1>20, <1>21 DEF Fh!Accounted

\* ucb_file_close and ucb_file_free: the handle has nothing any more, and what it owned is closed.
LEMMA ReleasingKeeps ==
    ASSUME Fh!TypeOK, Fh!HandlesKnown, Fh!Accounted, NEW h \in Handles, Fh!Close(h) \/ Fh!FreeHandle(h)
    PROVE  Fh!TypeOK' /\ Fh!HandlesKnown' /\ Fh!CallKnown' /\ Fh!Accounted'
  <1>1. /\ v4 = Fh!Idle /\ v4' = v4 /\ v3' = v3 /\ v2[h] # None
        /\ v1' = [fd \in HandleFds |-> IF fd \in (IF Fh!HasResource(h) THEN {v2[h].fd} ELSE {}) THEN None ELSE v1[fd]]
    BY DEF Fh!Close, Fh!FreeHandle, Fh!CloseFds
  <1>2. v2[h] \in Fh!Objects
    BY <1>1 DEF Fh!TypeOK
  <1>3. /\ v2' \in [Handles -> Fh!Objects \cup {None}] /\ \A k \in Handles : k # h => v2'[k] = v2[k]
        /\ v2'[h] # None => v2'[h].fd = -1 /\ ~v2'[h].own
    <2>1. CASE Fh!Close(h)
      <3>1. PICK o : o = Fh!Closed(v2[h])
        OBVIOUS
      <3>2. o \in Fh!Objects /\ o.fd = -1
        BY <1>2, <3>1 DEF Fh!Closed, Fh!Objects
      <3>3. ~o.own
        BY <1>2, <3>1 DEF Fh!Closed, Fh!Objects
      <3>4. v2' = [v2 EXCEPT ![h] = o]
        BY <2>1, <3>1 DEF Fh!Close
      <3> QED
        BY <3>2, <3>3, <3>4 DEF Fh!TypeOK
    <2>2. CASE Fh!FreeHandle(h)
      BY <2>2 DEF Fh!FreeHandle, Fh!TypeOK
    <2> QED
      BY <2>1, <2>2
  <1>4. ~Fh!Usable(h)'
    BY <1>3 DEF Fh!Usable
  <1>5. \A k \in Handles : k # h => /\ Fh!Usable(k)' = Fh!Usable(k)
                                    /\ \A g : Fh!Has(k, g)' = Fh!Has(k, g)
    BY <1>3 DEF Fh!Usable, Fh!Has
  <1>6. Fh!HasResource(h) <=> v2[h].own
    BY <1>1 DEF Fh!HandlesKnown, Fh!HasResource
  <1>7. /\ \A g \in HandleFds : v1'[g] = None \/ v1'[g] = v1[g]
        /\ \A g \in HandleFds : ~(v2[h].own /\ v2[h].fd = g) => v1'[g] = v1[g]
        /\ \A g \in HandleFds : v2[h].own /\ v2[h].fd = g => v1'[g] = None
    BY <1>1, <1>6
  <1>8. Fh!TypeOK'
    <2>1. v1' \in [HandleFds -> Fh!Descs \cup {None}]
      BY <1>1 DEF Fh!TypeOK
    <2> QED
      BY <1>1, <1>3, <2>1 DEF Fh!TypeOK
  <1>9. ASSUME NEW k \in Handles, Fh!Usable(k)' PROVE Fh!Right(v2[k])'
    <2>1. k # h /\ Fh!Usable(k) /\ Fh!Right(v2[k]) /\ v2'[k] = v2[k]
      BY <1>3, <1>4, <1>5, <1>9 DEF Fh!HandlesKnown
    <2>2. v2[k].fd \in HandleFds
      BY <2>1 DEF Fh!TypeOK, Fh!Usable, Fh!Objects
    <2>3. ~(v2[h].own /\ v2[h].fd = v2[k].fd)
      <3>1. SUFFICES ASSUME v2[h].own, v2[h].fd = v2[k].fd PROVE FALSE
        OBVIOUS
      <3>2. Fh!Has(h, v2[k].fd)
        BY <1>1, <1>6, <3>1 DEF Fh!Has, Fh!Usable, Fh!HasResource
      <3> QED
        BY <2>1, <3>2 DEF Fh!HandlesKnown
    <2>4. v1'[v2[k].fd] = v1[v2[k].fd]
      BY <1>7, <2>2, <2>3
    <2> QED
      BY <2>1, <2>4 DEF Fh!Right, Fh!Tells
  <1>10. Fh!HandlesKnown'
    <2>1. \A k \in Handles : v2'[k] # None /\ v2'[k].own => v2'[k].fd # -1
      BY <1>3 DEF Fh!HandlesKnown
    <2>2. \A j, k \in Handles : Fh!Usable(j)' /\ Fh!Has(k, v2[j].fd)' => j = k
      <3>1. \A k \in Handles : Fh!Usable(k)' => k # h /\ Fh!Usable(k) /\ v2'[k] = v2[k]
        BY <1>3, <1>4, <1>5
      <3> QED
        BY <3>1 DEF Fh!HandlesKnown, Fh!Has
    <2> QED
      BY <1>9, <2>1, <2>2 DEF Fh!HandlesKnown
  <1>11. Fh!CallKnown'
    BY <1>1 DEF Fh!CallKnown
  <1>12. ASSUME NEW g \in HandleFds, v1'[g] # None, v1'[g].who = "ucb" PROVE Fh!Held(g)'
    <2>1. v1[g] # None /\ v1[g].who = "ucb" /\ v1'[g] = v1[g]
      BY <1>7, <1>12
    <2>2. PICK k \in Handles : Fh!Has(k, g)
      BY <1>1, <2>1 DEF Fh!Accounted, Fh!Held
    <2>3. k # h
      <3>1. v2[k].own
        BY <2>1, <2>2 DEF Fh!Has, Fh!HandlesKnown, Fh!Right
      <3> QED
        BY <1>7, <1>12, <2>2, <3>1 DEF Fh!Has
    <2>4. Fh!Has(k, g)'
      BY <1>5, <2>2, <2>3
    <2> QED
      BY <2>4 DEF Fh!Held
  <1> QED
    BY <1>8, <1>10, <1>11, <1>12 DEF Fh!Accounted

\* The rest of the program opens a descriptor ...
LEMMA OthersOpenKeep ==
    ASSUME Fh!TypeOK, Fh!HandlesKnown, Fh!CallKnown, Fh!Accounted, Fh!OtherOpens
    PROVE  Fh!TypeOK' /\ Fh!HandlesKnown' /\ Fh!CallKnown' /\ Fh!Accounted'
  <1>1. v2' = v2 /\ v4' = v4 /\ v3' = v3 + 1 /\ v3 \in Nat /\ Fh!Free # {}
    BY DEF Fh!OtherOpens, Fh!TypeOK
  <1>2. PICK n \in HandleFds : n = Fh!NewFd /\ v1[n] = None
    BY <1>1, NewNumbers
  <1>3. PICK d \in Fh!Descs : v1' = [v1 EXCEPT ![n] = d] /\ d.who = "other" /\ d # None
    <2>1. PICK b \in BOOLEAN : v1' = [v1 EXCEPT ![n] = Fh!Descriptor(1, "other", b)]
      BY <1>2 DEF Fh!OtherOpens
    <2>2. Fh!Descriptor(1, "other", b) \in Fh!Descs \ {None} /\ Fh!Descriptor(1, "other", b).who = "other"
      BY <1>1, NewDescriptor
    <2> QED
      BY <2>1, <2>2, Zenon
  <1>4. /\ v1' \in [HandleFds -> Fh!Descs \cup {None}] /\ v1'[n] = d
        /\ \A fd \in HandleFds : fd # n => v1'[fd] = v1[fd]
    BY <1>3 DEF Fh!TypeOK
  <1>5. Fh!TypeOK'
    BY <1>1, <1>4 DEF Fh!TypeOK
  <1>6. /\ Fh!HandlesKnown'
        /\ \A fd \in HandleFds : Fh!Waits(fd) => Fh!Waits(fd)'
    BY <1>1, <1>2, <1>4, OpeningKeeps
  <1>7. \A fd \in HandleFds : Fh!Waits(fd) => v1'[fd] = v1[fd]
    BY <1>2, <1>4 DEF Fh!Waits
  <1>8. Fh!CallKnown'
    BY <1>1, <1>6, <1>7, CallStays
  <1>9. Fh!Accounted'
    BY <1>1, <1>3, <1>4 DEF Fh!Accounted, Fh!Held, Fh!Has, Fh!Usable
  <1> QED
    BY <1>5, <1>6, <1>8, <1>9

\* ... and closes one that is its own and not lent.
LEMMA OthersCloseKeep ==
    ASSUME Fh!TypeOK, Fh!HandlesKnown, Fh!CallKnown, Fh!Accounted, NEW f \in HandleFds, Fh!OtherCloses(f)
    PROVE  Fh!TypeOK' /\ Fh!HandlesKnown' /\ Fh!CallKnown' /\ Fh!Accounted'
  <1>1. /\ v2' = v2 /\ v4' = v4 /\ v3' = v3 /\ v1[f].who = "other" /\ \A h \in Handles : ~Fh!Has(h, f)
        /\ v1' = [fd \in HandleFds |-> IF fd \in {f} THEN None ELSE v1[fd]]
    BY DEF Fh!OtherCloses, Fh!CloseFds, Fh!Has
  <1>2. v1'[f] = None /\ \A fd \in HandleFds : fd # f => v1'[fd] = v1[fd]
    BY <1>1
  <1>3. Fh!TypeOK'
    <2>1. v1' \in [HandleFds -> Fh!Descs \cup {None}]
      BY <1>1 DEF Fh!TypeOK
    <2> QED
      BY <1>1, <2>1 DEF Fh!TypeOK
  <1>4. \A h \in Handles : Fh!Usable(h)' = Fh!Usable(h) /\ \A fd : Fh!Has(h, fd)' = Fh!Has(h, fd)
    BY <1>1 DEF Fh!Usable, Fh!Has
  <1>5. \A h \in Handles : Fh!Usable(h) => v2[h].fd \in HandleFds /\ v1'[v2[h].fd] = v1[v2[h].fd]
    BY <1>1, <1>2 DEF Fh!TypeOK, Fh!Usable, Fh!Objects, Fh!Has
  <1>6. Fh!HandlesKnown'
    <2>1. \A h \in Handles : Fh!Usable(h)' => Fh!Right(v2[h])'
      BY <1>1, <1>4, <1>5 DEF Fh!HandlesKnown, Fh!Right, Fh!Tells
    <2> QED
      BY <1>1, <1>4, <2>1 DEF Fh!HandlesKnown
  <1>7. \A fd \in HandleFds : Fh!Waits(fd) => Fh!Waits(fd)' /\ v1'[fd] = v1[fd]
    BY <1>1, <1>2, <1>4 DEF Fh!Waits
  <1>8. Fh!CallKnown'
    BY <1>1, <1>7, CallStays
  <1>9. Fh!Accounted'
    BY <1>1, <1>2, <1>4 DEF Fh!Accounted, Fh!Held
  <1> QED
    BY <1>3, <1>6, <1>8, <1>9

LEMMA HandleStep == Fh!HandleInv /\ Fh!Next => Fh!HandleInv'
  <1> SUFFICES ASSUME Fh!HandleInv, Fh!Next, ~v5'
               PROVE  Fh!TypeOK' /\ Fh!HandlesKnown' /\ Fh!CallKnown' /\ Fh!Accounted'
    BY DEF Fh!HandleInv
  <1>1. \A h \in Handles : ~Fh!CloseReportsError(h)
    BY DEF Fh!CloseReportsError
  <1>2. ~v5
    BY <1>1 DEF Fh!Next, Fh!Open, Fh!Pipe, Fh!ApplyInherit, Fh!Wrap, Fh!OpenFails, Fh!OtherOpens, Fh!Dup,
                Fh!Close, Fh!FreeHandle, Fh!SetInherit, Fh!OtherCloses, Fh!FromFd
  <1>3. Fh!TypeOK /\ Fh!HandlesKnown /\ Fh!CallKnown /\ Fh!Accounted
    BY <1>2 DEF Fh!HandleInv
  <1>4. CASE Fh!Open \/ \E h \in Handles : Fh!Dup(h)
    BY <1>3, <1>4, OpensKeep
  <1>5. CASE Fh!Pipe
    BY <1>3, <1>5, PipesKeep
  <1>6. CASE Fh!ApplyInherit
    BY <1>3, <1>6, InheritKeeps
  <1>7. CASE Fh!Wrap
    BY <1>3, <1>7, WrapsKeep
  <1>8. CASE Fh!OpenFails
    BY <1>3, <1>8, AbandonKeeps
  <1>9. CASE Fh!OtherOpens
    BY <1>3, <1>9, OthersOpenKeep
  <1>10. CASE \E h \in Handles : Fh!Close(h) \/ Fh!FreeHandle(h)
    BY <1>3, <1>10, ReleasingKeeps
  <1>11. CASE \E h \in Handles : \E b \in BOOLEAN : Fh!SetInherit(h, b)
    BY <1>3, <1>11, SettingKeeps
  <1>12. CASE \E f \in HandleFds : Fh!OtherCloses(f)
    BY <1>3, <1>12, OthersCloseKeep
  <1>13. CASE \E f \in HandleFds : \E own \in BOOLEAN : Fh!FromFd(f, own)
    BY <1>3, <1>13, LendKeeps
  <1> QED
    BY <1>1, <1>4, <1>5, <1>6, <1>7, <1>8, <1>9, <1>10, <1>11, <1>12, <1>13 DEF Fh!Next

LEMMA HandleCorrect == Fh!HandleInv => Fh!DescriptorsAccounted /\ Fh!InheritanceTold
  <1> SUFFICES ASSUME Fh!TypeOK, Fh!HandlesKnown, Fh!CallKnown, Fh!Accounted
               PROVE  /\ Fh!OwnsItsOwn
                      /\ \A fd \in HandleFds : v1[fd] # None /\ v1[fd].who = "ucb" =>
                            \/ Fh!Cardinality(Fh!Owners(fd)) = 1
                            \/ v4 # Fh!Idle /\ \E i \in 1..Len(v4.fds) : v4.fds[i] = fd
                      /\ \A h \in Handles : Fh!Usable(h) => Fh!Tells(v2[h].flags, v1[v2[h].fd])
    BY DEF Fh!HandleInv, Fh!DescriptorsAccounted, Fh!InheritanceTold
  <1>1. Fh!OwnsItsOwn
    BY DEF Fh!OwnsItsOwn, Fh!HandlesKnown, Fh!Right, Fh!Usable
  <1>2. \A h \in Handles : Fh!Usable(h) => Fh!Tells(v2[h].flags, v1[v2[h].fd])
    BY DEF Fh!HandlesKnown, Fh!Right
  <1>3. ASSUME NEW fd \in HandleFds, v1[fd].who = "ucb", NEW h \in Handles, Fh!Has(h, fd)
        PROVE  Fh!Cardinality(Fh!Owners(fd)) = 1
    <2>1. h \in Fh!Owners(fd)
      BY <1>3 DEF Fh!Owners, Fh!Has, Fh!Usable, Fh!HandlesKnown, Fh!Right
    <2>2. ASSUME NEW k \in Fh!Owners(fd) PROVE k = h
      <3>1. k \in Handles /\ v2[k] # None /\ v2[k].own /\ v2[k].fd = fd
        BY DEF Fh!Owners
      <3>2. Fh!Usable(k) /\ Fh!Has(h, v2[k].fd)
        BY <1>3, <3>1 DEF Fh!HandlesKnown, Fh!Usable
      <3> QED
        BY <3>1, <3>2 DEF Fh!HandlesKnown
    <2>3. Fh!Owners(fd) = {h}
      BY <2>1, <2>2
    <2> QED
      BY <2>3, SameSize, MadeSize
  <1>4. ASSUME NEW fd \in HandleFds, v1[fd] # None, v1[fd].who = "ucb"
        PROVE  \/ Fh!Cardinality(Fh!Owners(fd)) = 1
               \/ v4 # Fh!Idle /\ \E i \in 1..Len(v4.fds) : v4.fds[i] = fd
    BY <1>3, <1>4 DEF Fh!Accounted, Fh!Held
  <1> QED
    BY <1>1, <1>2, <1>4

\* ucb_file, for every set of descriptors and handles and however many are opened: unless a
\* close has reported an error, what ucb has opened has one owner or a call that is making
\* one, an owner has the descriptor it was made for, and a handle says rightly what is inherited.
THEOREM HandlesCorrect == MCSpec => [](part = "handle" => Fh!DescriptorsAccounted /\ Fh!InheritanceTold)
  <1> DEFINE Inv == part = "handle" => Fh!HandleInv
  <1>1. MCInit => Inv
    BY HandleInit DEF MCInit
  <1>2. Inv /\ [MCNext]_<<part, vars, others>> => Inv'
    <2> SUFFICES ASSUME Inv, [MCNext]_<<part, vars, others>>, part' = "handle"
                 PROVE  Fh!HandleInv'
      OBVIOUS
    <2>1. CASE UNCHANGED <<part, vars, others>>
      <3>1. UNCHANGED <<v1, v2, v3, v4, v5, part>>
        BY <2>1 DEF others
      <3>2. Fh!HandleInv
        BY <3>1
      <3>3. Fh!TypeOK => Fh!TypeOK'
        BY <3>1 DEF Fh!TypeOK
      <3>4. /\ \A h : Fh!Usable(h)' = Fh!Usable(h) /\ \A fd : Fh!Has(h, fd)' = Fh!Has(h, fd)
            /\ \A fd : Fh!Waits(fd)' = Fh!Waits(fd)
        BY <3>1 DEF Fh!Usable, Fh!Has, Fh!Waits
      <3>5. Fh!HandlesKnown => Fh!HandlesKnown'
        BY <3>1, <3>4 DEF Fh!HandlesKnown, Fh!Right, Fh!Tells
      <3>6. Fh!CallKnown => Fh!CallKnown'
        BY <3>1, <3>4, CallStays
      <3>7. Fh!Accounted => Fh!Accounted'
        BY <3>1, <3>4 DEF Fh!Accounted, Fh!Held
      <3> QED
        BY <3>1, <3>2, <3>3, <3>5, <3>6, <3>7 DEF Fh!HandleInv
    <2>2. CASE MCNext
      BY <2>2, HandleStep DEF MCNext
    <2> QED
      BY <2>1, <2>2
  <1>3. Inv => (part = "handle" => Fh!DescriptorsAccounted /\ Fh!InheritanceTold)
    BY HandleCorrect
  <1> QED
    BY <1>1, <1>2, <1>3, PTL DEF MCSpec

\* The invariant of the run: handles, the child's streams on both systems, and transfers.
THEOREM FilesCorrect == MCSpec => []FilesWhole
  <1>1. /\ part = "handle" => Fh!DescriptorsAccounted /\ Fh!InheritanceTold
        /\ part = "spawn" => Wp!FlagsRestored /\ Wp!OnlyStreamsGiven /\ Wp!ProcessHandles
        /\ part = "redirect" => Rd!RedirectedAsAsked /\ Rd!FailureIsTold
        /\ part = "io" => Fi!ReadsWhole /\ Fi!WritesInOrder
        => FilesWhole
    BY DEF FilesWhole
  <1> QED
    BY <1>1, HandlesCorrect, SpawnsCorrect, RedirectionsCorrect, TransfersCorrect, PTL
=============================================================================
