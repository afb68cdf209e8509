---------------------------- MODULE ProcessProofs ----------------------------
(***************************************************************************)
(* Proofs about Process, for any number of threads, children and process   *)
(* ids: who owns a child, its process id and its status pipe.              *)
(***************************************************************************)
EXTENDS Process, TLAPS

-----------------------------------------------------------------------------
(* The inductive invariant.                                                *)

Locs   == {"out", "handle"} \cup Spawning
States == {"new", "gone"} \cup Existing

Types ==
    /\ pc \in [Threads -> Locs]
    /\ child \in [Threads -> Children \cup {None}]
    /\ reaped \in [Threads -> BOOLEAN]
    /\ code \in [Threads -> 0..255]
    /\ state \in [Children -> States]
    /\ pid \in [Children -> Pids \cup {None}]
    /\ ending \in [Children -> Endings]
    /\ writers \in [Children -> SUBSET (Children \cup {Program})]
    /\ leaky \in [Children -> SUBSET (Children \cup {Program})]
    /\ \A c \in Children : leaky[c] \subseteq writers[c]
    /\ failure \in [Children -> BOOLEAN]
    /\ orphans \subseteq Children

\* A thread inside spawn or with a handle has a child, which no other thread has.
OneParent ==
    /\ \A t \in Threads :
          child[t] \in IF pc[t] = "out" THEN {None} ELSE Children
    /\ \A t, u \in Threads : child[t] \in Children /\ child[t] = child[u] => t = u

\* No two processes have the same id.
OneHolder ==
    \A c, d \in Children :
        state[c] \in Existing /\ state[d] \in Existing /\ pid[c] = pid[d] => c = d

\* How far the child of a thread has got.
ChildStage ==
    \A t \in Threads :
        /\ pc[t] \in {"fcntl", "fork"} => state[child[t]] = "new"
        /\ pc[t] \in {"close", "read", "kill", "reap"} => state[child[t]] \in Existing
        /\ pc[t] = "handle" =>
              /\ ~failure[child[t]]
              /\ state[child[t]] \in IF reaped[t] THEN {"gone"} ELSE {"running", "zombie"}
              /\ reaped[t] => code[t] = ExitCode(ending[child[t]])

\* The write end of a status pipe stays open until the child is past exec: the program
\* has it when it forks, and the child until then.
PipeHeld ==
    /\ Program \notin Children
    /\ \A t \in Threads :
          pc[t] \in {"fcntl", "fork"} => Program \in writers[child[t]]
    /\ \A c \in Children : state[c] = "forked" => c \in writers[c]

Inv == Types /\ OneParent /\ OneHolder /\ ChildStage /\ PipeHeld /\ ChildrenAccounted

\* Nothing is spawned at first.
LEMMA InvInit == Init => Inv
  <1> SUFFICES ASSUME Init PROVE Inv
    OBVIOUS
  <1> USE NoneAssumption DEF Init
  <1>1. Types
    BY DEF Types, Locs, States, Endings
  <1>2. OneParent /\ OneHolder /\ ChildStage
    BY DEF OneParent, OneHolder, ChildStage, Existing
  <1>3. PipeHeld /\ ChildrenAccounted
    BY DEF PipeHeld, ChildrenAccounted, Existing
  <1> QED
    BY <1>1, <1>2, <1>3 DEF Inv

\* waitpid and kill on the id of a child reach that child or nobody.
LEMMA OwnPid ==
    ASSUME Types, OneHolder, NEW c \in Children, state[c] \in Existing
    PROVE  /\ Waitable(pid[c]) = IF state[c] = "zombie" THEN {c} ELSE {}
           /\ Reached(pid[c]) = IF state[c] = "zombie" THEN {} ELSE {c}
  BY DEF Types, OneHolder, Waitable, Reached, Existing

\* An exit code fits a byte.
LEMMA CodeFits ==
    ASSUME NEW how \in Endings
    PROVE  ExitCode(how) \in 0..255
  BY DEF Endings, ExitCode

\* A new pipe is for a child nobody has.
LEMMA MakePipeKeeps ==
    ASSUME Inv, NEW t \in Threads, MakePipe(t)
    PROVE  Inv'
  <1> USE NoneAssumption DEF MakePipe, handles, kids, pipes, Existing, Spawning, Goto
  <1>0. Types /\ OneParent /\ OneHolder /\ ChildStage /\ PipeHeld /\ ChildrenAccounted
    BY DEF Inv
  <1>1. Types'
    BY <1>0 DEF Types, Locs, States, OneParent
  <1>2. OneParent'
    BY <1>0 DEF Types, OneParent
  <1>3. OneHolder'
    BY <1>0 DEF Types, OneHolder, OneParent
  <1>4. ChildStage'
    BY <1>0 DEF Types, OneParent, ChildStage, PipeHeld
  <1>5. PipeHeld'
    BY <1>0 DEF Types, OneParent, ChildStage, PipeHeld
  <1>6. ChildrenAccounted'
    BY <1>0 DEF Types, OneParent, ChildStage, ChildrenAccounted
  <1> QED
    BY <1>1, <1>2, <1>3, <1>4, <1>5, <1>6 DEF Inv

\* Marking the pipe close-on-exec leaves the rest.
LEMMA FcntlKeeps ==
    ASSUME Inv, NEW t \in Threads, Fcntl(t)
    PROVE  Inv'
  <1> USE NoneAssumption DEF Fcntl, SetCloexec, handles, kids, pipes, Existing,
          Spawning, Goto
  <1>0. Types /\ OneParent /\ OneHolder /\ ChildStage /\ PipeHeld /\ ChildrenAccounted
    BY DEF Inv
  <1>1. Types'
    BY <1>0 DEF Types, Locs, States, OneParent
  <1>2. OneParent'
    BY <1>0 DEF Types, OneParent
  <1>3. OneHolder'
    BY <1>0 DEF Types, OneHolder, OneParent
  <1>4. ChildStage'
    BY <1>0 DEF Types, OneParent, ChildStage, PipeHeld
  <1>5. PipeHeld'
    BY <1>0 DEF Types, OneParent, ChildStage, PipeHeld
  <1>6. ChildrenAccounted'
    BY <1>0 DEF Types, OneParent, ChildStage, ChildrenAccounted
  <1> QED
    BY <1>1, <1>2, <1>3, <1>4, <1>5, <1>6 DEF Inv

\* A spawn that fails before fork has no process to lose.
LEMMA SpawnFailsKeeps ==
    ASSUME Inv, NEW t \in Threads, SpawnFails(t)
    PROVE  Inv'
  <1> USE NoneAssumption DEF SpawnFails, Close, handles, kids, pipes, Existing,
          Spawning, Goto
  <1>0. Types /\ OneParent /\ OneHolder /\ ChildStage /\ PipeHeld /\ ChildrenAccounted
    BY DEF Inv
  <1>1. Types'
    BY <1>0 DEF Types, Locs, States, OneParent
  <1>2. OneParent'
    BY <1>0 DEF Types, OneParent
  <1>3. OneHolder'
    BY <1>0 DEF Types, OneHolder, OneParent
  <1>4. ChildStage'
    BY <1>0 DEF Types, OneParent, ChildStage, PipeHeld
  <1>5. PipeHeld'
    BY <1>0 DEF Types, OneParent, ChildStage, PipeHeld
  <1>6. ChildrenAccounted'
    BY <1>0 DEF Types, OneParent, ChildStage, ChildrenAccounted
  <1> QED
    BY <1>1, <1>2, <1>3, <1>4, <1>5, <1>6 DEF Inv

\* The new process has an id of its own and the write end of its pipe.
LEMMA ForkKeeps ==
    ASSUME Inv, NEW t \in Threads, Fork(t)
    PROVE  Inv'
  <1> USE NoneAssumption DEF Fork, Copied, handles, kids, pipes, Existing,
          Spawning, Goto
  <1>0. Types /\ OneParent /\ OneHolder /\ ChildStage /\ PipeHeld /\ ChildrenAccounted
    BY DEF Inv
  <1>1. Types'
    BY <1>0 DEF Types, Locs, States, OneParent
  <1>2. OneParent'
    BY <1>0 DEF Types, OneParent
  <1>3. OneHolder'
    BY <1>0 DEF Types, OneHolder, OneParent
  <1>4. ChildStage'
    BY <1>0 DEF Types, OneParent, ChildStage, PipeHeld
  <1>5. PipeHeld'
    BY <1>0 DEF Types, OneParent, ChildStage, PipeHeld
  <1>6. ChildrenAccounted'
    BY <1>0 DEF Types, OneParent, ChildStage, ChildrenAccounted
  <1> QED
    BY <1>1, <1>2, <1>3, <1>4, <1>5, <1>6 DEF Inv

\* The program's end is closed after the fork.
LEMMA CloseWriteKeeps ==
    ASSUME Inv, NEW t \in Threads, CloseWrite(t)
    PROVE  Inv'
  <1> USE NoneAssumption DEF CloseWrite, Close, handles, kids, pipes, Existing,
          Spawning, Goto
  <1>0. Types /\ OneParent /\ OneHolder /\ ChildStage /\ PipeHeld /\ ChildrenAccounted
    BY DEF Inv
  <1>1. Types'
    BY <1>0 DEF Types, Locs, States, OneParent
  <1>2. OneParent'
    BY <1>0 DEF Types, OneParent
  <1>3. OneHolder'
    BY <1>0 DEF Types, OneHolder, OneParent
  <1>4. ChildStage'
    BY <1>0 DEF Types, OneParent, ChildStage, PipeHeld
  <1>5. PipeHeld'
    BY <1>0 DEF Types, OneParent, ChildStage, PipeHeld
  <1>6. ChildrenAccounted'
    BY <1>0 DEF Types, OneParent, ChildStage, ChildrenAccounted
  <1> QED
    BY <1>1, <1>2, <1>3, <1>4, <1>5, <1>6 DEF Inv

\* A child that has reported its failure is still to be reaped.
LEMMA ReadFailureKeeps ==
    ASSUME Inv, NEW t \in Threads, ReadFailure(t)
    PROVE  Inv'
  <1> USE NoneAssumption DEF ReadFailure, AfterFailure, handles, kids, pipes,
          Existing, Spawning, Goto
  <1>0. Types /\ OneParent /\ OneHolder /\ ChildStage /\ PipeHeld /\ ChildrenAccounted
    BY DEF Inv
  <1>1. Types'
    BY <1>0 DEF Types, Locs, States, OneParent
  <1>2. OneParent'
    BY <1>0 DEF Types, OneParent
  <1>3. OneHolder'
    BY <1>0 DEF Types, OneHolder, OneParent
  <1>4. ChildStage'
    BY <1>0 DEF Types, OneParent, ChildStage, PipeHeld
  <1>5. PipeHeld'
    BY <1>0 DEF Types, OneParent, ChildStage, PipeHeld
  <1>6. ChildrenAccounted'
    BY <1>0 DEF Types, OneParent, ChildStage, ChildrenAccounted
  <1> QED
    BY <1>1, <1>2, <1>3, <1>4, <1>5, <1>6 DEF Inv

\* End of file: the child is past exec, since it would hold its end before.
LEMMA ReadEofKeeps ==
    ASSUME Inv, NEW t \in Threads, ReadEof(t)
    PROVE  Inv'
  <1> USE NoneAssumption DEF ReadEof, AtEof, handles, kids, pipes, Existing,
          Spawning, Goto
  <1>0. Types /\ OneParent /\ OneHolder /\ ChildStage /\ PipeHeld /\ ChildrenAccounted
    BY DEF Inv
  <1>1. Types'
    BY <1>0 DEF Types, Locs, States, OneParent
  <1>2. OneParent'
    BY <1>0 DEF Types, OneParent
  <1>3. OneHolder'
    BY <1>0 DEF Types, OneHolder, OneParent
  <1>4. ChildStage'
    BY <1>0 DEF Types, OneParent, ChildStage, PipeHeld
  <1>5. PipeHeld'
    BY <1>0 DEF Types, OneParent, ChildStage, PipeHeld
  <1>6. ChildrenAccounted'
    BY <1>0 DEF Types, OneParent, ChildStage, ChildrenAccounted
  <1> QED
    BY <1>1, <1>2, <1>3, <1>4, <1>5, <1>6 DEF Inv

\* A child whose report cannot be read is still to be killed.
LEMMA ReadFailsKeeps ==
    ASSUME Inv, NEW t \in Threads, ReadFails(t)
    PROVE  Inv'
  <1> USE NoneAssumption DEF ReadFails, handles, kids, pipes, Existing,
          Spawning, Goto
  <1>0. Types /\ OneParent /\ OneHolder /\ ChildStage /\ PipeHeld /\ ChildrenAccounted
    BY DEF Inv
  <1>1. Types'
    BY <1>0 DEF Types, Locs, States, OneParent
  <1>2. OneParent'
    BY <1>0 DEF Types, OneParent
  <1>3. OneHolder'
    BY <1>0 DEF Types, OneHolder, OneParent
  <1>4. ChildStage'
    BY <1>0 DEF Types, OneParent, ChildStage, PipeHeld
  <1>5. PipeHeld'
    BY <1>0 DEF Types, OneParent, ChildStage, PipeHeld
  <1>6. ChildrenAccounted'
    BY <1>0 DEF Types, OneParent, ChildStage, ChildrenAccounted
  <1> QED
    BY <1>1, <1>2, <1>3, <1>4, <1>5, <1>6 DEF Inv

\* The kill reaches the thread's own child, or finds it ended.
LEMMA KillSpawnedKeeps ==
    ASSUME Inv, NEW t \in Threads, KillSpawned(t)
    PROVE  Inv'
  <1> USE NoneAssumption DEF KillSpawned, Ends, CloseAll, Endings, handles,
          kids, pipes, Existing, Spawning, Goto
  <1>0. Types /\ OneParent /\ OneHolder /\ ChildStage /\ PipeHeld /\ ChildrenAccounted
    BY DEF Inv
  <1>1. child[t] \in Children /\ state[child[t]] \in Existing
    BY <1>0 DEF OneParent, ChildStage
  <1>2. /\ Waitable(pid[child[t]]) = IF state[child[t]] = "zombie" THEN {child[t]} ELSE {}
        /\ Reached(pid[child[t]]) = IF state[child[t]] = "zombie" THEN {} ELSE {child[t]}
    BY <1>0, <1>1, OwnPid
  <1>3. Types'
    <2>1. CASE state[child[t]] = "zombie"
      BY <2>1, <1>0, <1>1, <1>2 DEF Types, Locs, States, OneParent
    <2>2. CASE state[child[t]] # "zombie"
      <3>1. Ends(child[t], <<"signal", 9>>) /\ CloseAll(child[t])
        BY <2>2, <1>0, <1>1, <1>2
      <3> QED
        BY <3>1, <1>0, <1>1 DEF Types, Locs, States, OneParent
    <2> QED
      BY <2>1, <2>2
  <1>4. OneParent'
    BY <1>0, <1>1, <1>2 DEF Types, OneParent
  <1>5. OneHolder'
    BY <1>0, <1>1, <1>2 DEF Types, OneHolder, OneParent
  <1>6. ChildStage'
    BY <1>0, <1>1, <1>2 DEF Types, OneParent, ChildStage, PipeHeld
  <1>7. PipeHeld'
    <2>1. CASE state[child[t]] = "zombie"
      BY <2>1, <1>0, <1>1, <1>2 DEF Types, OneParent, ChildStage, PipeHeld
    <2>2. CASE state[child[t]] # "zombie"
      <3>1. Ends(child[t], <<"signal", 9>>) /\ CloseAll(child[t])
        BY <2>2, <1>0, <1>1, <1>2
      <3> QED
        BY <3>1, <1>0, <1>1 DEF Types, OneParent, ChildStage, PipeHeld
    <2> QED
      BY <2>1, <2>2
  <1>8. ChildrenAccounted'
    BY <1>0, <1>1, <1>2 DEF Types, OneParent, ChildStage, ChildrenAccounted
  <1> QED
    BY <1>3, <1>4, <1>5, <1>6, <1>7, <1>8 DEF Inv

\* A reaped child is gone with its thread's spawn.
LEMMA ReapKeeps ==
    ASSUME Inv, NEW t \in Threads, Reap(t)
    PROVE  Inv'
  <1> USE NoneAssumption DEF Reap, handles, kids, pipes, Existing, Spawning, Goto
  <1>0. Types /\ OneParent /\ OneHolder /\ ChildStage /\ PipeHeld /\ ChildrenAccounted
    BY DEF Inv
  <1>1. child[t] \in Children /\ state[child[t]] \in Existing
    BY <1>0 DEF OneParent, ChildStage
  <1>2. /\ Waitable(pid[child[t]]) = IF state[child[t]] = "zombie" THEN {child[t]} ELSE {}
        /\ Reached(pid[child[t]]) = IF state[child[t]] = "zombie" THEN {} ELSE {child[t]}
    BY <1>0, <1>1, OwnPid
  <1>3. Types'
    BY <1>0, <1>1, <1>2 DEF Types, Locs, States, OneParent
  <1>4. OneParent'
    BY <1>0, <1>1, <1>2 DEF Types, OneParent
  <1>5. OneHolder'
    BY <1>0, <1>1, <1>2 DEF Types, OneHolder, OneParent
  <1>6. ChildStage'
    BY <1>0, <1>1, <1>2 DEF Types, OneParent, ChildStage, PipeHeld
  <1>7. PipeHeld'
    BY <1>0, <1>1, <1>2 DEF Types, OneParent, ChildStage, PipeHeld
  <1>8. ChildrenAccounted'
    BY <1>0, <1>1, <1>2 DEF Types, OneParent, ChildStage, ChildrenAccounted
  <1> QED
    BY <1>3, <1>4, <1>5, <1>6, <1>7, <1>8 DEF Inv

\* A wait reaps the handle's own child, and the code is that child's.
LEMMA WaitKeeps ==
    ASSUME Inv, NEW t \in Threads, Wait(t)
    PROVE  Inv'
  <1> USE NoneAssumption DEF Wait, MarkReaped, handles, kids, pipes, Existing,
          Spawning, Goto
  <1>0. Types /\ OneParent /\ OneHolder /\ ChildStage /\ PipeHeld /\ ChildrenAccounted
    BY DEF Inv
  <1>1. child[t] \in Children
    BY <1>0 DEF OneParent
  <1>2. state[child[t]] \in Existing
    BY <1>0 DEF ChildStage
  <1>3. /\ Waitable(pid[child[t]]) = IF state[child[t]] = "zombie" THEN {child[t]} ELSE {}
        /\ Reached(pid[child[t]]) = IF state[child[t]] = "zombie" THEN {} ELSE {child[t]}
    BY <1>0, <1>1, <1>2, OwnPid
  <1>4. ExitCode(ending[child[t]]) \in 0..255
    BY <1>0, <1>1, CodeFits DEF Types
  <1>5. Types'
    BY <1>0, <1>1, <1>2, <1>3, <1>4 DEF Types, Locs, States, OneParent
  <1>6. OneParent'
    BY <1>0, <1>1, <1>2, <1>3, <1>4 DEF Types, OneParent
  <1>7. OneHolder'
    BY <1>0, <1>1, <1>2, <1>3, <1>4 DEF Types, OneHolder, OneParent
  <1>8. ChildStage'
    BY <1>0, <1>1, <1>2, <1>3, <1>4 DEF Types, OneParent, ChildStage, PipeHeld
  <1>9. PipeHeld'
    BY <1>0, <1>1, <1>2, <1>3, <1>4 DEF Types, OneParent, ChildStage, PipeHeld
  <1>10. ChildrenAccounted'
    BY <1>0, <1>1, <1>2, <1>3, <1>4 DEF Types, OneParent, ChildStage, ChildrenAccounted
  <1> QED
    BY <1>5, <1>6, <1>7, <1>8, <1>9, <1>10 DEF Inv

\* A freed handle leaves no zombie; a running child becomes an orphan.
LEMMA FreeKeeps ==
    ASSUME Inv, NEW t \in Threads, Free(t)
    PROVE  Inv'
  <1> USE NoneAssumption DEF Free, handles, kids, pipes, Existing, Spawning, Goto
  <1>0. Types /\ OneParent /\ OneHolder /\ ChildStage /\ PipeHeld /\ ChildrenAccounted
    BY DEF Inv
  <1>1. child[t] \in Children
    BY <1>0 DEF OneParent
  <1>2. ~reaped[t] => state[child[t]] \in Existing
    BY <1>0 DEF ChildStage
  <1>3. ~reaped[t] => Waitable(pid[child[t]]) = IF state[child[t]] = "zombie" THEN {child[t]} ELSE {}
    BY <1>0, <1>1, <1>2, OwnPid
  <1>4. Types'
    BY <1>0, <1>1, <1>2, <1>3 DEF Types, Locs, States, OneParent
  <1>5. OneParent'
    BY <1>0, <1>1, <1>2, <1>3 DEF Types, OneParent
  <1>6. OneHolder'
    BY <1>0, <1>1, <1>2, <1>3 DEF Types, OneHolder, OneParent
  <1>7. ChildStage'
    BY <1>0, <1>1, <1>2, <1>3 DEF Types, OneParent, ChildStage, PipeHeld
  <1>8. PipeHeld'
    BY <1>0, <1>1, <1>2, <1>3 DEF Types, OneParent, ChildStage, PipeHeld
  <1>9. ChildrenAccounted'
    BY <1>0, <1>1, <1>2, <1>3 DEF Types, OneParent, ChildStage, ChildrenAccounted
  <1> QED
    BY <1>4, <1>5, <1>6, <1>7, <1>8, <1>9 DEF Inv

\* A signal reaches the handle's own child, or nobody.
LEMMA TerminateKeeps ==
    ASSUME Inv, NEW t \in Threads, NEW sig \in {9, 15}, Terminate(t, sig)
    PROVE  Inv'
  <1> USE NoneAssumption DEF Terminate, Ends, CloseAll, handles, kids, pipes,
          Existing, Spawning, Goto
  <1>0. Types /\ OneParent /\ OneHolder /\ ChildStage /\ PipeHeld /\ ChildrenAccounted
    BY DEF Inv
  <1>1. child[t] \in Children
    BY <1>0 DEF OneParent
  <1>2. state[child[t]] \in Existing
    BY <1>0 DEF ChildStage
  <1>3. /\ Waitable(pid[child[t]]) = IF state[child[t]] = "zombie" THEN {child[t]} ELSE {}
        /\ Reached(pid[child[t]]) = IF state[child[t]] = "zombie" THEN {} ELSE {child[t]}
    BY <1>0, <1>1, <1>2, OwnPid
  <1> USE DEF Endings
  <1>4. Types'
    BY <1>0, <1>1, <1>2, <1>3 DEF Types, Locs, States, OneParent
  <1>5. OneParent'
    BY <1>0, <1>1, <1>2, <1>3 DEF Types, OneParent
  <1>6. OneHolder'
    BY <1>0, <1>1, <1>2, <1>3 DEF Types, OneHolder, OneParent
  <1>7. ChildStage'
    BY <1>0, <1>1, <1>2, <1>3 DEF Types, OneParent, ChildStage, PipeHeld
  <1>8. PipeHeld'
    BY <1>0, <1>1, <1>2, <1>3 DEF Types, OneParent, ChildStage, PipeHeld
  <1>9. ChildrenAccounted'
    BY <1>0, <1>1, <1>2, <1>3 DEF Types, OneParent, ChildStage, ChildrenAccounted
  <1> QED
    BY <1>4, <1>5, <1>6, <1>7, <1>8, <1>9 DEF Inv

\* exec closes the child's ends.
LEMMA ExecKeeps ==
    ASSUME Inv, NEW c \in Children, Exec(c)
    PROVE  Inv'
  <1> USE NoneAssumption DEF Exec, handles, kids, pipes, Existing, Spawning, Goto
  <1>0. Types /\ OneParent /\ OneHolder /\ ChildStage /\ PipeHeld /\ ChildrenAccounted
    BY DEF Inv
  <1>1. Types'
    BY <1>0 DEF Types, Locs, States, OneParent
  <1>2. OneParent'
    BY <1>0 DEF Types, OneParent
  <1>3. OneHolder'
    BY <1>0 DEF Types, OneHolder, OneParent
  <1>4. ChildStage'
    BY <1>0 DEF Types, OneParent, ChildStage, PipeHeld
  <1>5. PipeHeld'
    BY <1>0 DEF Types, OneParent, ChildStage, PipeHeld
  <1>6. ChildrenAccounted'
    BY <1>0 DEF Types, OneParent, ChildStage, ChildrenAccounted
  <1> QED
    BY <1>1, <1>2, <1>3, <1>4, <1>5, <1>6 DEF Inv

\* A failed exec is reported before the child ends.
LEMMA ExecFailsKeeps ==
    ASSUME Inv, NEW c \in Children, ExecFails(c)
    PROVE  Inv'
  <1> USE NoneAssumption DEF ExecFails, Ends, CloseAll, handles, kids, pipes,
          Existing, Spawning, Goto
  <1>0. Types /\ OneParent /\ OneHolder /\ ChildStage /\ PipeHeld /\ ChildrenAccounted
    BY DEF Inv
  <1> USE DEF Endings
  <1>1. Types'
    BY <1>0 DEF Types, Locs, States, OneParent
  <1>2. OneParent'
    BY <1>0 DEF Types, OneParent
  <1>3. OneHolder'
    BY <1>0 DEF Types, OneHolder, OneParent
  <1>4. ChildStage'
    BY <1>0 DEF Types, OneParent, ChildStage, PipeHeld
  <1>5. PipeHeld'
    BY <1>0 DEF Types, OneParent, ChildStage, PipeHeld
  <1>6. ChildrenAccounted'
    BY <1>0 DEF Types, OneParent, ChildStage, ChildrenAccounted
  <1> QED
    BY <1>1, <1>2, <1>3, <1>4, <1>5, <1>6 DEF Inv

\* A program that ends is a zombie until it is waited for.
LEMMA ExitsKeeps ==
    ASSUME Inv, NEW c \in Children, Exits(c)
    PROVE  Inv'
  <1> USE NoneAssumption DEF Exits, Ends, CloseAll, handles, kids, pipes,
          Existing, Spawning, Goto
  <1>0. Types /\ OneParent /\ OneHolder /\ ChildStage /\ PipeHeld /\ ChildrenAccounted
    BY DEF Inv
  <1> USE DEF Endings
  <1>1. Types'
    BY <1>0 DEF Types, Locs, States, OneParent
  <1>2. OneParent'
    BY <1>0 DEF Types, OneParent
  <1>3. OneHolder'
    BY <1>0 DEF Types, OneHolder, OneParent
  <1>4. ChildStage'
    BY <1>0 DEF Types, OneParent, ChildStage, PipeHeld
  <1>5. PipeHeld'
    BY <1>0 DEF Types, OneParent, ChildStage, PipeHeld
  <1>6. ChildrenAccounted'
    BY <1>0 DEF Types, OneParent, ChildStage, ChildrenAccounted
  <1> QED
    BY <1>1, <1>2, <1>3, <1>4, <1>5, <1>6 DEF Inv

-----------------------------------------------------------------------------
(* Every step.                                                             *)

LEMMA InvStep == Inv /\ [Next]_vars => Inv'
  <1> SUFFICES ASSUME Inv, [Next]_vars PROVE Inv'
    OBVIOUS
  <1>1. CASE UNCHANGED vars
    BY <1>1 DEF vars, handles, kids, pipes, Inv, Types, OneParent, OneHolder, ChildStage,
                PipeHeld, ChildrenAccounted
  <1>2. ASSUME NEW t \in Threads,
               MakePipe(t) \/ SpawnStep(t) \/ SpawnFails(t) \/ ReadFails(t)
        PROVE  Inv'
    BY <1>2, MakePipeKeeps, SpawnFailsKeeps, ReadFailsKeeps, FcntlKeeps, ForkKeeps,
       CloseWriteKeeps, ReadFailureKeeps, ReadEofKeeps, KillSpawnedKeeps, ReapKeeps
       DEF SpawnStep
  <1>3. ASSUME NEW t \in Threads, Wait(t) \/ Terminate(t, 15) \/ Terminate(t, 9) \/ Free(t)
        PROVE  Inv'
    BY <1>3, WaitKeeps, TerminateKeeps, FreeKeeps
  <1>4. ASSUME NEW c \in Children, ChildStarts(c) \/ Exits(c)
        PROVE  Inv'
    BY <1>4, ExecKeeps, ExecFailsKeeps, ExitsKeeps DEF ChildStarts
  <1> QED
    BY <1>1, <1>2, <1>3, <1>4 DEF Next

\* The invariant holds in every reachable state.
THEOREM Invariance == Spec => []Inv
  BY InvInit, InvStep, PTL DEF Spec

\* Every variable keeps its type: an exit code is a byte, and a descriptor that is not
\* close-on-exec is open.
THEOREM TypeCorrect == Spec => []TypeOK
  <1>1. Inv => TypeOK
    BY DEF Inv, Types, Locs, States, TypeOK
  <1> QED
    BY <1>1, Invariance, PTL

\* The id in a handle that has not been waited for is its child's and nobody else's:
\* ucb_process_kill and ucb_process_terminate signal no stranger.
THEOREM OwnerCorrect == Spec => []HandleOwnsPid
  <1>1. Inv => HandleOwnsPid
    BY DEF Inv, OneParent, OneHolder, ChildStage, HandleOwnsPid, Existing
  <1> QED
    BY <1>1, Invariance, PTL

\* ucb_process_spawn loses no child on any of its error paths, nor does
\* ucb_process_free.
THEOREM NoChildLost == Spec => []ChildrenAccounted
  <1>1. Inv => ChildrenAccounted
    BY DEF Inv
  <1> QED
    BY <1>1, Invariance, PTL

\* ucb_process_spawn returns a handle only of a child whose exec has succeeded,
\* although it learns of the exec by an end of file alone.
THEOREM HandlesAreStarted == Spec => []HandleIsStarted
  <1>1. Inv => HandleIsStarted
    BY DEF Inv, ChildStage, HandleIsStarted
  <1> QED
    BY <1>1, Invariance, PTL

\* ucb_process_wait gives the code of the handle's own child, also when ids are
\* used again.
THEOREM CodesAreOwn == Spec => []CodeIsOwn
  <1>1. Inv => CodeIsOwn
    BY DEF Inv, ChildStage, CodeIsOwn
  <1> QED
    BY <1>1, Invariance, PTL
=============================================================================
