------------------------------ MODULE Process ------------------------------
(***************************************************************************)
(* Child processes, src/ucb/process.c and the Unix backend in              *)
(* src/ucb/process_unix.c: spawn with its status pipe, wait, terminate,    *)
(* kill and free, called from several threads, each with one handle at a   *)
(* time (a handle is not thread-safe).                                     *)
(*                                                                         *)
(* The kernel's part is modelled from the calls: a forked child has a copy *)
(* of every descriptor the program has open at that moment, exec closes    *)
(* the close-on-exec ones, a process id is used again once its process has *)
(* been waited for.  A status pipe is named by the child it was made for.  *)
(***************************************************************************)
EXTENDS Integers, FiniteSets

CONSTANTS
    Threads,
    Children,   \* the children, each spawned at most once (bounds the spawns)
    Pids,
    Program,    \* the program itself, as a holder of descriptors
    None

ASSUME NoneAssumption == None \notin Children \cup Pids /\ Program \notin Children

VARIABLES
    pc,         \* where each thread is in spawn; "handle" once it has a process
    child,      \* the child that the thread spawns or has a handle of
    reaped,     \* proc->reaped
    code,       \* proc->exit_code
    state,      \* of each child
    pid,        \* of each child
    ending,     \* how the child ended: exit(n) or signal n
    writers,    \* the processes with the write end of a child's status pipe
    leaky,      \* the writers whose descriptor is not close-on-exec
    failure,    \* the child has written `failure` to its status pipe
    orphans     \* history: the children that ran when their handle was freed

handles == <<reaped, code>>
kids    == <<state, pid, ending>>
pipes   == <<writers, leaky, failure>>
vars == <<pc, child, handles, kids, pipes, orphans>>

Spawning == {"fcntl", "fork", "close", "read", "kill", "reap"}
Existing == {"forked", "running", "zombie"}
Endings  == {"exit", "signal"} \X {0, 1, 9, 15, 127}

Init ==
    /\ pc = [t \in Threads |-> "out"] /\ child = [t \in Threads |-> None]
    /\ reaped = [t \in Threads |-> FALSE] /\ code = [t \in Threads |-> 0]
    /\ state = [c \in Children |-> "new"] /\ pid = [c \in Children |-> None]
    /\ ending = [c \in Children |-> <<"exit", 0>>]
    /\ writers = [c \in Children |-> {}] /\ leaky = [c \in Children |-> {}]
    /\ failure = [c \in Children |-> FALSE]
    /\ orphans = {}

-----------------------------------------------------------------------------
(* The kernel.  A definition named ...Mutant above another one is a faulty *)
(* variant of it, used to show that a property depends on the definition.  *)

\* p has closed its end of child c's pipe, or all of its descriptors.
Close(p, c) == writers' = [writers EXCEPT ![c] = @ \ {p}] /\ leaky' = [leaky EXCEPT ![c] = @ \ {p}]
CloseAll(p) ==
    /\ writers' = [c \in Children |-> writers[c] \ {p}]
    /\ leaky' = [c \in Children |-> leaky[c] \ {p}]

\* Child c gets a copy of the program's descriptors.
Copied(c, holders) ==
    [d \in Children |-> IF Program \in holders[d] THEN holders[d] \cup {c} ELSE holders[d]]

Ends(c, how) ==
    /\ state' = [state EXCEPT ![c] = "zombie"] /\ ending' = [ending EXCEPT ![c] = how]
    /\ UNCHANGED pid

\* kill(pid, sig): the processes it reaches, and what waitpid(pid) can return.
Reached(p)  == {c \in Children : pid[c] = p /\ state[c] \in {"forked", "running"}}
Waitable(p) == {c \in Children : pid[c] = p /\ state[c] = "zombie"}

\* WIFEXITED ? WEXITSTATUS : 128 + WTERMSIG.
ExitCode(how) == IF how[1] = "exit" THEN how[2] ELSE 128 + how[2]

-----------------------------------------------------------------------------
(* ucb_process_plat_spawn, in the program.                                 *)

Goto(t, loc) == pc' = [pc EXCEPT ![t] = loc]

\* pipe(status_pipe); neither end is close-on-exec yet.
MakePipe(t) ==
    /\ pc[t] = "out" /\ Goto(t, "fcntl")
    /\ \E c \in Children :
          /\ state[c] = "new" /\ \A u \in Threads : child[u] # c
          /\ child' = [child EXCEPT ![t] = c]
          /\ writers' = [writers EXCEPT ![c] = {Program}]
          /\ leaky' = [leaky EXCEPT ![c] = {Program}]
    /\ UNCHANGED <<handles, kids, failure, orphans>>

SetCloexecMutant(c) == UNCHANGED leaky
SetCloexec(c) == leaky' = [leaky EXCEPT ![c] = @ \ {Program}]

Fcntl(t) ==
    /\ pc[t] = "fcntl" /\ Goto(t, "fork")
    /\ SetCloexec(child[t])
    /\ UNCHANGED <<child, handles, kids, writers, failure, orphans>>

\* fcntl, resolving the program, its environment, a redirection or fork fails.
SpawnFails(t) ==
    /\ pc[t] \in {"fcntl", "fork"} /\ Goto(t, "out")
    /\ Close(Program, child[t])
    /\ state' = [state EXCEPT ![child[t]] = "gone"]
    /\ child' = [child EXCEPT ![t] = None]
    /\ UNCHANGED <<handles, pid, ending, failure, orphans>>

Fork(t) ==
    /\ pc[t] = "fork" /\ Goto(t, "close")
    /\ LET c == child[t]
       IN  /\ \E p \in Pids \ {pid[d] : d \in {d \in Children : state[d] \in Existing}} :
                 pid' = [pid EXCEPT ![c] = p]
           /\ state' = [state EXCEPT ![c] = "forked"]
           /\ writers' = Copied(c, writers) /\ leaky' = Copied(c, leaky)
    /\ UNCHANGED <<child, handles, ending, failure, orphans>>

CloseWrite(t) ==
    /\ pc[t] = "close" /\ Goto(t, "read")
    /\ Close(Program, child[t])
    /\ UNCHANGED <<child, handles, kids, failure, orphans>>

AfterFailureMutant == "out"
AfterFailure       == "reap"

\* read(status_pipe[0]) returns the child's errno ...
ReadFailure(t) ==
    /\ pc[t] = "read" /\ failure[child[t]] /\ Goto(t, AfterFailure)
    /\ child' = [child EXCEPT ![t] = IF AfterFailure = "out" THEN None ELSE @]
    /\ UNCHANGED <<handles, kids, pipes, orphans>>

AtEofMutant(c) == state[c] # "new"
AtEof(c)       == writers[c] = {}

\* ... or end of file: exec has closed the child's end.
ReadEof(t) ==
    /\ pc[t] = "read" /\ AtEof(child[t]) /\ ~failure[child[t]]
    /\ Goto(t, "handle")
    /\ reaped' = [reaped EXCEPT ![t] = FALSE] /\ code' = [code EXCEPT ![t] = 0]
    /\ UNCHANGED <<child, kids, pipes, orphans>>

\* The read fails, or after the end of file there is no memory for the handle.
ReadFails(t) ==
    /\ pc[t] = "read" /\ Goto(t, "kill")
    /\ UNCHANGED <<child, handles, kids, pipes, orphans>>

KillSpawned(t) ==
    /\ pc[t] = "kill" /\ Goto(t, "reap")
    /\ LET c == child[t]
       IN  IF c \in Reached(pid[c]) THEN Ends(c, <<"signal", 9>>) /\ CloseAll(c)
           ELSE UNCHANGED <<kids, writers, leaky>>
    /\ UNCHANGED <<child, handles, failure, orphans>>

\* process_unix_reap_quiet.
Reap(t) ==
    /\ pc[t] = "reap" /\ child[t] \in Waitable(pid[child[t]]) /\ Goto(t, "out")
    /\ state' = [state EXCEPT ![child[t]] = "gone"]
    /\ child' = [child EXCEPT ![t] = None]
    /\ UNCHANGED <<handles, pid, ending, pipes, orphans>>

-----------------------------------------------------------------------------
(* The child.                                                              *)

Exec(c) ==
    /\ state[c] = "forked" /\ state' = [state EXCEPT ![c] = "running"]
    /\ writers' = [d \in Children |-> IF c \in leaky[d] THEN writers[d] ELSE writers[d] \ {c}]
    /\ UNCHANGED <<pc, child, handles, pid, ending, leaky, failure, orphans>>

\* dup2, chdir or execve fails.
ExecFails(c) ==
    /\ state[c] = "forked" /\ Ends(c, <<"exit", 127>>)
    /\ failure' = [failure EXCEPT ![c] = TRUE] /\ CloseAll(c)
    /\ UNCHANGED <<pc, child, handles, orphans>>

Exits(c) ==
    /\ state[c] = "running" /\ \E n \in {0, 1} : Ends(c, <<"exit", n>>)
    /\ CloseAll(c)
    /\ UNCHANGED <<pc, child, handles, failure, orphans>>

-----------------------------------------------------------------------------
(* The functions on a handle.                                              *)

MarkReapedMutant(t) == UNCHANGED reaped
MarkReaped(t)       == reaped' = [reaped EXCEPT ![t] = TRUE]

\* ucb_process_wait, when waitpid returns a status; a wait that times out or
\* returns the cached code changes nothing.
Wait(t) ==
    /\ pc[t] = "handle" /\ ~reaped[t]
    /\ \E c \in Waitable(pid[child[t]]) :
          /\ state' = [state EXCEPT ![c] = "gone"]
          /\ code' = [code EXCEPT ![t] = ExitCode(ending[c])]
    /\ MarkReaped(t)
    /\ UNCHANGED <<pc, child, pid, ending, pipes, orphans>>

\* ucb_process_kill, and ucb_process_terminate of a child that does not ignore
\* SIGTERM.
Terminate(t, sig) ==
    /\ pc[t] = "handle" /\ ~reaped[t]
    /\ \E c \in Reached(pid[child[t]]) : Ends(c, <<"signal", sig>>) /\ CloseAll(c)
    /\ UNCHANGED <<pc, child, handles, failure, orphans>>

\* ucb_process_free: a child that has ended is reaped, a running one is left alone.
Free(t) ==
    /\ pc[t] = "handle" /\ Goto(t, "out")
    /\ child' = [child EXCEPT ![t] = None]
    /\ LET ended == IF reaped[t] THEN {} ELSE Waitable(pid[child[t]])
       IN  state' = [c \in Children |-> IF c \in ended THEN "gone" ELSE state[c]]
    /\ orphans' = orphans \cup ({child[t]} \cap {c \in Children : state[c] \in {"forked", "running"}})
    /\ reaped' = [reaped EXCEPT ![t] = FALSE] /\ code' = [code EXCEPT ![t] = 0]
    /\ UNCHANGED <<pid, ending, pipes>>

SpawnStep(t) ==
    \/ Fcntl(t) \/ Fork(t) \/ CloseWrite(t) \/ ReadFailure(t) \/ ReadEof(t)
    \/ KillSpawned(t) \/ Reap(t)
ChildStarts(c) == Exec(c) \/ ExecFails(c)

Next ==
    \/ \E t \in Threads :
          \/ MakePipe(t) \/ SpawnStep(t) \/ SpawnFails(t) \/ ReadFails(t)
          \/ Wait(t) \/ Terminate(t, 15) \/ Terminate(t, 9) \/ Free(t)
    \/ \E c \in Children : ChildStarts(c) \/ Exits(c)

Spec == Init /\ [][Next]_vars

\* A thread inside spawn runs on unless the kernel makes it wait, and a child
\* reaches exec or reports its failure.  Programs need not ever end.
FairSpec ==
    /\ Spec
    /\ \A t \in Threads : WF_vars(SpawnStep(t) \/ (pc[t] = "fork" /\ SpawnFails(t)))
    /\ \A c \in Children : WF_vars(ChildStarts(c))

-----------------------------------------------------------------------------
(* Properties.                                                             *)

\* Every variable keeps its type.
TypeOK ==
    /\ pc \in [Threads -> {"out", "handle"} \cup Spawning]
    /\ child \in [Threads -> Children \cup {None}]
    /\ reaped \in [Threads -> BOOLEAN] /\ code \in [Threads -> 0..255]
    /\ state \in [Children -> {"new", "gone"} \cup Existing]
    /\ pid \in [Children -> Pids \cup {None}] /\ ending \in [Children -> Endings]
    /\ writers \in [Children -> SUBSET (Children \cup {Program})]
    /\ \A c \in Children : leaky[c] \subseteq writers[c]
    /\ failure \in [Children -> BOOLEAN] /\ orphans \subseteq Children

\* As long as a handle has not been waited for, its process id is that of its
\* child and of nobody else, so that terminate and kill never reach a stranger
\* that was given the same id.
HandleOwnsPid ==
    \A t \in Threads :
        pc[t] = "handle" /\ ~reaped[t] =>
            /\ state[child[t]] \in {"running", "zombie"}
            /\ \A c \in Children \ {child[t]} : state[c] \in Existing => pid[c] # pid[child[t]]

\* "A returned handle refers to a successfully started child": not to one that
\* is still before exec, or whose exec has failed.
HandleIsStarted ==
    \A t \in Threads :
        pc[t] = "handle" => state[child[t]] # "forked" /\ ~failure[child[t]]

\* The exit code of a reaped handle is that of its own child.
CodeIsOwn ==
    \A t \in Threads :
        pc[t] = "handle" /\ reaped[t] =>
            state[child[t]] = "gone" /\ code[t] = ExitCode(ending[child[t]])

\* No child is lost track of: every process belongs to a thread's spawn or handle,
\* or was left running on purpose.  A failed spawn leaves no zombie.
ChildrenAccounted ==
    \A c \in Children :
        state[c] \in Existing => c \in orphans \/ \E t \in Threads : child[t] = c

\* Another child was forked between the thread's pipe and fcntl, and its program
\* keeps the write end of the status pipe.
Leaked(t) == \E c \in Children \ {child[t]} : c \in leaky[child[t]]

\* A spawn returns, however long the programs run that have been started, unless
\* one of them was given its pipe.
SpawnReturns ==
    \A t \in Threads : pc[t] \in Spawning ~> (pc[t] \notin Spawning \/ Leaked(t))

\* "The call is synchronous with respect to a failed exec": spawn always returns.
SpawnIsSynchronous == \A t \in Threads : pc[t] \in Spawning ~> pc[t] \notin Spawning
=============================================================================
