------------------------------ MODULE Redirect ------------------------------
(***************************************************************************)
(* The streams of a child on POSIX, src/ucb/process_unix.c: what the child *)
(* does to its descriptors between fork and exec, by number, with dup2 and *)
(* close, and what the program learns of it by the status pipe, which is   *)
(* one of those numbers.                                                   *)
(*                                                                         *)
(* A file is named by the descriptor that the program has for it.          *)
(***************************************************************************)
EXTENDS Integers, Sequences

CONSTANTS
    Fds,                \* the descriptors, 0 to a bound that leaves two of them free
    Opens,              \* the sets of them that the program may have open
    Cloexecs,           \* those of them that may be close-on-exec
    None

VARIABLES
    open, cloexec,      \* the program's descriptors at the fork, and their flags
    request,            \* fd_in, fd_out, fd_err; None to inherit
    table,              \* the child's descriptors: of which file, close-on-exec or not
    pc, failure,        \* where the child is
    told,               \* `failure` is in the status pipe
    ret                 \* what spawn has returned

vars == <<open, cloexec, request, table, pc, failure, told, ret>>

Streams   == 1..3
Target(k) == k - 1
Steps     == <<"in", "out", "err", "chdir">>
Sources   == {request[k] : k \in Streams} \ {None}

\* pipe(status_pipe) takes the two lowest numbers that are free.
Lowest(fds)  == CHOOSE f \in fds : \A g \in fds : f <= g
StatusRead   == Lowest(Fds \ open)
StatusWrite  == Lowest(Fds \ (open \cup {StatusRead}))

Kept(f)   == [of |-> f, cloexec |-> FALSE]
Closing(f) == [of |-> f, cloexec |-> TRUE]

\* fork: the child has what the program has, and both ends of the status pipe.
AtFork(f) ==
    IF f \in open \ cloexec THEN Kept(f)
    ELSE IF f \in open \cup {StatusRead, StatusWrite} THEN Closing(f) ELSE None
Init ==
    /\ open \in Opens /\ cloexec \in SUBSET (open \cap Cloexecs)
    /\ request \in [Streams -> open \cup {None}]
    /\ table = [f \in Fds |-> AtFork(f)]
    /\ pc = "in" /\ failure = FALSE /\ told = FALSE /\ ret = None

-----------------------------------------------------------------------------
(* The child.  A definition named ...Mutant above another one is a faulty  *)
(* variant of it, used to show that a property depends on the definition.  *)

program == <<open, cloexec, request, ret>>

\* dup2: the duplicate is not close-on-exec, and what was there is closed.
Moves(k) == request[k] # None /\ request[k] # Target(k)
Dup2(k)  == [table EXCEPT ![Target(k)] = Kept(table[request[k]].of)]

Redirect(k) ==
    /\ pc = Steps[k] /\ pc' = Steps[k + 1]
    /\ table' = IF Moves(k) THEN Dup2(k) ELSE table
    /\ UNCHANGED <<program, failure, told>>

RedirectFails(k) ==
    /\ pc = Steps[k] /\ Moves(k) /\ pc' = "close" /\ failure' = TRUE
    /\ UNCHANGED <<program, table, told>>

Chdir ==
    /\ pc = "chdir" /\ pc' = "close" /\ failure' \in BOOLEAN
    /\ UNCHANGED <<program, table, told>>

\* The sources would leak past exec, unless one is a stream itself.
ClosedMutant == Sources
Closed       == {f \in Sources : f > 2}
CloseSources ==
    /\ pc = "close" /\ pc' = IF failure THEN "tell" ELSE "exec"
    /\ table' = [f \in Fds |-> IF f \in Closed THEN None ELSE table[f]]
    /\ UNCHANGED <<program, failure, told>>

Exec ==
    /\ pc = "exec" /\ pc' = "runs"
    /\ table' = [f \in Fds |-> IF table[f] # None /\ table[f].cloexec THEN None ELSE table[f]]
    /\ UNCHANGED <<program, failure, told>>

AfterExecMutant == "gone"
AfterExec       == "tell"
ExecFails ==
    /\ pc = "exec" /\ pc' = AfterExec /\ failure' = TRUE
    /\ table' = IF pc' = "gone" THEN [f \in Fds |-> None] ELSE table
    /\ UNCHANGED <<program, told>>

\* write(status_pipe[1]), which writes to whatever has that number now, and _exit(127).
Tell ==
    /\ pc = "tell" /\ pc' = "gone" /\ told' = (table[StatusWrite].of = StatusWrite)
    /\ table' = [f \in Fds |-> None]
    /\ UNCHANGED <<program, failure>>

-----------------------------------------------------------------------------
(* The program reads the status pipe: an errno, or the end of file.        *)

WriteEnds == {f \in Fds : table[f] # None /\ table[f].of = StatusWrite}

ReadFailure ==
    /\ ret = None /\ told /\ ret' = "error"
    /\ UNCHANGED <<open, cloexec, request, table, pc, failure, told>>
ReadEof ==
    /\ ret = None /\ ~told /\ WriteEnds = {} /\ ret' = "handle"
    /\ UNCHANGED <<open, cloexec, request, table, pc, failure, told>>

Next ==
    \/ \E k \in Streams : Redirect(k) \/ RedirectFails(k)
    \/ Chdir \/ CloseSources \/ Exec \/ ExecFails \/ Tell
    \/ ReadFailure \/ ReadEof

Spec == Init /\ [][Next]_vars

-----------------------------------------------------------------------------
(* Properties.                                                             *)

\* What descriptor f of the program becomes in the child by exec alone.
Inherited(f) == IF f \in open \ cloexec THEN Kept(f) ELSE None

\* dup2 takes its sources in order: one that is a standard descriptor may have been
\* replaced, and one that is in its place already is closed by exec if it says so.
Replaced(k) == \E j \in 1..(k - 1) : Moves(j) /\ request[k] = Target(j)
Refused(k)  == request[k] = Target(k) /\ request[k] \in cloexec

\* The streams of a program that runs are what was asked for or is inherited, whatever
\* numbers the sources have and however often one is named; no source is open beside
\* them, and every other descriptor is what exec makes of it.
RedirectedAsAsked ==
    pc = "runs" =>
        /\ \A k \in Streams :
              IF request[k] = None THEN table[Target(k)] = Inherited(Target(k))
              ELSE Replaced(k) \/ Refused(k) \/ table[Target(k)] = Kept(request[k])
        /\ \A f \in Fds \ (0..2) : table[f] = IF f \in Sources THEN None ELSE Inherited(f)

\* A handle is returned only for a child that runs, and a failure is never left untold,
\* as long as the status pipe is not itself one of the streams that are replaced.
StatusOverwritten == \E k \in Streams : Moves(k) /\ Target(k) = StatusWrite
FailureIsTold ==
    StatusOverwritten \/ ((ret = "handle" => pc = "runs") /\ (pc = "gone" => told))

\* A stream that is redirected is what the program had under that descriptor.
StreamsAsAsked ==
    pc = "runs" => \A k \in Streams : request[k] # None =>
        table[Target(k)] # None /\ table[Target(k)].of = request[k]

\* "a returned handle refers to a successfully started child".
HandleIsStarted == ret = "handle" => ~failure

-----------------------------------------------------------------------------
(* Why it is so: the inductive invariant.                                  *)

Ends == [of : Fds, cloexec : BOOLEAN]

TypeOK ==
    /\ open \in Opens /\ cloexec \in SUBSET open /\ request \in [Streams -> open \cup {None}]
    /\ table \in [Fds -> Ends \cup {None}] /\ failure \in BOOLEAN /\ told \in BOOLEAN
    /\ pc \in {"in", "out", "err", "chdir", "close", "exec", "tell", "runs", "gone"}

\* When the first n streams have been redirected, every other descriptor is what it was
\* at the fork; a source is as well, unless one of them has replaced it.
Moved(n, f) == \E j \in 1..n : Moves(j) /\ Target(j) = f
StreamsMoved(n) == \A j \in 1..n : Moves(j) => Replaced(j) \/ table[Target(j)] = Kept(request[j])
MovedTo(n) ==
    /\ StreamsMoved(n) /\ \A f \in open : table[f] # None
    /\ \A f \in Fds : ~Moved(n, f) => table[f] = AtFork(f)

TableKnown ==
    /\ \A k \in 1..4 : pc = Steps[k] => MovedTo(k - 1)
    /\ pc = "close" /\ ~failure => MovedTo(3)
    /\ pc = "exec" => /\ StreamsMoved(3)
                      /\ \A f \in Fds : IF f \in Closed THEN table[f] = None
                                        ELSE ~Moved(3, f) => table[f] = AtFork(f)
    /\ RedirectedAsAsked

\* The child has the status pipe until it runs or has told of its failure.
PipeKnown ==
    ~StatusOverwritten =>
        /\ pc \notin {"runs", "gone"} => table[StatusWrite] # None /\ table[StatusWrite].of = StatusWrite
        /\ pc = "gone" => told
        /\ ret = "handle" => pc = "runs"

RedirectInv == TypeOK /\ TableKnown /\ PipeKnown
=============================================================================
