---------------------------- MODULE ProgramSearch ----------------------------
(***************************************************************************)
(* Which program a child on POSIX runs, src/ucb/process_unix.c: spawn      *)
(* looks for argv[0] before the fork, along the PATH of one of the two     *)
(* environments, and the child executes what was found after it has        *)
(* changed its directory.  A PATH is the sequence of its components, of    *)
(* which the empty text has one.                                           *)
(***************************************************************************)
EXTENDS Integers, Sequences

CONSTANTS
    Paths,              \* the values of PATH
    DefaultPath,
    Absolute,           \* the directories that are not relative to another one
    Directories,        \* the directories that a process may be in
    NoPath, None

VARIABLES
    argv0,              \* the directory that it names, None without a slash
    env,                \* PATH in opts->env, NoPath if it has none; None without it
    parent,             \* PATH of the program, or NoPath
    cwd,                \* of the program, and of the child
    executable,         \* where there is an executable file of the name
    cursor,             \* the components that have been looked at
    result              \* "searching", "ENOENT", "no memory", or the directory found

vars == <<argv0, env, parent, cwd, executable, cursor, result>>
chosen == <<argv0, env, parent, cwd, executable>>

Empty     == ""
Named     == Absolute \cup {".", "r"}
\* Where a name leads that a process in d uses.
At(d, dir) == IF dir \in Absolute THEN <<dir>> ELSE <<d, dir>>
Places     == {At(d, dir) : d \in Directories, dir \in Named}

Init ==
    /\ argv0 \in Absolute \cup {"r", None}
    /\ env \in Paths \cup {None, NoPath} /\ parent \in Paths \cup {NoPath}
    /\ cwd \in [{"program", "child"} -> Directories]
    /\ executable \in SUBSET Places
    /\ cursor = 0 /\ result = "searching"

-----------------------------------------------------------------------------
(* process_unix_resolve.  A definition named ...Mutant above another one   *)
(* is a faulty variant of it, used to show that a property depends on the  *)
(* definition.                                                             *)

\* process_unix_is_executable_file
IsExecutable(dir) == At(cwd["program"], dir) \in executable

Path ==
    IF env \notin {None, NoPath} THEN env
    ELSE IF parent # NoPath THEN parent ELSE DefaultPath

ResolveSlash ==
    /\ result = "searching" /\ argv0 # None
    /\ result' \in IF IsExecutable(argv0) THEN {argv0, "no memory"} ELSE {"ENOENT"}
    /\ UNCHANGED <<chosen, cursor>>

CandidateMutant(k) == Path[k]
Candidate(k)       == IF Path[k] = Empty THEN "." ELSE Path[k]

ResolveNext ==
    /\ result = "searching" /\ argv0 = None /\ cursor' = cursor + 1
    /\ result' = IF IsExecutable(Candidate(cursor')) THEN Candidate(cursor')
                 ELSE IF cursor' = Len(Path) THEN "ENOENT" ELSE "searching"
    /\ UNCHANGED chosen

NoMemory ==
    /\ result = "searching" /\ argv0 = None /\ result' = "no memory"
    /\ UNCHANGED <<chosen, cursor>>

Next == ResolveSlash \/ ResolveNext \/ NoMemory

Spec == Init /\ [][Next]_vars

-----------------------------------------------------------------------------
(* Properties.                                                             *)

\* What execve in the child runs, or None.
Executed == IF At(cwd["child"], result) \in executable THEN At(cwd["child"], result) ELSE None
Found    == result \in Named

\* The places that a shell in the program's directory would look at, in order, and the
\* first of them with an executable file.
Searched ==
    IF argv0 # None THEN <<At(cwd["program"], argv0)>>
    ELSE [k \in 1..Len(Path) |-> At(cwd["program"], IF Path[k] = Empty THEN "." ELSE Path[k])]
Expected == {Searched[k] : k \in {k \in 1..Len(Searched) :
                Searched[k] \in executable /\ \A j \in 1..(k - 1) : Searched[j] \notin executable}}

\* A program is found exactly if there is one on the PATH that applies, the first one,
\* and a child that stays in the directory, or a name that does not depend on it, runs it.
FirstIsRun ==
    /\ result = "ENOENT" => Expected = {}
    /\ Found => {At(cwd["program"], result)} = Expected
    /\ Found /\ (cwd["child"] = cwd["program"] \/ result \in Absolute) => {Executed} = Expected

\* What is executed is what was found: not if the child is in another directory, where a
\* relative name leads elsewhere.
FoundIsRun == Found => {Executed} = Expected
=============================================================================
