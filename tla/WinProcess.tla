------------------------------ MODULE WinProcess ------------------------------
(***************************************************************************)
(* Child processes on Windows, src/ucb/process.c and process_win32.c:      *)
(* which handles a child inherits, when several threads spawn, and who     *)
(* closes the handles of the process.  Each thread has one child at a      *)
(* time.  A spawn is a step for each system call that sets or reads what   *)
(* another thread may change; the texts it makes first are in WinArgs.     *)
(***************************************************************************)
EXTENDS Integers, Sequences, FiniteSets

CONSTANTS
    Threads,
    Handles,            \* the handles that a child may inherit
    Streams,            \* what stdin, stdout and stderr may be, None if invalid
    None

VARIABLES
    owned,              \* whether the program wants h to be inherited
    inherit,            \* HANDLE_FLAG_INHERIT of h
    pc, spawn,          \* where each thread is, and the locals of its spawn
    given,              \* what the thread's child has inherited
    child,              \* NoChild, Running, or the exit code
    open,               \* the threads whose child's process handle is open
    proc                \* the ucb_process of each thread

vars == <<owned, inherit, pc, spawn, given, child, open, proc>>

Slots   == 1..3
NoChild == -2
Running == -1
NewSpawn(s, all) == [std |-> s, all |-> all, i |-> 1, saved |-> {}, usable |-> {},
                     list |-> {}, created |-> FALSE]
NoSpawn == NewSpawn(<<None, None, None>>, FALSE)

Init ==
    /\ owned \in [Handles -> BOOLEAN] /\ inherit = owned
    /\ pc = [t \in Threads |-> "out"] /\ spawn = [t \in Threads |-> NoSpawn]
    /\ given = [t \in Threads |-> {}] /\ child = [t \in Threads |-> NoChild]
    /\ open = {} /\ proc = [t \in Threads |-> None]

-----------------------------------------------------------------------------
(* ucb_process_plat_spawn.  A definition named ...Mutant above another one *)
(* is a faulty variant of it, used to show that a property depends on the  *)
(* definition.                                                             *)

Goto(t, loc) == pc' = [pc EXCEPT ![t] = loc]
Std(t)       == spawn[t].std[spawn[t].i]
kernel       == <<given, child, open>>

\* The texts have been made and the streams found; `all` is UCB_PROCESS_INHERIT_HANDLES.
Spawn(t) ==
    /\ pc[t] = "out" /\ proc[t] = None /\ Goto(t, "inspect")
    /\ \E s \in Streams, all \in BOOLEAN :
          spawn' = [spawn EXCEPT ![t] = NewSpawn(s, all)]
    /\ UNCHANGED <<owned, inherit, kernel, proc>>

NextSlot(t, s) ==
    /\ spawn' = [spawn EXCEPT ![t] = [s EXCEPT !.i = @ + 1]]
    /\ Goto(t, IF s.i < 3 THEN "inspect" ELSE "create")

Listed(s, h) == [s EXCEPT !.usable = @ \cup {s.i}, !.list = @ \cup {h}]

\* GetHandleInformation: saved has the slots whose handle is inheritable already.
Inspect(t) ==
    /\ pc[t] = "inspect"
    /\ LET s == spawn[t]
           h == Std(t)
       IN  IF h = None THEN NextSlot(t, s)
           ELSE IF inherit[h]
                THEN LET r == [s EXCEPT !.saved = @ \cup {s.i}]
                     IN  NextSlot(t, IF s.all THEN r ELSE Listed(r, h))
                ELSE IF s.all THEN NextSlot(t, s) ELSE Goto(t, "mark") /\ UNCHANGED spawn
    /\ UNCHANGED <<owned, inherit, kernel, proc>>

InspectFails(t) ==
    /\ pc[t] = "inspect" /\ NextSlot(t, spawn[t])
    /\ UNCHANGED <<owned, inherit, kernel, proc>>

\* SetHandleInformation; a handle that it fails for is left out of the list.
Mark(t) ==
    /\ pc[t] = "mark" /\ inherit' = [inherit EXCEPT ![Std(t)] = TRUE]
    /\ NextSlot(t, Listed(spawn[t], Std(t)))
    /\ UNCHANGED <<owned, kernel, proc>>
MarkFails(t) ==
    /\ pc[t] = "mark" /\ NextSlot(t, spawn[t])
    /\ UNCHANGED <<owned, inherit, kernel, proc>>

Cleans(t, s) == spawn' = [spawn EXCEPT ![t] = [s EXCEPT !.i = 1]] /\ Goto(t, "clean")

\* CreateProcessW: a handle of the list that is not inheritable is an invalid parameter.
Inheritable == {h \in Handles : inherit[h]}
InheritedMutant(s) == IF s.all \/ s.list # {} THEN Inheritable ELSE {}
Inherited(s)       == IF s.all THEN Inheritable ELSE s.list
Create(t) ==
    /\ pc[t] = "create" /\ spawn[t].list \subseteq Inheritable
    /\ given' = [given EXCEPT ![t] = Inherited(spawn[t])]
    /\ child' = [child EXCEPT ![t] = Running] /\ open' = open \cup {t}
    /\ Cleans(t, [spawn[t] EXCEPT !.created = TRUE]) /\ UNCHANGED <<owned, inherit, proc>>

\* The list cannot be made, or CreateProcessW fails.
CreateFails(t) ==
    /\ pc[t] = "create" /\ Cleans(t, spawn[t]) /\ UNCHANGED <<owned, inherit, kernel, proc>>

\* cleanup: the flags that were set are taken away.
RestoresMutant(s) == s.i \in s.usable
Restores(s)       == s.i \in s.usable /\ s.i \notin s.saved
Clean(t) ==
    /\ pc[t] = "clean"
    /\ LET s == spawn[t]
       IN  /\ inherit' = IF Restores(s) THEN [inherit EXCEPT ![s.std[s.i]] = FALSE] ELSE inherit
           /\ spawn' = [spawn EXCEPT ![t] = IF s.i < 3 \/ s.created THEN [s EXCEPT !.i = @ + 1] ELSE NoSpawn]
           /\ Goto(t, IF s.i < 3 THEN "clean" ELSE IF s.created THEN "wrap" ELSE "out")
    /\ UNCHANGED <<owned, kernel, proc>>

\* A child that the program has no handle of is left out of the model.
Forget(t) ==
    /\ spawn' = [spawn EXCEPT ![t] = NoSpawn] /\ child' = [child EXCEPT ![t] = NoChild]
    /\ given' = [given EXCEPT ![t] = {}]

\* The ucb_process, if there is memory; otherwise the child is terminated.
Process == [reaped |-> FALSE, code |-> 0, handle |-> TRUE]
Wrap(t) ==
    /\ pc[t] = "wrap" /\ Goto(t, "out") /\ proc' = [proc EXCEPT ![t] = Process]
    /\ UNCHANGED <<owned, inherit, spawn, kernel>>
WrapFails(t) ==
    /\ pc[t] = "wrap" /\ Goto(t, "out") /\ Forget(t) /\ open' = open \ {t}
    /\ UNCHANGED <<owned, inherit, proc>>

-----------------------------------------------------------------------------
(* ucb_process_wait, ucb_process_terminate, ucb_process_kill and           *)
(* ucb_process_free.                                                       *)

Exits(t) ==
    /\ child[t] = Running /\ child' = [child EXCEPT ![t] = 7]
    /\ UNCHANGED <<owned, inherit, pc, spawn, given, open, proc>>

Uses(t) == pc[t] = "out" /\ proc[t] # None

Reaped(p, code) == [p EXCEPT !.reaped = TRUE, !.code = code, !.handle = FALSE]
Wait(t) ==
    /\ Uses(t) /\ ~proc[t].reaped /\ t \in open /\ child[t] # Running
    /\ proc' = [proc EXCEPT ![t] = Reaped(@, child[t])] /\ open' = open \ {t}
    /\ UNCHANGED <<owned, inherit, pc, spawn, given, child>>

\* Only a running child is terminated, with exit code 1.
Terminate(t) ==
    /\ Uses(t) /\ ~proc[t].reaped /\ proc[t].handle /\ t \in open /\ child[t] = Running
    /\ child' = [child EXCEPT ![t] = 1]
    /\ UNCHANGED <<owned, inherit, pc, spawn, given, open, proc>>

ClosesMutant(p) == ~p.reaped /\ ~p.handle
Closes(p)       == p.handle
Free(t) ==
    /\ Uses(t) /\ proc' = [proc EXCEPT ![t] = None]
    /\ open' = IF Closes(proc[t]) THEN open \ {t} ELSE open
    /\ Forget(t) /\ UNCHANGED <<owned, inherit, pc>>

Next ==
    \E t \in Threads :
        \/ Spawn(t) \/ Inspect(t) \/ InspectFails(t) \/ Mark(t) \/ MarkFails(t)
        \/ Create(t) \/ CreateFails(t) \/ Clean(t) \/ Wrap(t) \/ WrapFails(t)
        \/ Exits(t) \/ Wait(t) \/ Terminate(t) \/ Free(t)

Spec == Init /\ [][Next]_vars

-----------------------------------------------------------------------------
(* Properties.                                                             *)

\* However the spawns of several threads interleave, and whatever fails in them, a
\* handle is inheritable afterwards exactly if it was before.
FlagsRestored == (\A t \in Threads : pc[t] \in {"out", "wrap"}) => inherit = owned

\* "By default only the three standard handles are inherited", whatever other threads
\* have made inheritable in the meantime.
OnlyStreamsGiven ==
    \A t \in Threads : ~spawn[t].all => given[t] \subseteq {spawn[t].std[i] : i \in Slots}

\* The handle of a process is open as long as its ucb_process needs it, or the spawn that
\* makes it, and no longer; the exit code is the child's.
ProcessHandles ==
    \A t \in Threads :
        /\ proc[t] # None => proc[t].handle = (t \in open) /\ proc[t].handle = ~proc[t].reaped
        /\ proc[t] # None /\ proc[t].reaped => proc[t].code = child[t]
        /\ proc[t] = None /\ t \in open => pc[t] # "out"

\* Each stream that a child is given, it has inherited: not with
\* UCB_PROCESS_INHERIT_HANDLES, which leaves a redirection that is not inheritable so.
StreamsGiven ==
    \A t \in Threads : spawn[t].created /\ spawn[t].all =>
        \A i \in Slots : spawn[t].std[i] # None => spawn[t].std[i] \in given[t]

\* The handles that one spawn has made inheritable stay so until its child is created:
\* not if the spawn of another thread takes the flag of one they share away.
Undisturbed ==
    \A t \in Threads : pc[t] = "create" => spawn[t].list \subseteq Inheritable

\* A child that inherits all handles has those that the program wants to be inherited:
\* it has those of other spawns under way as well.
NothingLent == \A t \in Threads : spawn[t].all => \A h \in given[t] : owned[h]
-----------------------------------------------------------------------------
(* Why it is so: the inductive invariant.                                  *)

Spawns    == [std : [Slots -> Handles \cup {None}], all : BOOLEAN, i : 1..4, saved : SUBSET Slots,
              usable : SUBSET Slots, list : SUBSET Handles, created : BOOLEAN]
Processes == [reaped : BOOLEAN, code : {0, 1, 7}, handle : BOOLEAN]
Children  == {NoChild, Running, 1, 7}

TypeOK ==
    /\ owned \in [Handles -> BOOLEAN] /\ inherit \in [Handles -> BOOLEAN]
    /\ pc \in [Threads -> {"out", "inspect", "mark", "create", "clean", "wrap"}]
    /\ spawn \in [Threads -> Spawns] /\ given \in [Threads -> SUBSET Handles]
    /\ child \in [Threads -> Children] /\ open \subseteq Threads
    /\ proc \in [Threads -> Processes \cup {None}]

\* What a thread at loc knows: which flags are its own to take away, ...
MarksKnown(loc, s) ==
    /\ loc \in {"inspect", "mark"} => s.i \in Slots /\ s.saved \cup s.usable \subseteq 1..(s.i - 1)
    /\ loc = "clean" => s.i \in Slots
    /\ loc = "mark" => ~s.all /\ s.std[s.i] \in Handles /\ ~owned[s.std[s.i]]
    /\ \A j \in s.usable \ s.saved : s.std[j] \in Handles /\ ~owned[s.std[j]]

\* ... what its child c has inherited, ...
GivenKnown(s, g, c) ==
    /\ s.list \subseteq {s.std[j] : j \in Slots}
    /\ g = {} \/ (s.created /\ (s.all \/ g \subseteq s.list))
    /\ s.created <=> c # NoChild

\* ... and whether the handle of the process is open.
ProcKnown(loc, s, c, o, p) ==
    /\ loc \in {"inspect", "mark", "create"} => ~s.created
    /\ loc = "wrap" => s.created
    /\ p # None => /\ loc = "out" /\ s.created /\ (p.handle <=> o) /\ (p.handle <=> ~p.reaped)
                   /\ p.reaped => p.code = c /\ c # Running
    /\ p = None => (o <=> s.created) /\ (s.created => loc \in {"clean", "wrap"})

SpawnKnown(t) ==
    /\ MarksKnown(pc[t], spawn[t]) /\ GivenKnown(spawn[t], given[t], child[t])
    /\ ProcKnown(pc[t], spawn[t], child[t], t \in open, proc[t])

\* A handle that is inheritable against the program's will has a spawn that takes the
\* flag away again: of those that share it, the one that has set it.
Restorer(t, j) ==
    /\ pc[t] \in {"inspect", "mark", "create", "clean"} /\ j \in spawn[t].usable \ spawn[t].saved
    /\ pc[t] = "clean" => j >= spawn[t].i
InheritKnown ==
    /\ \A h \in Handles : owned[h] => inherit[h]
    /\ \A h \in Handles : inherit[h] /\ ~owned[h] =>
          \E t \in Threads, j \in Slots : Restorer(t, j) /\ spawn[t].std[j] = h

SpawnInv == TypeOK /\ InheritKnown /\ \A t \in Threads : SpawnKnown(t)
=============================================================================
