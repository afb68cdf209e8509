------------------------------ MODULE MCPlatform ------------------------------
(***************************************************************************)
(* What the library makes of threads, files, child processes on Windows    *)
(* and error reports, for TLC.                                             *)
(* The components have no state in common: a behaviour is one of the       *)
(* component that `part` names; those of Thread have its variables, and    *)
(* the others v1, v2 ...                                                   *)
(***************************************************************************)
EXTENDS Thread, Sequences

CONSTANTS
    Threads, Reporters,
    MaxDepth,               \* how deep a mutex is locked
    Values,                 \* what threads set in their slots
    MaxCalls,               \* how many errors a thread reports
    Others, LateErrors,     \* what may happen to a copy
    Handles, HandleFds,     \* the handles of files, and their descriptors
    MaxOpens,               \* how many descriptors are opened
    WinHandles, WinStreams, \* the handles of the program on Windows, and what children are given
    MaxSize, Capacity,      \* bytes in a file, and in the buffer it is read into
    ChildFds,               \* the descriptors of a program that spawns a child on POSIX,
    Opens, Cloexecs         \* which of them may be open, and which of those close-on-exec

VARIABLES
    part, v1, v2, v3, v4, v5, v6, v7, v8, v9, v10, v11, v12, v13

ASSUME NamesAssumption == None \notin Threads \cup Values \cup Reporters \cup {"blank"}
ASSUME MaxDepthAssumption == MaxDepth \in Nat \ {0}

At(p, node) == [path |-> p, node |-> node]
F(text) == [kind |-> "file", text |-> text, meta |-> text]
D(meta) == [kind |-> "dir", text |-> "", meta |-> meta]
L       == [kind |-> "link", text |-> "", meta |-> ""]

\* Another program makes a directory that mkdir_p is about to make, one that is
\* copied, a file where one is copied to, or a new file in the source.
Newcomers == {At(<<"m">>, D("O")), At(<<"m", "d">>, D("O")), At(<<"d", "b">>, D("O")),
              At(<<"d", "a">>, F("O")), At(<<"s", "b", "o">>, F("O"))}
Destinations ==
    {{}, {At(<<"m">>, L)}, {At(<<"m">>, F("D"))}, {At(<<"d">>, F("D"))}, {At(<<"d">>, L)},
     {At(<<"d">>, D("D"))}, {At(<<"d">>, D("D")), At(<<"d", "b">>, L)},
     {At(<<"d">>, D("D")), At(<<"d", "b">>, D("D")), At(<<"d", "b", "z">>, F("D")), At(<<"d", "a">>, F("D"))}}

Wm == INSTANCE WinMutex WITH
    recursive <- v1, owner <- v2, count <- v3, cs <- v4, at <- v5,
    holds <- v6, saved <- v7, woken <- v8
Tl == INSTANCE Tls WITH
    windows <- v1, key <- v2, running <- v3, slot <- v4,
    wrapper <- v5, owned <- v6, destroyed <- v7, refused <- v8, corrupted <- v9
Er == INSTANCE Errors WITH
    Threads <- Reporters, Statuses <- {"EIO", "EODD"}, KnownStatuses <- {"EIO"},
    handler <- v1, lock <- v2, output <- v3, aborted <- v4, at <- v5,
    lvl <- v6, then <- v7, err <- v8, depth <- v9, thrown <- v10, calls <- v11,
    due <- v12, told <- v13
Fc == INSTANCE FileCopy WITH
    op <- v1, flags <- v2, to <- v3, same_device <- v4, entry <- v5, pc <- v6,
    kind <- v7, exists <- v8, out <- v9, ok <- v10, before <- v11, unclean <- v12
Ft == INSTANCE FsTree WITH
    Strangers <- Newcomers, Overwritten <- Destinations, MaxPath <- 4, op <- v1,
    src <- v2, dst <- v3, flags <- v4, same_device <- v5, before <- v6, stranger <- v7,
    came <- v8, fs <- v9, stack <- v10, ret <- v11
Fh == INSTANCE FileHandle WITH
    Fds <- HandleFds, desc <- v1, handle <- v2, opened <- v3, call <- v4,
    erred <- v5
Fi == INSTANCE FileIO WITH
    file <- v1, pos <- v2, pc <- v3, fn <- v4, cur <- v5,
    end <- v6, got <- v7, written <- v8, needed <- v9, ok <- v10, changed <- v11
Wp == INSTANCE WinProcess WITH
    Threads <- Reporters, Handles <- WinHandles, Streams <- WinStreams,
    owned <- v1, inherit <- v2, pc <- v3, spawn <- v4, given <- v5, child <- v6,
    open <- v7, proc <- v8
Rd == INSTANCE Redirect WITH
    Fds <- ChildFds, open <- v1, cloexec <- v2, request <- v3, table <- v4,
    pc <- v5, failure <- v6, told <- v7, ret <- v8

\* A handle for two streams, and one that two children share.
SharedStreams == {<<1, None, 1>>, <<2, 1, None>>}

ASSUME EntriesAssumption == None \notin Fc!Entries
ASSUME WinAssumption ==
    /\ None \notin WinHandles /\ None \notin Wp!Processes
    /\ WinStreams \subseteq [1..3 -> WinHandles \cup {None}]

ASSUME HandleAssumption ==
    HandleFds \subseteq Nat /\ None \notin Fh!Descs \cup Fh!Objects \cup {Fh!Idle}
ASSUME RedirectAssumption ==
    /\ ChildFds \subseteq Nat /\ 0..2 \subseteq ChildFds
    /\ \A fds \in Opens : fds \subseteq ChildFds /\ \E f, g \in ChildFds \ fds : f # g
    /\ None \notin ChildFds /\ None \notin Rd!Ends /\ None \notin {"handle", "error"}
ASSUME TransferAssumption == MaxSize \in Nat /\ Capacity \in Nat

others == <<v1, v2, v3, v4, v5, v6, v7, v8, v9, v10, v11, v12, v13>>

MCInit ==
    \/ part = "thread" /\ Init
       /\ v1 = None /\ v2 = None /\ v3 = None /\ v4 = None /\ v5 = None /\ v6 = None /\ v7 = None
       /\ v8 = None /\ v9 = None /\ v10 = None /\ v11 = None /\ v12 = None /\ v13 = None
    \/ part = "mutex" /\ Wm!Init /\ Init /\ ~detached
       /\ v9 = None /\ v10 = None /\ v11 = None /\ v12 = None /\ v13 = None
    \/ part = "tls" /\ Tl!Init /\ Init /\ ~detached
       /\ v10 = None /\ v11 = None /\ v12 = None /\ v13 = None
    \/ part = "errors" /\ Er!Init /\ Init /\ ~detached
    \/ part = "copy" /\ Fc!Init /\ Init /\ ~detached /\ v13 = None
    \/ part = "tree" /\ Ft!Init /\ Init /\ ~detached /\ v12 = None /\ v13 = None
    \/ part = "handle" /\ Fh!Init /\ Init /\ ~detached
       /\ v6 = None /\ v7 = None /\ v8 = None /\ v9 = None /\ v10 = None /\ v11 = None /\ v12 = None /\ v13 = None
    \/ part = "io" /\ Fi!Init /\ Init /\ ~detached /\ v12 = None /\ v13 = None
    \/ part = "spawn" /\ Wp!Init /\ Init /\ ~detached
       /\ v9 = None /\ v10 = None /\ v11 = None /\ v12 = None /\ v13 = None
    \/ part = "redirect" /\ Rd!Init /\ Init /\ ~detached
       /\ v9 = None /\ v10 = None /\ v11 = None /\ v12 = None /\ v13 = None

MCNext ==
    /\ UNCHANGED part
    /\ \/ part = "thread" /\ Next /\ UNCHANGED others
       \/ part = "mutex" /\ Wm!Next /\ UNCHANGED <<vars, v9, v10, v11, v12, v13>>
       \/ part = "tls" /\ Tl!Next /\ UNCHANGED <<vars, v10, v11, v12, v13>>
       \/ part = "errors" /\ Er!Next /\ UNCHANGED vars
       \/ part = "copy" /\ Fc!Next /\ UNCHANGED <<vars, v13>>
       \/ part = "tree" /\ Ft!Next /\ UNCHANGED <<vars, v12, v13>>
       \/ part = "handle" /\ Fh!Next /\ UNCHANGED <<vars, v6, v7, v8, v9, v10, v11, v12, v13>>
       \/ part = "io" /\ Fi!Next /\ UNCHANGED <<vars, v12, v13>>
       \/ part = "spawn" /\ Wp!Next /\ UNCHANGED <<vars, v9, v10, v11, v12, v13>>
       \/ part = "redirect" /\ Rd!Next /\ UNCHANGED <<vars, v9, v10, v11, v12, v13>>

MCSpec == MCInit /\ [][MCNext]_<<part, vars, others>>

-----------------------------------------------------------------------------
\* A thread object is not used after it has been freed, and no pthread is left behind,
\* unless the handle of one was overwritten by a start without a join.
ThreadsReleased == NoUseAfterFree /\ NoneLeftBehind

\* The bookkeeping of a mutex on Windows tells who has it, and how often.
OwnerTold == part = "mutex" => Wm!OwnerTold

\* A thread's value is destroyed once, when the thread that set it exits, and its memory
\* is not used after it is freed unless FlsSetValue has failed.
ValuesDestroyedOnce == part = "tls" => Tl!ValuesDestroyedOnce

\* An error is reported whole, once, or is left to the caller.
ErrorsTold == part = "errors" => Er!ErrorsTold

\* A handler is given the error that was reported, until it returns.
HandledStays == part = "errors" => Er!HandledStays

\* A value that was set is there until its thread exits, in memory that is not freed.
SlotsValid == part = "tls" => Tl!SlotsValid

\* A copy is all or nothing: at every moment the destination is what it was or
\* complete, and a call that fails leaves no part of a copy behind.
CopyIsAtomic == part = "copy" => Fc!OriginalIntact /\ Fc!FailureLeavesNothing

\* A copy or a move, of a file or of a tree, that returns true is complete; so is
\* the creation or the removal of directories.
CallsComplete ==
    /\ part = "copy" => Fc!SuccessIsComplete
    /\ part = "tree" => Ft!TreeComplete

\* At every moment of a move, of a file or of a tree, its source or its destination is
\* whole.
MoveLosesNothing ==
    /\ part = "copy" => Fc!NothingLost
    /\ part = "tree" => Ft!TreeNotLost

\* Nothing is changed but the destination, or what is to be removed.
OutsideUntouched == part = "tree" => Ft!OutsideUntouched

\* A descriptor or handle is closed once, by what owns it, and inherited as it says and
\* by whom it is meant for, as the stream it is meant to be; transfers are whole and in
\* order, whatever read(2) and write(2) return.
FilesWhole ==
    /\ part = "handle" => Fh!DescriptorsAccounted /\ Fh!InheritanceTold
    /\ part = "spawn" => Wp!FlagsRestored /\ Wp!OnlyStreamsGiven /\ Wp!ProcessHandles
    /\ part = "redirect" => Rd!RedirectedAsAsked /\ Rd!FailureIsTold
    /\ part = "io" => Fi!ReadsWhole /\ Fi!WritesInOrder

\* "so a copy cannot recurse into itself", stated of every copy of a directory.
NotIntoItself == part = "tree" => Ft!NotIntoItself

\* A child has inherited the streams it is given.
StreamsGiven == part = "spawn" => Wp!StreamsGiven

\* A child on POSIX has the streams that were asked for, in any order of their numbers.
StreamsAsAsked == part = "redirect" => Rd!StreamsAsAsked

\* "a returned handle refers to a successfully started child", whatever number the
\* status pipe has.
HandleIsStarted == part = "redirect" => Rd!HandleIsStarted

\* A spawn is not disturbed by those of other threads, and lends nothing to them.
Undisturbed == part = "spawn" => Wp!Undisturbed /\ Wp!NothingLent

\* A successful close or free closes the descriptor of its handle and no other.
OwnsItsOwn == part = "handle" => Fh!OwnsItsOwn
=============================================================================
