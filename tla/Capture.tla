------------------------------ MODULE Capture ------------------------------
(***************************************************************************)
(* ucb_process_capture of src/ucb/process.c: one call that runs a child    *)
(* and reads its output and error streams through pipes, the first in the  *)
(* calling thread and the second in a thread of its own (the drainer).     *)
(*                                                                         *)
(* Spawning is one step here (module Process has its own steps).  The      *)
(* bytes of a stream are numbered as they are written, so that a stream    *)
(* is described by how many have been written and how many read.           *)
(***************************************************************************)
EXTENDS Integers, FiniteSets

CONSTANTS
    PipeSize,       \* bytes a pipe holds before a write blocks
    MaxOutput       \* bytes the child writes to one stream, at most

ASSUME SizesAssumption == PipeSize \in Nat \ {0} /\ MaxOutput \in Nat

Streams == {"out", "err"}
Kinds   == {"none", "setup", "drainer", "read", "wait"}    \* of errors

VARIABLES
    streams,        \* the streams captured: the buffers given by the caller
    pc,             \* where the call is
    drainer,        \* the thread of the second stream
    ends,           \* ends[s]: the pipe ends that the program has open
    holders,        \* holders[s]: other processes that have the write end
    written, got,   \* of each stream: bytes written by the child, bytes read
    wants,          \* what the child does next: write to a stream, or exit
    child,          \* the child's state
    io_ok,          \* io_ok and drain->ok
    io_err,         \* io_err or drain->err of each stream
    thrown,         \* the kind of error in *perr
    result          \* what the call returns

parent == <<streams, io_ok, io_err, thrown, result>>
vars == <<parent, pc, drainer, ends, holders, written, got, wants, child>>

Both == streams = Streams

Init ==
    /\ streams \in SUBSET Streams
    /\ pc = "setup" /\ drainer = "none"
    /\ ends = [s \in Streams |-> {}] /\ holders = [s \in Streams |-> {}]
    /\ written = [s \in Streams |-> 0] /\ got = [s \in Streams |-> 0]
    /\ wants = "exit" /\ child = "none"
    /\ io_ok = [s \in Streams |-> TRUE] /\ io_err = [s \in Streams |-> FALSE]
    /\ thrown = "none" /\ result = "none"

-----------------------------------------------------------------------------
(* The child and its helper.  A definition named ...Mutant above another   *)
(* one is a faulty variant of it, used to show that a property depends on  *)
(* the definition.                                                         *)

Room(s) == written[s] - got[s] < PipeSize
EofMutant(s) == written[s] = got[s] /\ "write" \notin ends[s]
Eof(s)  == written[s] = got[s] /\ holders[s] = {} /\ "write" \notin ends[s]

\* What the child may want to do: write to a pipe (what it writes elsewhere never
\* blocks) or exit.
Wants(w) == {s \in streams : w[s] < MaxOutput} \cup {"exit"}

\* It writes to a pipe, once there is room, and then wants something else.
ChildWrites(s) ==
    /\ child = "running" /\ wants = s /\ Room(s)
    /\ written' = [written EXCEPT ![s] = @ + 1] /\ wants' \in Wants(written')
    /\ UNCHANGED <<parent, pc, drainer, ends, holders, got, child>>

\* The child exits; a helper process that it has started may still have the
\* write ends, and ends later.
ChildExits ==
    /\ child = "running" /\ wants = "exit" /\ child' = "zombie"
    /\ \E h \in {{}, {"helper"}} :
          holders' = [s \in Streams |-> IF "child" \in holders[s] THEN h ELSE {}]
    /\ UNCHANGED <<parent, pc, drainer, ends, written, got, wants>>

HelperExits ==
    /\ child # "running" /\ \E s \in Streams : "helper" \in holders[s]
    /\ holders' = [s \in Streams |-> holders[s] \ {"helper"}]
    /\ UNCHANGED <<parent, pc, drainer, ends, written, got, wants, child>>

-----------------------------------------------------------------------------
(* ucb_process_capture.                                                    *)

\* The null devices are opened and the pipes created, or one of them cannot be.
Setup ==
    /\ pc = "setup"
    /\ \/ /\ ends' = [s \in Streams |-> IF s \in streams THEN {"read", "write"} ELSE {}]
          /\ pc' = "spawn" /\ UNCHANGED <<thrown, result>>
       \/ /\ \/ UNCHANGED ends
             \/ Both /\ ends' = [ends EXCEPT !["out"] = {"read", "write"}]
          /\ pc' = "done" /\ thrown' = "setup" /\ result' = "false"
    /\ UNCHANGED <<streams, io_ok, io_err, drainer, holders, written, got, wants, child>>

Spawn ==
    /\ pc = "spawn"
    /\ \/ /\ pc' = "close" /\ child' = "running"
          /\ holders' = [s \in Streams |-> IF s \in streams THEN {"child"} ELSE {}]
          /\ wants' \in Wants(written)
          /\ UNCHANGED <<thrown, result>>
       \/ /\ pc' = "done" /\ thrown' = "setup" /\ result' = "false"
          /\ UNCHANGED <<holders, child, wants>>
    /\ UNCHANGED <<streams, io_ok, io_err, drainer, ends, written, got>>

CloseWriteMutant == UNCHANGED ends
CloseWrite == ends' = [s \in Streams |-> ends[s] \ {"write"}]

\* The parent gives up its write ends.
CloseWrites ==
    /\ pc = "close" /\ CloseWrite
    /\ pc' = IF Both THEN "start" ELSE IF streams = {} THEN "wait" ELSE "read"
    /\ UNCHANGED <<parent, drainer, holders, written, got, wants, child>>

StartDrainer ==
    /\ pc = "start" /\ drainer = "none"
    /\ drainer' = "reading" /\ pc' = "read"
    /\ UNCHANGED <<parent, ends, holders, written, got, wants, child>>

\* The stream that the calling thread reads.
First == IF "out" \in streams THEN "out" ELSE "err"

\* ucb_file_read_buffer on stream s: bytes until the end of file, or a failure.
ReadBytes(s) ==
    /\ got[s] < written[s]
    /\ \E n \in 1..(written[s] - got[s]) : got' = [got EXCEPT ![s] = @ + n]
    /\ UNCHANGED <<io_ok, io_err>>
ReadFailsOn(s) ==
    /\ io_ok' = [io_ok EXCEPT ![s] = FALSE] /\ io_err' = [io_err EXCEPT ![s] = TRUE]
    /\ UNCHANGED got

AfterRead == IF Both THEN "join" ELSE "wait"

ReadFirst ==
    /\ pc = "read"
    /\ \/ ReadBytes(First) /\ UNCHANGED pc
       \/ Eof(First) /\ pc' = AfterRead /\ UNCHANGED <<got, io_ok, io_err>>
    /\ UNCHANGED <<streams, thrown, result, drainer, ends, holders, written, wants, child>>

ReadFirstFails ==
    /\ pc = "read" /\ ReadFailsOn(First) /\ pc' = AfterRead
    /\ UNCHANGED <<streams, thrown, result, drainer, ends, holders, written, wants, child>>

\* process_capture_drain_func.
Drain ==
    /\ drainer = "reading"
    /\ \/ ReadBytes("err") /\ UNCHANGED drainer
       \/ Eof("err") /\ drainer' = "ended" /\ UNCHANGED <<got, io_ok, io_err>>
    /\ UNCHANGED <<streams, thrown, result, pc, ends, holders, written, wants, child>>

DrainFails ==
    /\ drainer = "reading" /\ ReadFailsOn("err") /\ drainer' = "ended"
    /\ UNCHANGED <<streams, thrown, result, pc, ends, holders, written, wants, child>>

JoinableMutant == drainer # "none"
Joinable       == drainer = "ended"

Join ==
    /\ pc = "join" /\ Joinable /\ pc' = "wait"
    /\ UNCHANGED <<parent, drainer, ends, holders, written, got, wants, child>>

\* The drainer cannot be started: the child is killed, then both streams are
\* read to their end or until a read fails, their errors ignored.
StartFails ==
    /\ pc = "start" /\ pc' = "drain_out"
    /\ thrown' = "drainer"
    /\ io_ok' = [io_ok EXCEPT !["out"] = FALSE]
    /\ IF child = "running"
       THEN /\ child' = "zombie"
            /\ \E h \in {{}, {"helper"}} : holders' = [s \in Streams |-> h]
       ELSE UNCHANGED <<child, holders>>
    /\ UNCHANGED <<streams, io_err, result, drainer, ends, written, got, wants>>

DrainKilled(s, from, to) ==
    /\ pc = from
    /\ \/ ReadBytes(s) /\ UNCHANGED pc
       \/ Eof(s) /\ pc' = to /\ UNCHANGED <<got, io_ok, io_err>>
    /\ UNCHANGED <<streams, thrown, result, drainer, ends, holders, written, wants, child>>

DrainKilledFails(from, to) ==
    /\ pc = from /\ pc' = to
    /\ UNCHANGED <<parent, drainer, ends, holders, written, got, wants, child>>

\* process_take_error, for the stream's errors and then for wait's: the first one
\* is kept.
Errors(waited, ios) ==
    IF thrown # "none" THEN thrown
    ELSE IF ios # {} THEN "read"
    ELSE IF waited THEN "none" ELSE "wait"

\* ucb_process_wait without a time limit; it fails if the program ignores SIGCHLD,
\* the kernel having reaped the child.
WaitMutant == "zombie"
WaitFor    == "reaped"

Wait ==
    /\ pc = "wait" /\ child = "zombie"
    /\ child' = WaitFor
    /\ \E waited \in BOOLEAN :
          /\ result' = IF waited /\ \A s \in Streams : io_ok[s] THEN "true" ELSE "false"
          /\ thrown' = Errors(waited, {s \in Streams : io_err[s]})
    /\ pc' = "done"
    /\ UNCHANGED <<streams, io_ok, io_err, drainer, ends, holders, written, got, wants>>

Cleanup ==
    /\ pc = "done" /\ pc' = "returned"
    /\ ends' = [s \in Streams |-> {}]
    /\ UNCHANGED <<parent, drainer, holders, written, got, wants, child>>

ParentStep ==
    \/ Setup \/ Spawn \/ CloseWrites \/ StartDrainer \/ StartFails \/ ReadFirst \/ Join
    \/ DrainKilled("out", "drain_out", "drain_err") \/ DrainKilled("err", "drain_err", "wait")
    \/ Wait \/ Cleanup
ChildStep == (\E s \in Streams : ChildWrites(s)) \/ ChildExits

Next ==
    \/ ParentStep \/ Drain \/ ChildStep \/ HelperExits
    \/ ReadFirstFails \/ DrainFails
    \/ DrainKilledFails("drain_out", "drain_err") \/ DrainKilledFails("drain_err", "wait")

Spec == Init /\ [][Next]_vars

\* The two threads run on, and the child and its helper do what they want and end
\* in the end; nothing makes a read fail.
FairSpec ==
    Spec /\ WF_vars(ParentStep) /\ WF_vars(Drain) /\ WF_vars(ChildStep) /\ WF_vars(HelperExits)

-----------------------------------------------------------------------------
(* Properties.                                                             *)

\* Every variable keeps its type, and a pipe never holds more than its size.
TypeOK ==
    /\ streams \subseteq Streams /\ drainer \in {"none", "reading", "ended"}
    /\ ends \in [Streams -> SUBSET {"read", "write"}]
    /\ holders \in [Streams -> SUBSET {"child", "helper"}]
    /\ \A s \in Streams : 0 <= got[s] /\ got[s] <= written[s] /\ written[s] <= got[s] + PipeSize
    /\ child \in {"none", "running", "zombie", "reaped"}
    /\ thrown \in Kinds /\ result \in {"none", "true", "false"}

\* A capture that succeeds has read all that was written to the pipes, and nobody
\* is left to write more.
AllCaptured ==
    result = "true" => \A s \in streams : got[s] = written[s] /\ holders[s] = {}

\* "The child is always reaped before returning", whatever fails.
ChildReaped == pc = "returned" => child \in {"none", "reaped"}

\* The drainer works on the call's stack frame and buffers: it has ended before
\* the call goes on to wait for the child, to free its pipes and to return.
DrainerJoined == pc \in {"wait", "done", "returned"} => drainer # "reading"

\* The call fails exactly when it leaves an error in *perr.
FailureReported ==
    pc = "returned" => (result = "false" <=> thrown # "none")

\* The call returns, in whatever order the child fills the two pipes and whether or
\* not the drainer can be started, if the streams can be read.
CaptureReturns == <>(pc = "returned" \/ \E s \in Streams : io_err[s])

\* "Both streams are drained concurrently so a child that fills one pipe cannot
\* deadlock": the call always returns.
NoPipeDeadlock == <>(pc = "returned")

\* A capture that succeeds has all that was written, and when any capture returns its
\* child and its drainer are over.
CaptureSound == AllCaptured /\ ChildReaped /\ DrainerJoined
=============================================================================
