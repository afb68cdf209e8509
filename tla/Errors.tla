------------------------------- MODULE Errors -------------------------------
(***************************************************************************)
(* Reported and thrown errors (src/ucb/error.c): threads that report       *)
(* errors to a handler, or to stderr one at a time, and that throw errors  *)
(* into a pointer of their own.  A report is formatted into a buffer of    *)
(* the thread before it is known whether it is a nested one.               *)
(***************************************************************************)
EXTENDS Integers, Sequences

CONSTANTS
    Threads,
    Statuses,       \* the values of errno that are reported
    KnownStatuses,  \* those that have a code of their own
    MaxCalls,       \* bounds the calls of each thread
    None

Handlers == {"none", "quiet", "reporting"}     \* a handler may report an error itself

VARIABLES
    handler,        \* s_ucb_errfunc, set before the threads start
    lock,           \* s_report_mutex: the thread that has it
    output,         \* the lines of stderr
    aborted,        \* the process has ended
    at,             \* where each thread is
    lvl,            \* the level of its report
    then,           \* where it goes after it
    err,            \* s_err: the code that is in the buffer
    depth,          \* s_report_depth
    thrown,         \* the error that *perr holds, "blank" without a message
    calls,          \* of every thread: its calls
    due, told       \* history: the codes reported outside of a handler, and those that were handled or printed

vars == <<handler, lock, output, aborted, at, lvl, then, err, depth, thrown, calls, due, told>>
shared == <<handler, lock, output, aborted>>

Init ==
    /\ handler \in Handlers /\ lock = None /\ output = <<>> /\ aborted = FALSE
    /\ at = [t \in Threads |-> "out"] /\ lvl = [t \in Threads |-> "warning"]
    /\ then = [t \in Threads |-> "out"] /\ err = [t \in Threads |-> None]
    /\ depth = [t \in Threads |-> 0] /\ thrown = [t \in Threads |-> None]
    /\ calls = [t \in Threads |-> 0]
    /\ due = [t \in Threads |-> <<>>] /\ told = [t \in Threads |-> <<>>]

Runs(t, where) == ~aborted /\ at[t] = where
Goto(t, where) == at' = [at EXCEPT ![t] = where]
Tell(t, code)  == told' = [told EXCEPT ![t] = Append(@, code)]

-----------------------------------------------------------------------------
(* A definition named ...Mutant above another one is a faulty variant of   *)
(* it, used to show that a property depends on the definition.             *)

\* ucb_err_wrap_errno.
Wrapped(status) == IF status \in KnownStatuses THEN status ELSE "UNKNOWN"

\* ucb_error_formatv and the start of ucb_error_report; a handler that reports an
\* error has it suppressed, and comes to its end after it.
Report(t, level, code, after) ==
    /\ err' = [err EXCEPT ![t] = code]
    /\ due' = IF after = "return" THEN due ELSE [due EXCEPT ![t] = Append(@, code)]
    /\ IF depth[t] > 0 THEN Goto(t, after) /\ UNCHANGED <<lvl, then, depth>>
       ELSE /\ lvl' = [lvl EXCEPT ![t] = level] /\ then' = [then EXCEPT ![t] = after]
            /\ depth' = [depth EXCEPT ![t] = @ + 1]
            /\ Goto(t, IF handler = "none" THEN "lock" ELSE "handle")
    /\ UNCHANGED shared

\* ucb_report_errno, ucb_report_fatal, ucb_report_user, ucb_report_warning.
Call(t) == Runs(t, "out") /\ calls[t] < MaxCalls /\ calls' = [calls EXCEPT ![t] = @ + 1]
ReportErrno(t) ==
    \E status \in Statuses : Call(t) /\ Report(t, "system", Wrapped(status), "out")
                             /\ UNCHANGED <<thrown, told>>
ReportOther(t) ==
    \E level \in {"fatal", "user", "warning"} :
        Call(t) /\ Report(t, level, level, "out") /\ UNCHANGED <<thrown, told>>

\* The handler.
Handle(t) ==
    /\ Runs(t, "handle") /\ Tell(t, err[t])
    /\ IF handler = "reporting" THEN Report(t, "warning", "nested", "return")
       ELSE Goto(t, "return") /\ UNCHANGED <<shared, err, lvl, then, depth, due>>
    /\ UNCHANGED <<thrown, calls>>

FreeMutant == TRUE
Free == lock = None
Lock(t) ==
    /\ Runs(t, "lock") /\ Free /\ lock' = t /\ Goto(t, "level")
    /\ UNCHANGED <<handler, output, aborted, lvl, then, err, depth, thrown, calls, due, told>>

\* ucb_error_print, a line at a time.
PrintPart(t, from, to, line) ==
    /\ Runs(t, from) /\ output' = Append(output, [by |-> t, line |-> line]) /\ Goto(t, to)
    /\ UNCHANGED <<handler, lock, aborted, lvl, then, err, depth, thrown, calls, due>>
PrintLevel(t)   == PrintPart(t, "level", "code", "level") /\ UNCHANGED told
PrintCode(t)    == PrintPart(t, "code", "message", "code") /\ UNCHANGED told
PrintMessage(t) == PrintPart(t, "message", "printed", "message") /\ Tell(t, err[t])

AbortsMutant(t) == lvl[t] # "warning" /\ lvl[t] # "system"
\* The default handler ends the process in its lock, but for a user error.
Aborts(t) == lvl[t] \notin {"warning", "user"}
Unlock(t) ==
    /\ Runs(t, "printed")
    /\ IF Aborts(t) THEN aborted' = TRUE /\ UNCHANGED <<lock, at>>
       ELSE lock' = None /\ Goto(t, "return") /\ UNCHANGED aborted
    /\ UNCHANGED <<handler, output, lvl, then, err, depth, thrown, calls, due, told>>

LeavesMutant(t) == UNCHANGED depth
Leaves(t) == depth' = [depth EXCEPT ![t] = @ - 1]
Return(t) ==
    /\ Runs(t, "return") /\ Leaves(t) /\ Goto(t, "left")
    /\ UNCHANGED <<shared, lvl, then, err, thrown, calls, due, told>>
\* A user error always ends the process.
GoOn(t) ==
    /\ Runs(t, "left")
    /\ IF lvl[t] = "user" THEN aborted' = TRUE /\ UNCHANGED at ELSE Goto(t, then[t]) /\ UNCHANGED aborted
    /\ UNCHANGED <<handler, lock, output, lvl, then, err, depth, thrown, calls, due, told>>

-----------------------------------------------------------------------------
(* ucb_throw and ucb_throw_formatv of "new" into *perr.                    *)

Throw(t) ==
    /\ Call(t)
    /\ IF thrown[t] = None
       THEN Goto(t, "object") /\ UNCHANGED <<shared, lvl, then, err, depth, due>>
       ELSE Report(t, "warning", "unhandled", "forget")
    /\ UNCHANGED <<thrown, told>>
\* ucb_error_clear of the error that was not handled.
Forget(t) ==
    /\ Runs(t, "forget") /\ thrown' = [thrown EXCEPT ![t] = None] /\ Goto(t, "object")
    /\ UNCHANGED <<shared, lvl, then, err, depth, calls, due, told>>
NewObject(t) ==
    /\ Runs(t, "object")
    /\ \/ /\ thrown' = [thrown EXCEPT ![t] = "blank"] /\ Goto(t, "copy")
          /\ UNCHANGED <<shared, lvl, then, err, depth, due>>
       \/ Report(t, "fatal", "oom", "out") /\ UNCHANGED thrown
    /\ UNCHANGED <<calls, told>>
CopyMessage(t) ==
    /\ Runs(t, "copy")
    /\ \/ /\ thrown' = [thrown EXCEPT ![t] = "new"] /\ Goto(t, "out")
          /\ UNCHANGED <<shared, lvl, then, err, depth, due>>
       \/ Report(t, "fatal", "oom", "drop") /\ UNCHANGED thrown
    /\ UNCHANGED <<calls, told>>
Drop(t) ==
    /\ Runs(t, "drop") /\ thrown' = [thrown EXCEPT ![t] = None] /\ Goto(t, "out")
    /\ UNCHANGED <<shared, lvl, then, err, depth, calls, due, told>>
\* The caller has handled what was thrown: ucb_error_clear.
Clear(t) ==
    /\ Runs(t, "out") /\ thrown[t] # None /\ thrown' = [thrown EXCEPT ![t] = None]
    /\ UNCHANGED <<shared, at, lvl, then, err, depth, calls, due, told>>

Next ==
    \E t \in Threads :
        \/ ReportErrno(t) \/ ReportOther(t) \/ Handle(t) \/ Lock(t)
        \/ PrintLevel(t) \/ PrintCode(t) \/ PrintMessage(t) \/ Unlock(t) \/ Return(t) \/ GoOn(t)
        \/ Throw(t) \/ Forget(t) \/ NewObject(t) \/ CopyMessage(t) \/ Drop(t) \/ Clear(t)
Spec == Init /\ [][Next]_vars

-----------------------------------------------------------------------------
(* Properties.                                                             *)

Lines == <<"level", "code", "message">>

\* Every report outside of a handler is handled or printed once, with its own code,
\* before its caller goes on; what is printed is not mixed with what others print; only
\* warnings, and errors that a handler took, let their thread go on; and a throw leaves
\* its error in *perr, with its message, or has reported that it cannot.
ErrorsTold ==
    /\ \A t \in Threads : at[t] \in {"out", "forget", "object", "copy", "drop"} => told[t] = due[t]
    /\ \A i \in 1..Len(output) :
        /\ output[i].line = Lines[((i - 1) % 3) + 1]
        /\ output[i].line # "level" => output[i].by = output[i - 1].by
    /\ \A t \in Threads : \A i \in 1..Len(told[t]) :
        told[t][i] = "user" \/ (handler = "none" /\ told[t][i] \notin {"warning", "unhandled"})
            => at[t] \notin {"out", "forget", "object", "copy", "drop"}
    /\ \A t \in Threads : at[t] = "out" => thrown[t] # "blank"

\* error.h: a handler is given the error that was reported, until it returns.
HandledStays == \A t \in Threads : at[t] = "return" => err[t] = told[t][Len(told[t])]

-----------------------------------------------------------------------------
(* Why the errors are told: the inductive invariant.                       *)

Resting  == {"out", "forget", "object", "copy", "drop"}
Untold   == {"handle", "lock", "level", "code", "message"}
Told     == {"printed", "return", "left"}
Printing == {"level", "code", "message", "printed"}
Codes    == Statuses \cup {"UNKNOWN", "fatal", "user", "warning", "nested", "unhandled", "oom"}

TypeOK ==
    /\ handler \in Handlers /\ lock \in Threads \cup {None} /\ aborted \in BOOLEAN
    /\ output \in Seq([by : Threads, line : {"level", "code", "message"}])
    /\ at \in [Threads -> Resting \cup Untold \cup Told] /\ then \in [Threads -> Resting]
    /\ lvl \in [Threads -> {"fatal", "user", "warning", "system"}]
    /\ err \in [Threads -> Codes \cup {None}] /\ depth \in [Threads -> 0..1]
    /\ thrown \in [Threads -> {None, "blank", "new"}]
    /\ due \in [Threads -> Seq(Codes)] /\ told \in [Threads -> Seq(Codes)]

LockHeld == \A t \in Threads : lock = t <=> at[t] \in Printing

\* Only a handler reports an error within a report, and only without one is there printing.
StageKnown(t) ==
    /\ depth[t] = IF at[t] \in Resting \cup {"left"} THEN 0 ELSE 1
    /\ at[t] \in Printing \cup {"lock"} => handler = "none"
    /\ at[t] = "handle" => handler # "none"

\* What is due and has not been told is the error in the buffer.
BufferDue(t) ==
    /\ at[t] \in Untold => err[t] \in Codes /\ due[t] = Append(told[t], err[t])
    /\ at[t] \notin Untold => told[t] = due[t]

\* A thread does not come back from an error that ends the process.
Ends(code) == code = "user" \/ (handler = "none" /\ code \notin {"warning", "unhandled"})
EndsThere(t) ==
    /\ at[t] \in Untold => /\ Ends(err[t]) => lvl[t] # "warning"
                           /\ err[t] = "user" => lvl[t] = "user"
    /\ \A i \in 1..Len(told[t]) : Ends(told[t][i]) =>
           /\ at[t] \in Told /\ lvl[t] # "warning"
           /\ at[t] # "printed" => lvl[t] = "user"

\* An error without a message is on its way to get one, or to be dropped.
BlankKept(t) ==
    thrown[t] = "blank" =>
        at[t] \in {"copy", "drop"} \/ (at[t] \notin Resting /\ then[t] = "drop")

\* The lines come in threes, and the last ones are those of the thread that prints.
LinesWhole ==
    /\ \A i \in 1..Len(output) :
        /\ output[i].line = Lines[((i - 1) % 3) + 1]
        /\ output[i].line # "level" => output[i].by = output[i - 1].by
    /\ \A t \in Threads :
        /\ at[t] \in {"level", "printed"} => Len(output) % 3 = 0
        /\ at[t] = "code" => Len(output) % 3 = 1 /\ output[Len(output)].by = t
        /\ at[t] = "message" => Len(output) % 3 = 2 /\ output[Len(output)].by = t
    /\ lock = None => Len(output) % 3 = 0

ThreadTells(t) == StageKnown(t) /\ BufferDue(t) /\ EndsThere(t) /\ BlankKept(t)
ErrorsInv == TypeOK /\ LockHeld /\ LinesWhole /\ \A t \in Threads : ThreadTells(t)
=============================================================================
