------------------------------ MODULE WinMutex ------------------------------
(***************************************************************************)
(* ucb_mutex and ucb_cond as they are built on Windows (the _WIN32 parts   *)
(* of src/ucb/threads/mutex.c and cond.c): a critical section, which its   *)
(* holder may enter again, with an owner and a count of the library's own, *)
(* read and written outside of it as well.                                 *)
(***************************************************************************)
EXTENDS Integers, FiniteSets

CONSTANTS
    Threads,
    MaxDepth,       \* bound: how deep a recursive mutex is locked
    None            \* UCB_PID_INVALID

VARIABLES
    recursive, owner, count,    \* ucb_mutex_impl
    cs,             \* the critical section: its holder and how often it entered
    at,             \* where each thread is
    holds,          \* how often a thread has locked, as its calls tell it
    saved,          \* ucb_cond_wait's saved_count
    woken           \* the waiting threads that are woken

vars == <<recursive, owner, count, cs, at, holds, saved, woken>>
mutex_vars == <<owner, count, cs>>

TypeOK ==
    /\ recursive \in BOOLEAN /\ owner \in Threads \cup {None} /\ count \in 0..MaxDepth
    /\ cs \in [holder : Threads \cup {None}, n : 0..MaxDepth]
    /\ at \in [Threads -> {"out", "enter", "own", "leave", "left", "sleep", "wake", "aborted"}]
    /\ holds \in [Threads -> 0..MaxDepth] /\ saved \in [Threads -> 0..MaxDepth] /\ woken \subseteq Threads

Init ==
    /\ recursive \in BOOLEAN /\ owner = None /\ count = 0 /\ cs = [holder |-> None, n |-> 0]
    /\ at = [t \in Threads |-> "out"] /\ holds = [t \in Threads |-> 0]
    /\ saved = [t \in Threads |-> 0] /\ woken = {}

Goto(t, where) == at' = [at EXCEPT ![t] = where]
Free(t)  == cs.holder \in {None, t}
Enter(t) == Free(t) /\ cs' = [holder |-> t, n |-> cs.n + 1]
Leave    == cs' = IF cs.n = 1 THEN [holder |-> None, n |-> 0] ELSE [cs EXCEPT !.n = @ - 1]
Abort(t) == Goto(t, "aborted") /\ UNCHANGED <<mutex_vars, holds, saved, woken>>

-----------------------------------------------------------------------------
(* A definition named ...Mutant above another one is a faulty variant of   *)
(* it, used to show that a property depends on the definition.             *)

\* The owner locks a recursive mutex once more.
Again(t) ==
    /\ recursive /\ count < MaxDepth /\ count' = count + 1 /\ holds' = [holds EXCEPT ![t] = @ + 1]
    /\ UNCHANGED <<owner, cs, at, saved, woken>>
\* ucb_mutex_lock: the owner is compared outside of the critical section.
Lock(t) ==
    /\ at[t] = "out"
    /\ IF owner # t THEN Goto(t, "enter") /\ UNCHANGED <<mutex_vars, holds, saved, woken>>
       ELSE IF recursive THEN Again(t) ELSE Abort(t)
    /\ UNCHANGED recursive
EnterSection(t) ==
    /\ at[t] = "enter" /\ Enter(t) /\ Goto(t, "own")
    /\ UNCHANGED <<recursive, owner, count, holds, saved, woken>>
Own(t) ==
    /\ at[t] = "own" /\ owner' = t /\ count' = 1 /\ holds' = [holds EXCEPT ![t] = 1]
    /\ Goto(t, "out") /\ UNCHANGED <<recursive, cs, saved, woken>>
\* ucb_mutex_try_lock: where it returns false nothing has changed.
TryEnter(t) ==
    /\ at[t] = "out" /\ owner # t /\ Enter(t) /\ Goto(t, "own")
    /\ UNCHANGED <<recursive, owner, count, holds, saved, woken>>
TryAgain(t) == at[t] = "out" /\ owner = t /\ Again(t) /\ UNCHANGED recursive
TryFails(t) == at[t] = "out" /\ (IF owner = t THEN ~recursive ELSE ~Free(t)) /\ UNCHANGED vars
TryLock(t)  == TryEnter(t) \/ TryAgain(t) \/ TryFails(t)

ClearedMutant == UNCHANGED <<owner, count>>
\* The bookkeeping is cleared while the critical section is still held.
Cleared == owner' = None /\ count' = 0

Unlock(t) ==
    /\ at[t] = "out"
    /\ IF owner # t THEN Abort(t)
       ELSE IF recursive /\ count > 1
       THEN /\ count' = count - 1 /\ holds' = [holds EXCEPT ![t] = @ - 1]
            /\ UNCHANGED <<owner, cs, at, saved, woken>>
       ELSE /\ Cleared /\ holds' = [holds EXCEPT ![t] = 0] /\ Goto(t, "leave") /\ UNCHANGED <<cs, saved, woken>>
    /\ UNCHANGED recursive
LeaveSection(t) ==
    /\ at[t] = "leave" /\ Leave /\ Goto(t, "out")
    /\ UNCHANGED <<recursive, owner, count, holds, saved, woken>>

\* ucb_cond_wait and timedwait: SleepConditionVariableCS leaves the section once and the
\* owner stays who it was.
Wait(t) ==
    /\ at[t] = "out" /\ holds[t] > 0
    /\ saved' = [saved EXCEPT ![t] = count] /\ Leave /\ Goto(t, "sleep")
    /\ holds' = [holds EXCEPT ![t] = 0]
    /\ UNCHANGED <<recursive, owner, count, woken>>
\* A signal, a broadcast, a timeout or no reason at all.
Wake(t) ==
    /\ at[t] = "sleep" /\ t \notin woken /\ woken' = woken \cup {t}
    /\ UNCHANGED <<recursive, mutex_vars, at, holds, saved>>
Reacquire(t) ==
    /\ at[t] = "sleep" /\ t \in woken /\ Enter(t) /\ woken' = woken \ {t} /\ Goto(t, "wake")
    /\ UNCHANGED <<recursive, owner, count, holds, saved>>

RestoredMutant(t) == UNCHANGED owner /\ count' = saved[t]
\* The bookkeeping of the thread that waited.
Restored(t) == owner' = t /\ count' = saved[t]
Restore(t) ==
    /\ at[t] = "wake" /\ Restored(t) /\ holds' = [holds EXCEPT ![t] = saved[t]] /\ Goto(t, "out")
    /\ UNCHANGED <<recursive, cs, saved, woken>>

Next ==
    \E t \in Threads :
        \/ Lock(t) \/ EnterSection(t) \/ Own(t) \/ TryLock(t) \/ Unlock(t) \/ LeaveSection(t)
        \/ Wait(t) \/ Wake(t) \/ Reacquire(t) \/ Restore(t)
Spec == Init /\ [][Next]_vars

-----------------------------------------------------------------------------
(* Properties.                                                             *)

\* One thread at most has the mutex locked, it is the owner, and the count is how often
\* it has locked: whatever the others read and write meanwhile, whoever waits and wakes.
\* A thread is told that it holds the mutex, or aborts, only because of what it did itself.
OwnerTold ==
    /\ Cardinality({t \in Threads : holds[t] > 0}) <= 1
    /\ \A t \in Threads :
        /\ holds[t] > 0 => owner = t /\ count = holds[t] /\ cs.holder = t
        /\ at[t] = "out" /\ holds[t] = 0 => owner # t

-----------------------------------------------------------------------------
(* Why it is so: the inductive invariant.                                  *)

\* The critical section is entered once, by the one thread that has the mutex locked or is
\* between the section and the bookkeeping.
SectionHeld ==
    /\ cs.n = IF cs.holder = None THEN 0 ELSE 1
    /\ \A t \in Threads : cs.holder = t <=> holds[t] > 0 \/ at[t] \in {"own", "leave", "wake"}

\* The owner has it locked, or has left it to wait and has not been replaced.
OwnerHolds ==
    \A t \in Threads :
        /\ holds[t] > 0 => owner = t /\ count = holds[t] /\ at[t] \in {"out", "aborted"}
        /\ owner = t => holds[t] > 0 \/ at[t] \in {"sleep", "wake"}
        /\ at[t] \in {"sleep", "wake"} => saved[t] > 0

MutexInv == TypeOK /\ SectionHeld /\ OwnerHolds
=============================================================================
