-------------------------------- MODULE Tls --------------------------------
(***************************************************************************)
(* Thread local storage (src/ucb/threads/tls.c): a key with a destructor,  *)
(* the values the threads set, and what becomes of them when a thread      *)
(* exits.  On Windows a slot holds a wrapper of the value, which is the    *)
(* library's to free.                                                      *)
(***************************************************************************)
EXTENDS Integers, FiniteSets

CONSTANTS Threads, Values, None

VARIABLES
    windows,        \* the platform
    key,            \* "live" or "freed"
    running,        \* the threads that have not exited
    slot,           \* of every thread: None, or the value that is set
    wrapper,        \* of every thread on Windows: "none", "live", or "freed" and still in the slot
    owned,          \* history: the value that each thread has set and not cleared or replaced
    destroyed,      \* how often the destructor was called for each value
    refused,        \* history: FlsSetValue has failed, and the handler of the report has returned
    corrupted       \* memory that is freed has been used: nothing can be said of what follows

vars == <<windows, key, running, slot, wrapper, owned, destroyed, refused, corrupted>>

\* ucb_tls_key_new has succeeded.
Init ==
    /\ windows \in BOOLEAN /\ key = "live" /\ running = Threads
    /\ slot = [t \in Threads |-> None] /\ wrapper = [t \in Threads |-> "none"]
    /\ owned = [t \in Threads |-> None] /\ destroyed = [v \in Values |-> 0]
    /\ refused = FALSE /\ corrupted = FALSE

-----------------------------------------------------------------------------
(* A definition named ...Mutant above another one is a faulty variant of   *)
(* it, used to show that a property depends on the definition.             *)

Unused == {v \in Values : destroyed[v] = 0 /\ \A t \in Threads : owned[t] # v}
Destroy(vs) == destroyed' = [v \in Values |-> IF v \in vs THEN destroyed[v] + 1 ELSE destroyed[v]]

storage == <<windows, key, running, slot, wrapper, owned, destroyed>>

\* The wrapper in the slot is read, written or freed, although it is freed already.
UsesFreed(t) == wrapper[t] = "freed" /\ corrupted' = TRUE /\ UNCHANGED <<storage, refused>>

\* ucb_tls_set of a value; the one before is the caller's again.
Set(t) ==
    /\ t \in running /\ key = "live"
    /\ \/ \E v \in Unused :
              /\ wrapper[t] # "freed"
              /\ slot' = [slot EXCEPT ![t] = v] /\ owned' = [owned EXCEPT ![t] = v]
              /\ wrapper' = [wrapper EXCEPT ![t] = IF windows THEN "live" ELSE "none"]
              /\ UNCHANGED <<windows, key, running, destroyed, refused, corrupted>>
       \/ UsesFreed(t)
       \* Reported: no memory for a wrapper, or pthread_setspecific fails.
       \/ (windows => wrapper[t] = "none") /\ UNCHANGED vars
       \* FlsSetValue fails: the wrapper is freed, and then it is written to.
       \/ /\ windows /\ wrapper[t] = "none"
          /\ refused' = TRUE /\ corrupted' = TRUE /\ UNCHANGED storage

WrapperClearedMutant(t) ==
    UNCHANGED slot /\ wrapper' = [wrapper EXCEPT ![t] = IF @ = "live" THEN "freed" ELSE @]
\* The slot is emptied before the wrapper is freed.
WrapperCleared(t) == slot' = [slot EXCEPT ![t] = None] /\ wrapper' = [wrapper EXCEPT ![t] = "none"]
\* ucb_tls_set of NULL.
Clear(t) ==
    /\ t \in running /\ key = "live"
    /\ \/ /\ wrapper[t] # "freed" /\ WrapperCleared(t) /\ owned' = [owned EXCEPT ![t] = None]
          /\ UNCHANGED <<windows, key, running, destroyed, refused, corrupted>>
       \/ UsesFreed(t)
       \* Reported: pthread_setspecific fails.
       \/ ~windows /\ UNCHANGED vars
       \* Reported: FlsSetValue fails, and the wrapper, which is still in the slot, is freed.
       \/ /\ windows /\ wrapper[t] = "live" /\ refused' = TRUE
          /\ wrapper' = [wrapper EXCEPT ![t] = "freed"]
          /\ slot' = [slot EXCEPT ![t] = None] /\ owned' = [owned EXCEPT ![t] = None]
          /\ UNCHANGED <<windows, key, running, destroyed, corrupted>>

\* ucb_tls_get reads the wrapper.
Get(t) ==
    /\ t \in running /\ key = "live"
    /\ UsesFreed(t) \/ (wrapper[t] # "freed" /\ UNCHANGED vars)

\* The thread exits: the platform calls the destructor of a value, or
\* ucb_tls_fls_callback, which reads the wrapper and frees it.
Exit(t) ==
    /\ t \in running
    /\ \/ /\ wrapper[t] # "freed" /\ running' = running \ {t}
          /\ Destroy(IF key = "live" THEN {slot[t]} ELSE {})
          /\ slot' = [slot EXCEPT ![t] = None] /\ wrapper' = [wrapper EXCEPT ![t] = "none"]
          /\ owned' = IF key = "live" THEN [owned EXCEPT ![t] = None] ELSE owned
          /\ UNCHANGED <<windows, key, refused, corrupted>>
       \/ UsesFreed(t)

\* ucb_tls_key_free, when no thread uses the key: FlsFree calls the callback for every
\* wrapper that is left, pthread_key_delete does not.
KeyFree ==
    /\ key = "live"
    /\ \/ /\ \A t \in Threads : wrapper[t] # "freed"
          /\ key' = "freed"
          /\ IF windows
             THEN /\ Destroy({slot[t] : t \in Threads}) /\ slot' = [t \in Threads |-> None]
                  /\ owned' = [t \in Threads |-> None] /\ wrapper' = [t \in Threads |-> "none"]
             ELSE UNCHANGED <<slot, owned, destroyed, wrapper>>
          /\ UNCHANGED <<windows, running, refused, corrupted>>
       \/ \E t \in Threads : UsesFreed(t)

Next ==
    /\ ~corrupted
    /\ KeyFree \/ \E t \in Threads : Set(t) \/ Clear(t) \/ Get(t) \/ Exit(t)
Spec == Init /\ [][Next]_vars

-----------------------------------------------------------------------------
(* Properties.                                                             *)

\* Unless FlsSetValue has failed on Windows, no freed wrapper is used or left in a slot.
\* What ucb_tls_get returns is what the thread has set and not cleared, whatever else
\* failed and was reported; a value is destroyed once at most, by the exit of the thread
\* that has it, and no value that a thread cleared or replaced is destroyed; an exited
\* thread leaves nothing behind.
ValuesDestroyedOnce ==
    /\ corrupted \/ (\E t \in Threads : wrapper[t] = "freed") => windows /\ refused
    /\ ~corrupted /\ key = "live" =>
          \A t \in running : wrapper[t] # "freed" => slot[t] = owned[t]
    /\ \A v \in Values : destroyed[v] <= 1 /\ (destroyed[v] = 1 => \A t \in Threads : owned[t] # v)
    /\ key = "live" => \A t \in Threads \ running : owned[t] = None /\ wrapper[t] = "none"

-----------------------------------------------------------------------------
(* Why it is so: the inductive invariant.                                  *)

TypeOK ==
    /\ windows \in BOOLEAN /\ key \in {"live", "freed"} /\ running \subseteq Threads
    /\ slot \in [Threads -> Values \cup {None}] /\ owned \in [Threads -> Values \cup {None}]
    /\ wrapper \in [Threads -> {"none", "live", "freed"}] /\ destroyed \in [Values -> {0, 1}]
    /\ refused \in BOOLEAN /\ corrupted \in BOOLEAN

\* A value is owned by one thread at most, is not owned once it is destroyed, and is in no
\* slot but its owner's; with the last reference to the wrapper the slot is emptied.
SlotsOwned ==
    /\ \A t, u \in Threads : owned[t] = owned[u] /\ owned[t] # None => t = u
    /\ \A t \in Threads : owned[t] # None => destroyed[owned[t]] = 0
    /\ \A t \in Threads : slot[t] # None => slot[t] = owned[t]
    /\ windows => \A t \in Threads : slot[t] # None => wrapper[t] = "live"

TlsInv == TypeOK /\ SlotsOwned /\ ValuesDestroyedOnce

-----------------------------------------------------------------------------
(* What the header says.                                                   *)

\* tls.h: a value is valid until it is replaced, cleared, or its thread exits, and its
\* destructor runs once: no call finds the slot with memory that is freed.
SlotsValid == ~corrupted
\* tls.h: ucb_tls_key_free "does not run pending destructors".
FreeRunsNone == [][key = "live" /\ key' = "freed" => destroyed' = destroyed]_vars
=============================================================================
