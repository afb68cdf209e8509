------------------------------- MODULE MemDbg -------------------------------
(***************************************************************************)
(* The allocation tracker of debug builds, src/ucb/memdbg.c: the stack of  *)
(* tracepoints, the doubly linked list of live allocations that each of    *)
(* them keeps, the counters, and the bounded log of recent frees.          *)
(*                                                                         *)
(* A critical section of s_mutex is one step.  A block is named by the     *)
(* address of its header; the sizes and call sites kept with it, and the   *)
(* counters that add up sizes and totals, are left out, as are reports.  Tracking has been *)
(* enabled before the first allocation, as memdbg.h requires.              *)
(***************************************************************************)
EXTENDS Integers, Sequences, FiniteSets, SequencesExt

CONSTANTS
    Threads,
    Addrs,          \* the addresses the C heap hands out
    Null,
    MaxLevels,      \* UCB_MEMTRACK_MAX_TRACEPOINTS
    Capacity,       \* UCB_MEMTRACK_FREE_CAPACITY
    SizeMod,        \* SIZE_MAX + 1
    Quiet,          \* TRUE iff no other thread calls the tracker during a pop
    Failures        \* which rare cases of realloc occur, see below

\* ucb_realloc runs out of memory; so does ucb_realloc2(.., false); and
\* ucb_realloc2 is called with size 0 and free_on_failure = false.
RareCases == {"free", "keep", "zero_keep"}

ASSUME AddrsAssumption == IsFiniteSet(Addrs) /\ Null \notin Addrs
ASSUME BoundsAssumption == MaxLevels \in Nat \ {0} /\ Capacity \in Nat \ {0} /\ SizeMod \in Nat \ {0}
ASSUME CasesAssumption == Quiet \in BOOLEAN /\ Failures \subseteq RareCases

VARIABLES
    heap,           \* the blocks allocated from the C heap
    magic,          \* entry->magic
    level,          \* entry->level
    next, prev,     \* entry->next, entry->prev
    head,           \* s_trace_points[l]->alloc
    top,            \* s_trace_level
    current, peak,  \* s_trace_points[l]->current_alloc, ->peak_alloc
    log,            \* the free log, newest record first
    pc,             \* where each thread is
    blk,            \* the block that the thread's call is about
    arg,            \* realloc: the arguments; pop: the tracepoint it has read
    live,           \* history: the blocks that the program holds
    freed,          \* history: the addresses freed and not reused, newest first
    most,           \* history: the most blocks that were ever live at a time
    rare,           \* history: one of the rare cases has occurred
    corrupted       \* an assert has failed, or freed or NULL memory was accessed

lists == <<level, next, prev, head>>
stats == <<current, peak>>
vars == <<heap, magic, level, next, prev, head, top, current, peak, log,
          pc, blk, arg, live, freed, most, rare, corrupted>>

Levels == 0..(MaxLevels - 1)

Init ==
    /\ heap = {} /\ magic = [a \in Addrs |-> "none"]
    /\ level = [a \in Addrs |-> 0]
    /\ next = [a \in Addrs |-> Null] /\ prev = [a \in Addrs |-> Null]
    /\ head = [l \in Levels |-> Null] /\ top = 0
    /\ current = [l \in Levels |-> 0] /\ peak = [l \in Levels |-> 0]
    /\ log = <<>>
    /\ pc = [t \in Threads |-> "out"]
    /\ blk = [t \in Threads |-> Null] /\ arg = [t \in Threads |-> Null]
    /\ live = {} /\ freed = <<>> /\ most = 0 /\ rare = FALSE /\ corrupted = FALSE

-----------------------------------------------------------------------------
(* Helpers.  A definition named ...Mutant above another one is a faulty    *)
(* variant of it, used to show that a property depends on the definition.  *)

Larger(m, n) == IF m > n THEN m ELSE n

\* With Quiet, a thread stays out of the tracker while another one is in a pop.
MayRun(t) == ~corrupted /\ (Quiet => \A u \in Threads \ {t} : pc[u] # "pop")

Goes(t, from, to) == pc[t] = from /\ MayRun(t) /\ pc' = [pc EXCEPT ![t] = to]
Begin(t, from, to)     == Goes(t, from, to) /\ UNCHANGED rare
BeginRare(t, from, to) == Goes(t, from, to) /\ rare' = TRUE

\* A pointer may be followed: it is NULL or leads to a block of the heap.
Safe(ptr) == ptr = Null \/ ptr \in heap
Asserted(ptr) == ptr = Null \/ magic[ptr] = "alloc"

\* The list that starts at ptr, at most as long as there are addresses.
Walk(ptr) ==
    LET chain[n \in 0..Cardinality(Addrs)] ==
            IF n = 0 THEN IF ptr = Null THEN <<>> ELSE <<ptr>>
            ELSE LET c == chain[n - 1]
                 IN  IF c = <<>> \/ next[Last(c)] = Null THEN c ELSE Append(c, next[Last(c)])
    IN  chain[Cardinality(Addrs)]

\* free_table_remove_locked: the record of an address, if there is one.
Without(seq, a) ==
    IF \E i \in DOMAIN seq : seq[i] = a
    THEN RemoveAt(seq, CHOOSE i \in DOMAIN seq : seq[i] = a)
    ELSE seq

\* free_table_insert_locked: the oldest record makes room.
InsertMutant(seq, a) ==
    LET rest == Without(seq, a)
    IN  IF Len(rest) = Capacity THEN rest ELSE <<a>> \o rest
InsertRecord(seq, a) ==
    LET rest == Without(seq, a)
    IN  <<a>> \o (IF Len(rest) = Capacity THEN Front(rest) ELSE rest)

Corrupt ==
    /\ corrupted' = TRUE
    /\ UNCHANGED <<heap, magic, lists, top, stats, log, blk, arg, live,
                   freed, most>>

-----------------------------------------------------------------------------
(* Registering and unregistering an allocation.                            *)

ReuseMutant(a) == log
Reuse(a)       == Without(log, a)   \* drops a stale record of a reused address

\* init_alloc has written the header of block a: magic, size and call site.
Stamp(a) == magic' = [magic EXCEPT ![a] = "alloc"]

\* register_alloc.
Register(t) ==
    LET a == blk[t]
        first == head[top]
    IN  /\ Begin(t, "register", "out")
        /\ IF ~(Safe(first) /\ Asserted(first)) THEN Corrupt ELSE
           /\ log' = Reuse(a) /\ freed' = Without(freed, a)
           /\ level' = [level EXCEPT ![a] = top]
           /\ next' = [next EXCEPT ![a] = first]
           /\ prev' = [b \in Addrs |-> IF b = a THEN Null ELSE IF b = first THEN a ELSE prev[b]]
           /\ head' = [head EXCEPT ![top] = a]
           /\ current' = [current EXCEPT ![top] = (@ + 1) % SizeMod]
           /\ peak' = [peak EXCEPT ![top] = Larger((current[top] + 1) % SizeMod, @)]
           /\ live' = live \cup {a}
           /\ most' = Larger(most, Cardinality(live \cup {a}))
           /\ blk' = [blk EXCEPT ![t] = Null] /\ arg' = [arg EXCEPT ![t] = Null]
           /\ UNCHANGED <<heap, magic, top, corrupted>>

ListOfMutant(a) == top
ListOf(a)       == level[a]     \* the list whose head is moved on

\* unregister_alloc_locked can follow the pointers of a without a failed
\* assertion or an access to memory that is not there.
Unlinkable(a) ==
    /\ Safe(prev[a]) /\ Asserted(prev[a]) /\ Safe(next[a]) /\ Asserted(next[a])
    /\ prev[a] = Null => level[a] <= top

\* Its metrics are those of the current tracepoint, whatever the block's own.
Unregister(a) ==
    /\ magic' = [magic EXCEPT ![a] = "dealloc"]
    /\ current' = [current EXCEPT ![top] = (@ - 1) % SizeMod]
    /\ IF prev[a] # Null
       THEN next' = [next EXCEPT ![prev[a]] = next[a]] /\ UNCHANGED head
       ELSE head' = [head EXCEPT ![ListOf(a)] = next[a]] /\ UNCHANGED next
    /\ prev' = IF next[a] = Null THEN prev ELSE [prev EXCEPT ![next[a]] = prev[a]]
    /\ live' = live \ {a}
    /\ UNCHANGED <<level, peak>>

-----------------------------------------------------------------------------
(* ucb_malloc_debug, ucb_calloc_debug, ucb_free_debug.                     *)

Malloc(t) ==
    /\ Begin(t, "out", "register")
    /\ \E a \in Addrs \ heap :
          heap' = heap \cup {a} /\ Stamp(a) /\ blk' = [blk EXCEPT ![t] = a]
    /\ UNCHANGED <<lists, top, stats, log, arg, live, freed, most, corrupted>>

\* The program frees a live block.  A block found in the free log, or without the
\* magic, is reported and leaked.
Free(t, a) ==
    /\ a \in live
    /\ IF a \in Range(log) \/ magic[a] # "alloc"
       THEN /\ Begin(t, "out", "out")
            /\ live' = live \ {a}
            /\ UNCHANGED <<heap, magic, lists, top, stats, log, blk, arg,
                           freed, most, corrupted>>
       ELSE /\ Begin(t, "out", "free")
            /\ IF ~Unlinkable(a) THEN Corrupt ELSE
               /\ Unregister(a)
               /\ log' = InsertRecord(log, a) /\ freed' = <<a>> \o Without(freed, a)
               /\ blk' = [blk EXCEPT ![t] = a]
               /\ UNCHANGED <<heap, top, arg, most, corrupted>>

HeapFree(t) ==
    /\ Begin(t, "free", "out")
    /\ heap' = heap \ {blk[t]} /\ blk' = [blk EXCEPT ![t] = Null]
    /\ UNCHANGED <<magic, lists, top, stats, log, arg, live, freed, most, corrupted>>

-----------------------------------------------------------------------------
(* ucb_realloc2_debug.                                                     *)

Keeps(t) == arg[t].keep     \* free_on_failure = false

\* The block is taken out of the tracker first.  Without its magic a block is
\* reported, and then the wrong address is given to realloc.
Realloc(t, a, zero, keep) ==
    /\ a \in live
    /\ zero /\ keep => "zero_keep" \in Failures
    /\ Begin(t, "out", IF zero THEN "zero" ELSE "realloc")
    /\ IF magic[a] # "alloc" \/ ~Unlinkable(a) THEN Corrupt ELSE
       /\ Unregister(a)
       /\ blk' = [blk EXCEPT ![t] = a] /\ arg' = [arg EXCEPT ![t] = [keep |-> keep]]
       /\ UNCHANGED <<heap, top, log, freed, most, corrupted>>

\* The C heap resizes the block in place or moves it.
ReallocMoves(t) ==
    /\ Begin(t, "realloc", "register")
    /\ \E b \in {blk[t]} \cup (Addrs \ heap) :
          /\ heap' = (heap \ {blk[t]}) \cup {b}
          /\ Stamp(b) /\ blk' = [blk EXCEPT ![t] = b]
    /\ UNCHANGED <<lists, top, stats, log, arg, live, freed, most, corrupted>>

\* It fails: the old block is registered again ...
ReallocKeeps(t) ==
    /\ BeginRare(t, "realloc", "register")
    /\ Keeps(t) /\ "keep" \in Failures
    /\ UNCHANGED <<heap, magic, lists, top, stats, log, blk, arg, live,
                   freed, most, corrupted>>

\* ... or freed, and the free is recorded later (record_free).
ReallocFrees(t) ==
    /\ BeginRare(t, "realloc", "record")
    /\ ~Keeps(t) /\ "free" \in Failures
    /\ heap' = heap \ {blk[t]}
    /\ UNCHANGED <<magic, lists, top, stats, log, blk, arg, live, freed,
                   most, corrupted>>

RecordFree(t) ==
    /\ \/ Begin(t, "record", "out") /\ blk' = [blk EXCEPT ![t] = Null]
                                    /\ arg' = [arg EXCEPT ![t] = Null]
       \/ Begin(t, "zero", "zero_free") /\ UNCHANGED <<blk, arg>>
    /\ log' = InsertRecord(log, blk[t])
    /\ freed' = <<blk[t]>> \o Without(freed, blk[t])
    /\ UNCHANGED <<heap, magic, lists, top, stats, live, most, corrupted>>

\* realloc to size 0 frees the block, after which the old entry is registered
\* again if free_on_failure is false.
ReallocZero(t) ==
    /\ heap' = heap \ {blk[t]}
    /\ \/ BeginRare(t, "zero_free", "register") /\ Keeps(t) /\ UNCHANGED <<blk, arg>>
       \/ /\ Begin(t, "zero_free", "out") /\ ~Keeps(t)
          /\ blk' = [blk EXCEPT ![t] = Null] /\ arg' = [arg EXCEPT ![t] = Null]
    /\ UNCHANGED <<magic, lists, top, stats, log, live, freed, most, corrupted>>

-----------------------------------------------------------------------------
(* Tracepoints.                                                            *)

\* ucb_mem_tracking_push; beyond the limit it is ignored.
Push(t) ==
    /\ Begin(t, "out", "out") /\ top < MaxLevels - 1
    /\ top' = top + 1
    /\ current' = [current EXCEPT ![top + 1] = 0]
    /\ peak' = [peak EXCEPT ![top + 1] = 0]
    /\ UNCHANGED <<heap, magic, lists, log, blk, arg, live, freed, most, corrupted>>

MergedMutant(l) == UNCHANGED current
Merged(l) == current' = [current EXCEPT ![l - 1] = (@ + current[l]) % SizeMod]

MovedTo(l)       == l - 1       \* the level given to the entries of level l

\* The tracepoint l is removed: its entries go in front of those of the level
\* above, one by one, and its statistics are added to that level's.
Collapse(l, entries) ==
    LET place == [a \in Range(entries) |-> CHOOSE i \in DOMAIN entries : entries[i] = a]
        up == head[l - 1]
        n == Len(entries)
    IN  /\ level' = [a \in Addrs |-> IF a \in Range(entries) THEN MovedTo(l) ELSE level[a]]
        /\ next' = [a \in Addrs |->
                       IF a \notin Range(entries) THEN next[a]
                       ELSE IF place[a] = 1 THEN up ELSE entries[place[a] - 1]]
        /\ prev' = [a \in Addrs |->
                       IF a \in Range(entries)
                       THEN IF place[a] = n THEN Null ELSE entries[place[a] + 1]
                       ELSE IF a = up /\ n > 0 THEN entries[1] ELSE prev[a]]
        /\ head' = [head EXCEPT ![l] = Null, ![l - 1] = IF n > 0 THEN entries[n] ELSE up]
        /\ Merged(l)
        /\ peak' = [peak EXCEPT ![l - 1] = (@ + peak[l]) % SizeMod]
        /\ top' = l - 1
        /\ UNCHANGED <<heap, magic, log, live, freed, most, corrupted>>

\* Freed tracepoint: it is marked as Null in the arguments of the threads that
\* have read it.
Released(t) ==
    [u \in Threads |-> IF u = t \/ (pc[u] = "pop" /\ arg[u] = top) THEN Null ELSE arg[u]]

\* ucb_mem_tracking_pop of a level with no allocation left.
PopClean(t) ==
    /\ Begin(t, "out", "out") /\ top > 0 /\ head[top] = Null
    /\ Collapse(top, <<>>)
    /\ UNCHANGED blk
    /\ arg' = Released(t)

\* It has read the tracepoint and its first entry; s_mutex is released to report
\* the leaks.
PopLeaks(t) ==
    /\ Begin(t, "out", "pop") /\ top > 0 /\ head[top] # Null
    /\ Quiet => \A u \in Threads : pc[u] = "out"
    /\ blk' = [blk EXCEPT ![t] = head[top]] /\ arg' = [arg EXCEPT ![t] = top]
    /\ UNCHANGED <<heap, magic, lists, top, stats, log, live, freed, most, corrupted>>

\* The list is walked from the entry read before, and must belong to the current
\* tracepoint, which must be the one read before.
Stale(l, entries) ==
    \/ l # top
    \/ \E i \in DOMAIN entries :
          ~Safe(entries[i]) \/ level[entries[i]] # top \/ i = Cardinality(Addrs) + 1

\* s_mutex is held again.
PopFinish(t) ==
    LET entries == Walk(blk[t])
    IN  /\ Begin(t, "pop", "out")
        /\ IF Stale(arg[t], entries) THEN Corrupt ELSE
           /\ Collapse(top, entries)
           /\ blk' = [blk EXCEPT ![t] = Null] /\ arg' = Released(t)

\* ucb_mem_tracking_reset.
Reset(t) ==
    /\ Begin(t, "out", "out")
    /\ peak' = [l \in Levels |-> IF l <= top THEN 0 ELSE peak[l]]
    /\ log' = <<>> /\ freed' = <<>> /\ most' = Cardinality(live)
    /\ UNCHANGED <<heap, magic, lists, top, current, blk, arg, live, corrupted>>

Next ==
    \E t \in Threads :
        \/ Malloc(t) \/ Register(t) \/ HeapFree(t)
        \/ \E a \in Addrs : Free(t, a) \/ \E zero, keep \in BOOLEAN : Realloc(t, a, zero, keep)
        \/ ReallocMoves(t) \/ ReallocKeeps(t) \/ ReallocFrees(t)
        \/ RecordFree(t) \/ ReallocZero(t)
        \/ Push(t) \/ PopClean(t) \/ PopLeaks(t) \/ PopFinish(t)
        \/ Reset(t)

Spec == Init /\ [][Next]_vars

-----------------------------------------------------------------------------
(* Properties.                                                             *)

\* Every variable keeps the type of the field it stands for.
TypeOK ==
    /\ heap \subseteq Addrs /\ live \subseteq Addrs /\ top \in Levels
    /\ magic \in [Addrs -> {"none", "alloc", "dealloc"}]
    /\ level \in [Addrs -> Levels] /\ head \in [Levels -> Addrs \cup {Null}]
    /\ next \in [Addrs -> Addrs \cup {Null}] /\ prev \in [Addrs -> Addrs \cup {Null}]
    /\ current \in [Levels -> 0..(SizeMod - 1)] /\ peak \in [Levels -> 0..(SizeMod - 1)]
    /\ log \in Seq(Addrs) /\ Len(log) <= Capacity
    /\ blk \in [Threads -> Addrs \cup {Null}]

\* The entries of the levels in use.
Listed(l) == Range(Walk(head[l]))

\* ucb_mem_is_alloc "Returns true when ptr is the user data pointer of a live
\* allocation": the lists hold the live blocks, each once, doubly linked, at the
\* level it says, whatever pops have moved it meanwhile, and no assert fails.
ListsSound ==
    ~rare =>
    /\ ~corrupted
    /\ live = UNION {Listed(l) : l \in 0..top}
    /\ \A l \in 0..top :
          LET w == Walk(head[l])
          IN  /\ Len(w) = Cardinality(Range(w))
              /\ \A i \in DOMAIN w :
                    /\ level[w[i]] = l /\ w[i] \in heap
                    /\ prev[w[i]] = IF i = 1 THEN Null ELSE w[i - 1]

\* No assert of the tracker fails and no freed memory is accessed.
NotCorrupted == ~corrupted

\* What the levels count adds up to the live blocks (mod SIZE_MAX + 1), although
\* a block freed below the level of its allocation is subtracted there.
CountsAddUp ==
    LET sum[l \in Levels] == current[l] + IF l = 0 THEN 0 ELSE sum[l - 1]
    IN  ~rare => sum[top] % SizeMod = Cardinality(live) % SizeMod

\* The asserts of verify_level: what a level counts is what its list holds.
CountsMatchLists == \A l \in 0..top : current[l] = Cardinality(Listed(l))

\* peak_alloc is the "Max number of allocations at any point", so it is never more
\* than the most blocks that were live at a time since the statistics were reset.
PeakIsReal == \A l \in 0..top : peak[l] <= most

\* A live block has no record in the free log ("prevents false double frees").
NoFalseDoubleFree == \A a \in live : a \notin Range(log)

\* This holds as long as no realloc fails, however soon an address is used again.
ReuseForgotten == ~rare => NoFalseDoubleFree

\* The log forgets the oldest frees first, so that freeing a block again is
\* detected whenever this is detected for a block freed before it.
LogKeepsNewest ==
    \A i \in DOMAIN freed :
        freed[i] \notin Range(log) =>
            \A j \in DOMAIN freed : j > i => freed[j] \notin Range(log)

\* A block in a list of the tracker is a block of the heap, with its magic: the
\* precondition of the asserts on the neighbours of an entry.
ListedHasMagic == \A l \in 0..top : \A a \in Listed(l) : magic[a] = "alloc"
ListedIsAllocated == \A l \in 0..top : Listed(l) \subseteq heap

\* A live block is in the list of one level, and the counts of the levels add up to the
\* live blocks, through every order of the calls of two threads.
BlocksAccounted == ListsSound /\ CountsAddUp

\* The log of frees has no record of an address that is in use again, and keeps the most
\* recent ones.
LogRight == ReuseForgotten /\ LogKeepsNewest

-----------------------------------------------------------------------------
(* For TLC.                                                                *)

\* A realloc that fails may break the tracker for good; what follows is explored
\* until the call returns, without allocations by another thread.
UntilReturn ==
    rare => \E t \in Threads : pc[t] = "record" /\ \A u \in Threads \ {t} : pc[u] = "out"

\* A third address, which lets the free log overflow, is used by one thread alone.
ThirdAddress ==
    Cardinality(heap \cup Range(log)) > 2 =>
        /\ top = 0 /\ Cardinality(heap) <= 1 /\ ~rare
        /\ \E t \in Threads : \A u \in Threads \ {t} : pc[u] = "out"

Symmetric == Permutations(Addrs) \cup Permutations(Threads)
=============================================================================
