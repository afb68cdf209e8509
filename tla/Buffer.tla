------------------------------- MODULE Buffer -------------------------------
(***************************************************************************)
(* ucb_buffer of src/ucb/buffer.c, and its twin on the raw allocator in    *)
(* buffer_private.c: bytes in memory that is the caller's or on the heap,  *)
(* which grows as it is told, is handed over, and is used again.           *)
(***************************************************************************)
EXTENDS Integers, Sequences, SequencesExt

CONSTANTS
    MaxSize,        \* SIZE_MAX
    MaxBlock,       \* the largest block there is memory for
    Sizes,          \* what is pushed, popped, ensured...: their sizes
    None

VARIABLES
    buf,            \* data (the bytes of the block, or None), size, alloc, heap, grow
    handed,         \* what the last transfer gave and what it should have
    want,           \* what the calls say the buffer holds
    call            \* the last call: fn, its size, what can_ensure said, and its result

vars == <<buf, handed, want, call>>

Text(n) == [k \in 1..n |-> IF k % 2 = 1 THEN "a" ELSE "b"]
Junk(n) == [k \in 1..n |-> "?"]
Zeros(n) == [k \in 1..n |-> "0"]
Zeroed  == [data |-> None, size |-> 0, alloc |-> 0, heap |-> FALSE, grow |-> FALSE]

-----------------------------------------------------------------------------
(* A definition named ...Mutant above another one is a faulty variant of   *)
(* it, used to show that a property depends on the definition.             *)

can_ensure(b, n) == n <= b.alloc - b.size \/ (b.heap /\ n <= MaxSize - b.size)

\* ucb_buffer_grow_double: doubled until it is enough, or SIZE_MAX.
grow_double(b, inc) ==
    LET Doubled[cap \in 1..MaxSize] ==
          IF inc <= cap - b.alloc THEN cap
          ELSE IF cap > MaxSize \div 2 THEN MaxSize ELSE Doubled[2 * cap]
    IN Doubled[IF b.alloc = 0 THEN 1 ELSE IF b.alloc <= MaxSize \div 2 THEN 2 * b.alloc ELSE MaxSize]

ClippedMutant(b) == b
\* ucb_buffer_resize: no more is used than there is.
Clipped(b) == [b EXCEPT !.size = IF b.size > b.alloc THEN b.alloc ELSE b.size]

\* realloc of the block, and no block at all for no bytes.
Reallocated(b, cap) ==
    [b EXCEPT !.data = IF cap = 0 THEN None
                       ELSE IF b.data = None THEN Junk(cap)
                       ELSE SubSeq(b.data \o Junk(cap), 1, cap),
              !.alloc = cap]
\* The buffers a resize may leave, with what it returns.  A buffer that is not on the
\* heap aborts, whatever the sizes are.
Resizes(b, cap) ==
    IF ~b.heap THEN {[ret |-> "abort", buf |-> b]}
    ELSE IF cap = b.alloc THEN {[ret |-> "true", buf |-> b]}
    ELSE {[ret |-> "true", buf |-> Clipped(Reallocated(b, c))] : c \in {cap} \cap 0..MaxBlock}
         \cup {[ret |-> "false", buf |-> b] : c \in {cap} \ {0}}
NewCapacity(b, inc) == IF b.grow THEN grow_double(b, inc) ELSE b.alloc + inc
Grows(b, inc) ==
    IF ~b.grow /\ inc > MaxSize - b.alloc THEN {[ret |-> "abort", buf |-> b]}
    ELSE Resizes(b, NewCapacity(b, inc))

MissingMutant(b, n) == n
\* What a buffer lacks for n more bytes.
Missing(b, n) == n - (b.alloc - b.size)
Ensures(b, n) == IF n <= b.alloc - b.size THEN {[ret |-> "true", buf |-> b]} ELSE Grows(b, Missing(b, n))

\* memcpy behind what is used; None if that is beyond the block.
Written(b, bytes) ==
    IF bytes = <<>> THEN b
    ELSE IF b.size + Len(bytes) > b.alloc THEN [b EXCEPT !.data = None, !.size = b.size + Len(bytes)]
    ELSE [b EXCEPT !.data = [k \in 1..b.alloc |-> IF k > b.size /\ k <= b.size + Len(bytes)
                                                   THEN bytes[k - b.size] ELSE b.data[k]],
                   !.size = b.size + Len(bytes)]
Content(b) == IF b.size = 0 THEN <<>> ELSE SubSeq(b.data, 1, b.size)

-----------------------------------------------------------------------------
Running == call.ret # "abort"
Called(fn, n, ret) == call' = [fn |-> fn, n |-> n, could |-> can_ensure(buf, n), ret |-> ret]

Init == buf = Zeroed /\ handed = <<>> /\ want = <<>> /\ call = [fn |-> "none", n |-> 0, could |-> TRUE, ret |-> "true"]

\* Only a buffer without memory is set up: init does not release.
InitStatic ==
    \E n \in Sizes \ {0} :
        /\ Running /\ buf.data = None
        /\ buf' = [Zeroed EXCEPT !.data = Junk(n), !.alloc = n] /\ want' = <<>> /\ handed' = <<>> /\ Called("init", n, "true")
InitHeap ==
    \E n \in Sizes \ {0}, grow \in BOOLEAN :
        /\ Running /\ buf.data = None /\ n <= MaxBlock
        /\ \/ buf' = [data |-> Zeros(n), size |-> 0, alloc |-> n, heap |-> TRUE, grow |-> grow] /\ Called("init", n, "true")
           \/ buf' = Zeroed /\ Called("init", n, "false")
        /\ want' = <<>> /\ handed' = <<>>

\* ucb_buffer_push, push_null and push_formatv, whose text is followed by its terminator.
Push ==
    \E n \in Sizes : \E r \in Ensures(buf, n) :
        /\ Running
        /\ LET done == r.ret = "true"
           IN /\ buf' = IF done THEN Written(r.buf, Text(n)) ELSE r.buf
              /\ want' = IF done THEN want \o Text(n) ELSE want
              /\ Called("push", n, r.ret)
        /\ UNCHANGED handed
Ensure ==
    \E n \in Sizes : \E r \in Ensures(buf, n) :
        Running /\ buf' = r.buf /\ Called("ensure", n, r.ret) /\ UNCHANGED <<want, handed>>
Resize ==
    \E n \in Sizes : \E r \in Resizes(buf, n) :
        /\ Running /\ buf' = r.buf /\ Called("resize", n, r.ret) /\ UNCHANGED handed
        /\ want' = IF r.ret = "true" /\ Len(want) > n THEN SubSeq(want, 1, n) ELSE want
Fit ==
    \E r \in IF buf.size = buf.alloc THEN {[ret |-> "true", buf |-> buf]} ELSE Resizes(buf, buf.size) :
        Running /\ buf' = r.buf /\ Called("fit", 0, r.ret) /\ UNCHANGED <<want, handed>>
\* ucb_buffer_pop and truncate; clear for all that there is.
Drop ==
    \E n \in Sizes :
        /\ Running /\ UNCHANGED handed
        /\ IF n <= buf.size
           THEN buf' = [buf EXCEPT !.size = @ - n] /\ want' = SubSeq(want, 1, Len(want) - n) /\ Called("drop", n, "true")
           ELSE UNCHANGED <<buf, want>> /\ Called("drop", n, "abort")
\* The caller frees what it is handed.
Transfer ==
    /\ Running
    /\ IF buf.heap
       THEN /\ handed' = <<Content(buf), want>> /\ buf' = Zeroed /\ want' = <<>> /\ Called("transfer", 0, "true")
       ELSE UNCHANGED <<buf, want, handed>> /\ Called("transfer", 0, "abort")
\* ucb_buffer_release.  The size and capacity of a buffer on the heap are not reset.
Release ==
    /\ Running /\ buf.data # None
    /\ buf' = IF buf.heap THEN [buf EXCEPT !.data = None] ELSE buf
    /\ want' = <<>> /\ UNCHANGED handed /\ Called("release", 0, "abort")    \* bound: not used any more

Next == InitStatic \/ InitHeap \/ Push \/ Ensure \/ Resize \/ Fit \/ Drop \/ Transfer \/ Release
Spec == Init /\ [][Next]_vars

-----------------------------------------------------------------------------
(* Properties.                                                             *)

\* A buffer holds what the calls on it say, within its block, through every growth,
\* reallocation, truncation and failure; what can be ensured is pushed unless there is
\* no memory, and only what cannot be ensured aborts.
BufferHolds ==
    /\ call.fn \in {"push", "ensure"} => (call.ret = "true" => call.could) /\ (call.ret = "abort" => ~call.could)
    /\ Running =>
        /\ buf.size <= buf.alloc /\ (buf.alloc > 0 => buf.data # None /\ Len(buf.data) = buf.alloc)
        /\ Content(buf) = want
        /\ call.fn = "transfer" => handed[1] = handed[2]

\* buffer.h: push returns "false if buffer is full and cannot grow".
PushReturns == call.fn = "push" => call.ret # "abort"
=============================================================================
