-------------------------------- MODULE CStr ---------------------------------
(***************************************************************************)
(* C strings on the heap, src/ucb/cstring.c: each function that makes one  *)
(* allocates a block and fills it.  A block is a sequence of characters,   *)
(* "?" where nothing has been written; "0" is the terminating one.         *)
(***************************************************************************)
EXTENDS Integers, SequencesExt

CONSTANTS
    Strings,            \* the contents that arguments may have
    MaxArgs,            \* bounds the arguments of concat
    Null

VARIABLES
    call,               \* the function and its arguments
    block,              \* the block it returns, or Null
    offset              \* concatv: where the next argument goes

vars == <<call, block, offset>>

Pointers == Strings \cup {Null}
Args     == UNION {[1..n -> Strings] : n \in 0..MaxArgs}

Init ==
    /\ block = Null /\ offset = 0
    /\ \/ \E s \in Pointers, n \in 0..3 : call = [op |-> "ndup", str |-> s, max |-> n]
       \/ \E s \in Pointers : call = [op |-> "dup", str |-> s]
       \/ \E s \in Strings, a \in Args : call = [op |-> "concat", str |-> s, args |-> a, next |-> 0]
       \/ \E s \in Strings, count \in 0..3, fits \in BOOLEAN :
             call = [op |-> "print", str |-> s, count |-> count, fails |-> ~fits]

-----------------------------------------------------------------------------
(* A definition named ...Mutant above another one is a faulty variant of   *)
(* it, used to show that a property depends on the definition.             *)

\* ucb_cstr_len and ucb_cstr_nlen.
CLen(s)     == IF s = Null THEN 0 ELSE Len(s)
NLen(s, n)  == IF s = Null THEN 0 ELSE IF Len(s) < n THEN Len(s) ELSE n

Malloc(n) == [k \in 1..n |-> "?"]
Memcpy(b, at, s, n) == [k \in DOMAIN b |-> IF k \in (at + 1)..(at + n) THEN s[k - at] ELSE b[k]]
Terminate(b, n) == [b EXCEPT ![n + 1] = "0"]
Done == call' = [op |-> "done", of |-> call]

Dup ==
    /\ call.op = "dup" /\ Done /\ UNCHANGED offset
    /\ LET n == CLen(call.str)
       IN  block' = IF call.str = Null THEN Null
                    ELSE Terminate(Memcpy(Malloc(n + 1), 0, call.str, n), n)

NDup ==
    /\ call.op = "ndup" /\ Done /\ UNCHANGED offset
    /\ LET n == NLen(call.str, call.max)
       IN  block' = IF call.str = Null THEN Null
                    ELSE Terminate(Memcpy(Malloc(n + 1), 0, call.str, n), n)

\* concatv counts the arguments, allocates and copies the first.
Total(s, a) == FoldLeft(LAMBDA n, x : n + Len(x), Len(s), a)
ConcatBegin ==
    /\ call.op = "concat" /\ call.next = 0
    /\ LET size == Total(call.str, call.args)
       IN  IF size = 0 THEN Done /\ UNCHANGED <<block, offset>>
           ELSE /\ block' = Memcpy(Malloc(size + 1), 0, call.str, Len(call.str))
                /\ offset' = Len(call.str) /\ call' = [call EXCEPT !.next = 1]

\* Then one argument after the other.
PastMutant(at, n) == n
Past(at, n)       == at + n
ConcatNext ==
    /\ call.op = "concat" /\ call.next \in DOMAIN call.args
    /\ LET x == call.args[call.next]
       IN  block' = Memcpy(block, offset, x, Len(x)) /\ offset' = Past(offset, Len(x))
    /\ call' = [call EXCEPT !.next = @ + 1]

ConcatEnd ==
    /\ call.op = "concat" /\ call.next = Len(call.args) + 1
    /\ block' = Terminate(block, Total(call.str, call.args)) /\ Done /\ UNCHANGED offset

\* vsnprintf of a text that formats to str: it writes at most count - 1 characters.
Format ==
    /\ call.op = "print" /\ ~call.fails /\ Done /\ UNCHANGED offset
    /\ LET n == NLen(call.str, call.count - 1)
       IN  block' = IF call.count = 0 THEN Null
                    ELSE Terminate(Memcpy(Malloc(call.count), 0, call.str, n), n)
FormatFails ==
    /\ call.op = "print" /\ call.fails /\ Done /\ UNCHANGED <<block, offset>>

\* ucb_cstr_vasprintf: prints into nothing for the length, and then into a block of it.
Asprintf ==
    /\ call.op = "done" /\ call.of.op = "print" /\ call.of.count = 0 /\ ~call.of.fails
    /\ call' = [op |-> "print", str |-> call.of.str, count |-> Len(call.of.str) + 1, fails |-> FALSE]
    /\ UNCHANGED <<block, offset>>

Next == Dup \/ NDup \/ ConcatBegin \/ ConcatNext \/ ConcatEnd \/ Format \/ FormatFails \/ Asprintf
Spec == Init /\ [][Next]_vars

-----------------------------------------------------------------------------
(* Properties.                                                             *)

\* What a function returns is terminated, has no character that was not written, and is
\* the text asked for, however the arguments are divided; there is none for nothing.
Text(c) ==
    CASE c.op = "ndup"   -> IF c.str = Null THEN Null ELSE SubSeq(c.str, 1, NLen(c.str, c.max))
      [] c.op = "dup"    -> c.str
      [] c.op = "concat" -> IF c.str \o FlattenSeq(c.args) = <<>> THEN Null ELSE c.str \o FlattenSeq(c.args)
      [] c.op = "print"  -> IF c.count = 0 \/ c.fails THEN Null
                            ELSE SubSeq(c.str, 1, NLen(c.str, c.count - 1))
BlocksWhole ==
    call.op = "done" =>
        LET text == Text(call.of)
        IN  IF text = Null THEN block = Null
            ELSE block # Null /\ IsPrefix(Append(text, "0"), block)
=============================================================================
