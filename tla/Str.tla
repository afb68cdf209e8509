--------------------------------- MODULE Str --------------------------------
(***************************************************************************)
(* ucb_str of src/ucb/string.c: strings that own a block of memory, with   *)
(* calls that take slices of the string they change, allocations that      *)
(* fail, and a caller that adopts and abandons blocks.                     *)
(*                                                                         *)
(* A block is the sequence of its bytes: "a", the two bytes "L" and "T" of *)
(* a character, "0" for NUL and "?" for what has not been written.         *)
(***************************************************************************)
EXTENDS Integers, Sequences, SequencesExt, FiniteSets

CONSTANTS
    Strings,        \* the ucb_str objects
    MaxSize,        \* bound: bytes in a string
    FlushAt         \* bytes after which encode_codepoints pushes (4 * UCB_UC_MAX_MULTI_LEN)

VARIABLES
    str,            \* each string: data (a block, or what is not its own) and size
    loose,          \* a block the caller owns, or Null
    call            \* history: what the last call has said, and what it has done

vars == <<str, loose, call>>

Null       == [own |-> FALSE, bytes |-> <<>>]
Empty      == [own |-> FALSE, bytes |-> <<"0">>]        \* the interned ""
Own(bytes) == [own |-> TRUE, bytes |-> bytes]
Freed      == [own |-> FALSE, bytes |-> <<"?">>]        \* a block that realloc has released
IsBlock(d) == d.own
Block(d)   == d.bytes

\* A slice is of a string's own memory; anything else is the caller's.
Foreign(bytes)         == [of |-> "caller", bytes |-> bytes]
Slice(s, start, bytes) == [of |-> s, start |-> start, bytes |-> bytes]

NoCall == [s |-> "none", ok |-> TRUE, excuse |-> {}, done |-> TRUE, same |-> TRUE]

Interned == [data |-> Empty, size |-> 0]
Zeroed   == [data |-> Null, size |-> 0]
Init == str = [s \in Strings |-> Interned] /\ loose = Null /\ call = NoCall

-----------------------------------------------------------------------------
(* A definition named ...Mutant above another one is a faulty variant of   *)
(* it, used to show that a property depends on the definition.             *)

Bytes(x)  == IF IsBlock(x.data) THEN SubSeq(Block(x.data), 1, x.size) ELSE <<>>
Alloc(x)  == IF IsBlock(x.data) THEN Len(Block(x.data)) ELSE 0
Blank(n)  == [k \in 1..n |-> "?"]
\* A block that holds bytes, terminated, with room for more.
Filled(bytes, alloc) == Own(SubSeq(bytes \o <<"0">> \o Blank(alloc), 1, alloc))

Valid(bytes) ==
    \A k \in DOMAIN bytes :
        /\ bytes[k] \in {"a", "L", "T"}
        /\ bytes[k] = "L" => k < Len(bytes) /\ bytes[k + 1] = "T"
        /\ bytes[k] = "T" => k > 1 /\ bytes[k - 1] = "L"
Texts == UNION {{t \in [1..n -> {"a", "L", "T"}] : Valid(t)} : n \in 0..2}

\* What a caller may pass to change s: its own text, or a piece of s.
Sources(s) ==
    {Foreign(t) : t \in Texts \ {<<>>}}
    \cup {Slice(s, k, SubSeq(Bytes(str[s]), k, n)) : k \in 1..str[s].size, n \in 1..str[s].size}
Given(s) == {src \in Sources(s) : Len(src.bytes) \in 1..2 /\ Valid(src.bytes)}

AliasesMutant(src, x) == FALSE
Aliases(src, x) == src.of # "caller" /\ IsBlock(x.data)

\* A source that was not copied out before its block was reallocated, or moved within it.
Stale(src) == Blank(Len(src.bytes))

\* A call that should have made s wanted: what it says (a call without a result says that
\* it has failed when an error is reported), why, and whether it is true.
Asked(s, wanted, ok, excuse) ==
    call' = [s |-> s, ok |-> ok, excuse |-> excuse,
             done |-> Bytes(str'[s]) = wanted, same |-> Bytes(str'[s]) = Bytes(str[s])]
Set(s, x) == str' = [str EXCEPT ![s] = x]

-----------------------------------------------------------------------------
(* Construction, assignment and release.                                   *)

\* ucb_str_init_common on what a string's memory holds: a failed malloc leaves the
\* size and the allocation of the block that was released.
InitCommon(s, bytes) == [data |-> Filled(bytes, Len(bytes) + 1), size |-> Len(bytes)]
InitFails(x) == [data |-> Null, size |-> x.size]

\* init, new and clear; the string is empty or released.
NewStr(s) ==
    /\ ~IsBlock(str[s].data)
    /\ \E t \in Texts :
        \/ Set(s, InitCommon(s, t)) /\ Asked(s, t, TRUE, {})
        \/ Set(s, Zeroed) /\ Asked(s, t, FALSE, {"memory"})
    /\ UNCHANGED loose
Assign(s) ==
    /\ \E src \in Given(s) :
        LET bytes == IF Aliases(src, str[s]) \/ src.of = "caller" THEN src.bytes ELSE Stale(src) IN
        \/ Set(s, InitCommon(s, bytes)) /\ Asked(s, src.bytes, TRUE, {})
        \/ /\ Aliases(src, str[s])                      \* no memory for the copy
           /\ UNCHANGED str /\ Asked(s, src.bytes, FALSE, {"memory"})
        \/ Set(s, InitFails(str[s])) /\ Asked(s, src.bytes, FALSE, {"memory", "lost"})
    /\ UNCHANGED loose
Copy(s, t) ==
    /\ str[t].data # Null
    /\ IF s = t THEN UNCHANGED str /\ Asked(s, Bytes(str[t]), TRUE, {})
       ELSE \/ Set(s, InitCommon(s, Bytes(str[t]))) /\ Asked(s, Bytes(str[t]), TRUE, {})
            \/ Set(s, InitFails(str[s])) /\ Asked(s, Bytes(str[t]), FALSE, {"memory", "lost"})
    /\ UNCHANGED loose
Clear(s) == Set(s, Interned) /\ Asked(s, <<>>, TRUE, {}) /\ UNCHANGED loose
Release(s) == Set(s, Zeroed) /\ Asked(s, <<>>, TRUE, {}) /\ UNCHANGED loose

Abandon(s) ==
    /\ loose = Null /\ IsBlock(str[s].data)
    /\ loose' = str[s].data
    /\ Set(s, Zeroed) /\ Asked(s, <<>>, TRUE, {})
\* The length is measured: up to the first NUL of the block.
Adopt(s) ==
    /\ IsBlock(loose)
    /\ LET nul == CHOOSE k \in DOMAIN Block(loose) :
                    Block(loose)[k] = "0" /\ \A j \in 1..(k - 1) : Block(loose)[j] # "0"
       IN Set(s, [data |-> loose, size |-> nul - 1]) /\ Asked(s, SubSeq(Block(loose), 1, nul - 1), TRUE, {})
    /\ loose' = Null

-----------------------------------------------------------------------------
(* Memory.                                                                 *)

Usable(s) == str[s].data # Null

Outcome(x, ok, excuse) == [str |-> x, ok |-> ok, excuse |-> excuse]
\* ucb_realloc has freed the block when it fails; data, size and alloc are not changed.
ReallocFails(x) == Outcome([x EXCEPT !.data = Freed], FALSE, {"memory", "lost"})

Fit(s) ==
    /\ IF IsBlock(str[s].data) /\ Alloc(str[s]) > str[s].size + 1
       THEN \E r \in {Outcome([str[s] EXCEPT !.data = Filled(Bytes(str[s]), str[s].size + 1)], TRUE, {}),
                      ReallocFails(str[s])} :
               Set(s, r.str) /\ Asked(s, Bytes(str[s]), r.ok, r.excuse)
       ELSE UNCHANGED str /\ Asked(s, Bytes(str[s]), FALSE, {"fitted"})
    /\ UNCHANGED loose

GrownMutant(x, n) == [x EXCEPT !.data = Filled(Bytes(x), x.size + n)]
\* The string after reserve has allocated; the terminator is written again.
Grown(x, n) == [x EXCEPT !.data = Filled(Bytes(x), x.size + n + 1)]
\* What ucb_str_reserve may make of a string.  If there is room already it says false.
Reserves(x, n) ==
    IF IsBlock(x.data) /\ n = 0 THEN {Outcome(x, TRUE, {})}
    ELSE IF IsBlock(x.data) /\ Alloc(x) >= n + x.size + 1 THEN {Outcome(x, FALSE, {"room"})}
    ELSE {Outcome(Grown(x, n), TRUE, {}),
          IF IsBlock(x.data) THEN ReallocFails(x) ELSE Outcome(x, FALSE, {"memory"})}

Reserve(s) ==
    /\ Usable(s)
    /\ \E n \in {0, 1, 3} : \E r \in Reserves(str[s], n) :
        Set(s, r.str) /\ Asked(s, Bytes(str[s]), r.ok, r.excuse)
    /\ UNCHANGED loose

-----------------------------------------------------------------------------
(* Appending and inserting.                                                *)

\* insert_at and append_cstr: bytes at byte position pos of s; the tail moves up.
Inserted(x, pos, bytes) ==
    LET text == SubSeq(Bytes(x), 1, pos) \o bytes \o SubSeq(Bytes(x), pos + 1, x.size)
    IN [data |-> Filled(text, Alloc(x)), size |-> Len(text)]

\* The caller is not told of the failures that are hidden.
InsertBytes(s, pos, src, hidden) ==
    LET bytes  == IF Aliases(src, str[s]) \/ src.of = "caller" THEN src.bytes ELSE Stale(src)
        n      == Len(bytes)
        wanted == SubSeq(Bytes(str[s]), 1, pos) \o src.bytes \o SubSeq(Bytes(str[s]), pos + 1, str[s].size)
    IN /\ n > 0 /\ str[s].size + n <= MaxSize
       /\ \/ \E r \in Reserves(str[s], n) :
                IF r.ok THEN Set(s, Inserted(r.str, pos, bytes)) /\ Asked(s, wanted, TRUE, {})
                ELSE /\ Set(s, r.str)
                     /\ IF r.excuse \cap hidden = {} THEN Asked(s, wanted, FALSE, r.excuse)
                        ELSE Asked(s, wanted, TRUE, r.excuse \cup {"untold"})
          \/ /\ Aliases(src, str[s])                   \* no memory for the copy of a slice
             /\ UNCHANGED str /\ Asked(s, wanted, FALSE, {"memory"})

\* Nothing is said of an append that reserve has refused because there is room.
Append_cstr(s) ==
    /\ Usable(s) /\ \E src \in Given(s) : InsertBytes(s, str[s].size, src, {"room"})
    /\ UNCHANGED loose

MapCharPosMutant(bytes, index) == index
\* ucb_str_map_char_pos: the byte position of a character.
MapCharPos(bytes, index) ==
    CHOOSE k \in 0..Len(bytes) :
        /\ Cardinality({j \in 1..k : bytes[j] # "T"}) = index
        /\ k = Len(bytes) \/ bytes[k + 1] # "T"
NumChar(bytes) == Cardinality({j \in DOMAIN bytes : bytes[j] # "T"})

\* The index is not past the last character: that aborts.
Insert_cstr(s) ==
    /\ Usable(s)
    /\ \E src \in Given(s), index \in 0..NumChar(Bytes(str[s])) :
        InsertBytes(s, MapCharPos(Bytes(str[s]), index), src, {"room"})
    /\ UNCHANGED loose

\* Code points: of one byte, of two, and one that cannot be encoded.
Codepoints == UNION {[1..n -> {"a", "W", "bad"}] : n \in 1..2}
EncodedCp(c) == CASE c = "a" -> <<"a">> [] c = "W" -> <<"L", "T">> [] OTHER -> <<>>
Encodes(cps) == \A k \in DOMAIN cps : cps[k] # "bad"
Encoding(cps) == FlattenSeq([k \in DOMAIN cps |-> EncodedCp(cps[k])])
\* What encode_codepoints has pushed when it comes to the code point that is bad: the
\* chunks that were full.
PushedBefore(cps) ==
    LET first == CHOOSE k \in 1..Len(cps) : cps[k] = "bad" /\ \A j \in 1..(k - 1) : cps[j] # "bad"
        Chunk[k \in 0..(first - 1)] ==
            IF k = 0 THEN [done |-> <<>>, open |-> <<>>]
            ELSE LET open == Chunk[k - 1].open \o EncodedCp(cps[k])
                 IN IF Len(open) >= FlushAt THEN [done |-> Chunk[k - 1].done \o open, open |-> <<>>]
                    ELSE [done |-> Chunk[k - 1].done, open |-> open]
    IN Chunk[first - 1].done
\* Bytes written after the end of the text, over the terminator; the size is not changed.
Overwritten(x, bytes) ==
    [x EXCEPT !.data = Own([k \in DOMAIN Block(x.data) |->
                    IF k \in (x.size + 1)..(x.size + Len(bytes)) THEN bytes[k - x.size] ELSE Block(x.data)[k]])]

\* The encoder writes into the reserved room, four bytes for each code point.
Append_cp(s) ==
    /\ Usable(s)
    /\ \E cps \in Codepoints :
        LET wanted == Bytes(str[s]) \o Encoding(cps) IN
        /\ Len(wanted) <= MaxSize
        /\ \E r \in Reserves(str[s], 4 * Len(cps)) :
            IF ~r.ok THEN Set(s, r.str) /\ Asked(s, wanted, FALSE, r.excuse)
            ELSE IF Encodes(cps)
            THEN Set(s, Inserted(r.str, str[s].size, Encoding(cps))) /\ Asked(s, wanted, TRUE, {})
            ELSE /\ Set(s, Overwritten(r.str, PushedBefore(cps)))
                 /\ Asked(s, wanted, FALSE, {"codepoint"})
    /\ UNCHANGED loose
\* insert_cp encodes into a buffer of its own (no memory for it aborts), and returns that
\* the code points are valid whether or not insert_at has inserted them.
Insert_cp(s) ==
    /\ Usable(s)
    /\ \E cps \in Codepoints, index \in 0..(NumChar(Bytes(str[s])) + 1) :
        \/ /\ Encodes(cps) /\ index <= NumChar(Bytes(str[s]))
           /\ InsertBytes(s, MapCharPos(Bytes(str[s]), index), Foreign(Encoding(cps)), {"room", "memory"})
        \/ /\ ~Encodes(cps) \/ index > NumChar(Bytes(str[s]))
           /\ UNCHANGED str /\ Asked(s, <<>>, FALSE, {IF Encodes(cps) THEN "range" ELSE "codepoint"})
    /\ UNCHANGED loose

-----------------------------------------------------------------------------
(* Strings from strings.                                                   *)

\* concat and substr make a new string, here in the place of one that owns nothing.
Concat(s, t) ==
    /\ Usable(t) /\ ~IsBlock(str[s].data)
    /\ LET text == Bytes(str[t]) \o Bytes(str[t]) IN
       /\ Len(text) <= MaxSize
       /\ \/ Set(s, IF text = <<>> THEN Interned ELSE InitCommon(s, text)) /\ Asked(s, text, TRUE, {})
          \/ UNCHANGED str /\ Asked(s, text, FALSE, {"memory"})
    /\ UNCHANGED loose
\* A length of 0 makes ucb_str_new measure the rest of the text.
Substr(s, t) ==
    /\ Usable(t) /\ ~IsBlock(str[s].data)
    /\ \E start \in 0..str[t].size : \E end \in start..str[t].size :
        LET part == SubSeq(Bytes(str[t]), start + 1, end)
            new  == IF start = end THEN SubSeq(Bytes(str[t]), start + 1, str[t].size) ELSE part
        IN /\ Valid(part) /\ Valid(new)
           /\ \/ Set(s, InitCommon(s, new)) /\ Asked(s, part, TRUE, IF start = end THEN {"tail"} ELSE {})
              \/ UNCHANGED str /\ Asked(s, part, FALSE, {"memory"})
    /\ UNCHANGED loose
\* to_lower, to_upper, to_title, casefold and normalize adopt a new block.
Transform(s) ==
    /\ Usable(s)
    /\ LET new == [k \in DOMAIN Bytes(str[s]) |-> Bytes(str[s])[k]] IN
       \/ Set(s, InitCommon(s, new)) /\ Asked(s, new, TRUE, {})
       \/ UNCHANGED str /\ Asked(s, new, FALSE, {"memory"})
    /\ UNCHANGED loose

Next ==
    \/ \E s \in Strings :
        \/ NewStr(s) \/ Assign(s) \/ Clear(s) \/ Release(s) \/ Abandon(s) \/ Adopt(s)
        \/ Fit(s) \/ Reserve(s) \/ Append_cstr(s) \/ Insert_cstr(s) \/ Append_cp(s) \/ Insert_cp(s) \/ Transform(s)
    \/ \E s, t \in Strings : Copy(s, t) \/ Substr(s, t) \/ Concat(s, t)

Spec == Init /\ [][Next]_vars

-----------------------------------------------------------------------------
(* Queries.                                                                *)

find(text, sub, pos) ==
    LET at == {k \in pos..(Len(text) - Len(sub)) : SubSeq(text, k + 1, k + Len(sub)) = sub}
    IN IF sub = <<>> THEN 0 ELSE IF at = {} THEN -1 ELSE CHOOSE k \in at : \A j \in at : k <= j
startswith(text, prefix) == Len(prefix) <= Len(text) /\ SubSeq(text, 1, Len(prefix)) = prefix
endswith(text, suffix) ==
    Len(suffix) <= Len(text) /\ SubSeq(text, Len(text) - Len(suffix) + 1, Len(text)) = suffix

-----------------------------------------------------------------------------
(* Properties.                                                             *)

\* Every string is valid, ends within its block and is terminated there, unless the
\* last call on it has lost its block (without memory, a copy, an assignment, or the growth
\* or fitting of a block) or was an append of code points that could not be encoded.
Sound(x) ==
    /\ x.data # Freed
    /\ ~IsBlock(x.data) => x.size = 0
    /\ IsBlock(x.data) => Alloc(x) > x.size /\ Block(x.data)[x.size + 1] = "0" /\ Valid(Bytes(x))
StringsSound == \A s \in Strings : Sound(str[s]) \/ (call.s = s /\ call.excuse \cap {"lost", "codepoint"} # {})

\* A call has its whole effect, on the string before the call whatever piece of the
\* string it was given.  One that has not leaves the text as it was, or has lost the block
\* for want of memory, and it says that it has failed, unless it is an append or insertion
\* that reserve has refused or insert_cp, which do not look.  A substring of nothing is the
\* rest of the text.
WholeEffect ==
    \/ call.done /\ call.ok
    \/ /\ call.excuse # {} /\ (call.same \/ "lost" \in call.excuse)
       /\ call.ok => "untold" \in call.excuse
    \/ call.excuse = {"tail"}

\* string.h:52-53: the data of a string is there, and null-terminated.
Terminated ==
    \A s \in Strings : /\ str[s].data # Freed
                      /\ IsBlock(str[s].data) => Block(str[s].data)[str[s].size + 1] = "0"

\* string.h:383-392: reserve is a no-op if there is room, and so an append that finds
\* room appends.
RoomIsUsed == "room" \notin call.excuse

\* string.h:759: insert_cp returns true if the code points were inserted, and the other
\* calls that succeed have done what they are asked to.
SaysTrue == call.ok => call.done
=============================================================================
