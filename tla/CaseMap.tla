------------------------------- MODULE CaseMap ------------------------------
(***************************************************************************)
(* Case mapping and case-insensitive comparison in src/ucb/unicode.c, on   *)
(* an alphabet with a mapping of every kind: none, to one code point, to   *)
(* several, and a title case of its own.                                   *)
(***************************************************************************)
EXTENDS Integers, Sequences, SequencesExt

CONSTANTS
    Texts

VARIABLES
    op,             \* "upper", "lower", "title", "fold" or "icomp"
    str,            \* <<the text>>, or the two that are compared
    pos,            \* code points read of each
    last,           \* ctx.last_cp, or "none"
    dst,            \* the destination buffer
    pending,        \* of each text, what has been folded and not yet compared
    result          \* "none", the text, -1, 0, 1 or "failed"

vars == <<op, str, pos, last, dst, pending, result>>

Ops == {"upper", "lower", "title", "fold"}
Init ==
    /\ \/ op \in Ops /\ str \in [1..1 -> Texts]
       \/ op = "icomp" /\ str \in [1..2 -> Texts]
    /\ pos = [n \in DOMAIN str |-> 0]
    /\ pending = [n \in DOMAIN str |-> <<>>]
    /\ last = "none" /\ dst = <<>> /\ result = "none"

-----------------------------------------------------------------------------
(* A definition named ...Mutant above another one is a faulty variant of   *)
(* it, used to show that a property depends on the definition.             *)

\* The mapping tables; what is not in one maps to itself.
Mapping ==
    [ upper |-> [ a |-> <<"A">>, sharp |-> <<"S", "S">>, dz |-> <<"DZ">>, s |-> <<"S">> ],
      lower |-> [ A |-> <<"a">>, DZ |-> <<"dz">>, S |-> <<"s">> ],
      title |-> [ a |-> <<"A">>, sharp |-> <<"S", "s">>, dz |-> <<"Dz">>, DZ |-> <<"Dz">>, s |-> <<"S">> ],
      fold  |-> [ A |-> <<"a">>, sharp |-> <<"s", "s">>, DZ |-> <<"dz">>, S |-> <<"s">> ] ]
Lookup(f, c) == IF c \in DOMAIN Mapping[f] THEN Mapping[f][c] ELSE <<c>>

is_word_separator(c) == c \in {"space", "!"}        \* "'", which is punctuation, is not

AtWordStartMutant(before) == before = "none"
AtWordStart(before) == before = "none" \/ is_word_separator(before)

\* ucb_uc_case_map_cp.  A NUL is kept, and not remembered.
Mapped(f, before, c) ==
    CASE c = "NUL"    -> <<c>>
      [] c # "NUL" /\ f = "title" -> IF AtWordStart(before) THEN Lookup("title", c) ELSE Lookup("lower", c)
      [] OTHER        -> Lookup(f, c)

-----------------------------------------------------------------------------
(* ucb_uc_case_map.                                                        *)

MapOne ==
    /\ op \in Ops /\ result = "none" /\ pos[1] < Len(str[1])
    /\ LET c == str[1][pos[1] + 1] IN
       /\ dst' = dst \o Mapped(op, last, c)
       /\ last' = IF c = "NUL" THEN last ELSE c
    /\ pos' = [pos EXCEPT ![1] = @ + 1]
    /\ UNCHANGED <<op, str, pending, result>>
MapFails ==
    /\ op \in Ops /\ result = "none" /\ result' = "failed"
    /\ UNCHANGED <<op, str, pos, last, dst, pending>>
MapDone ==
    /\ op \in Ops /\ result = "none" /\ pos[1] = Len(str[1])
    /\ result' = "mapped"
    /\ UNCHANGED <<op, str, pos, last, dst, pending>>

-----------------------------------------------------------------------------
(* ucb_uc_icomp and the iterator under it.                                 *)

LeftOverMutant(folded) == <<>>
\* What the iterator keeps of a folded code point after returning its first.
LeftOver(folded) == Tail(folded)

\* ucb_uc_fold_iter_next of text n: what it returns, and what it has kept and read.
FoldNext(n) ==
    CASE pending[n] # <<>> ->
            [has |-> TRUE, cp |-> Head(pending[n]), kept |-> Tail(pending[n]), read |-> pos[n]]
      [] pending[n] = <<>> /\ pos[n] = Len(str[n]) ->
            [has |-> FALSE, cp |-> "none", kept |-> <<>>, read |-> pos[n]]
      [] OTHER ->
            LET folded == Mapped("fold", "none", str[n][pos[n] + 1])
            IN [has |-> TRUE, cp |-> Head(folded), kept |-> LeftOver(folded), read |-> pos[n] + 1]

\* The order of the code points.
Order == <<"NUL", "space", "!", "'", "A", "S", "a", "s", "sharp", "DZ", "Dz", "dz">>
Rank(c) == CHOOSE n \in DOMAIN Order : Order[n] = c

CompareOne ==
    /\ op = "icomp" /\ result = "none"
    /\ LET f == FoldNext(1)
           g == FoldNext(2)
       IN /\ result' = CASE ~f.has /\ ~g.has -> "equal"
                         [] ~f.has /\ g.has  -> "before"
                         [] f.has /\ ~g.has  -> "after"
                         [] OTHER            -> CASE f.cp = g.cp -> "none"
                                                  [] Rank(f.cp) < Rank(g.cp) -> "before"
                                                  [] OTHER -> "after"
          /\ pending' = <<f.kept, g.kept>> /\ pos' = <<f.read, g.read>>
    /\ UNCHANGED <<op, str, last, dst>>

Next == MapOne \/ MapFails \/ MapDone \/ CompareOne

Spec == Init /\ [][Next]_vars

-----------------------------------------------------------------------------
(* Properties.                                                             *)

\* The words of a text: maximal stretches without a separator.
StartsWord(s, n) == n = 1 \/ s[n - 1] \in {"space", "!"}
Folded(s) == FlattenSeq([n \in DOMAIN s |-> Lookup("fold", s[n])])
\* The lexicographic order of two sequences.
Precedes(s, t) ==
    \E n \in 0..Len(s) :
        /\ n <= Len(t) /\ SubSeq(s, 1, n) = SubSeq(t, 1, n)
        /\ n < Len(t) /\ (n = Len(s) \/ Rank(s[n + 1]) < Rank(t[n + 1]))

\* In a text without NULs a title is the title case of the first character of each word
\* and the lower case of the others; an apostrophe is within a word.  A comparison is the
\* one of the two foldings, also where a character folds into several that meet the
\* characters of the other text one by one.
CaseMapped ==
    /\ result = "mapped" /\ op # "title" => dst = FlattenSeq([n \in DOMAIN str[1] |-> Lookup(op, str[1][n])])
    /\ result = "mapped" /\ op = "title" /\ "NUL" \notin {str[1][n] : n \in DOMAIN str[1]} =>
        dst = FlattenSeq([n \in DOMAIN str[1] |->
                            Lookup(IF StartsWord(str[1], n) THEN "title" ELSE "lower", str[1][n])])
    /\ op = "icomp" => /\ result = "equal" => Folded(str[1]) = Folded(str[2])
                       /\ result = "before" => Precedes(Folded(str[1]), Folded(str[2]))
                       /\ result = "after" => Precedes(Folded(str[2]), Folded(str[1]))
=============================================================================
