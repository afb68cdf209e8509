------------------------------ MODULE Grapheme ------------------------------
(***************************************************************************)
(* Extended grapheme clusters in src/ucb/unicode.c (UAX #29).  A text is a *)
(* sequence of code points of which only the properties the rules look at  *)
(* are kept: gcb, incb and extpict.  A position is the number of code      *)
(* points before it.                                                       *)
(*                                                                         *)
(* A behaviour is a scan of a text from its start, as num_char and         *)
(* char_index make it, and then the calls of next_char, which reconstructs *)
(* the state of the scan at the boundary it is given.                      *)
(***************************************************************************)
EXTENDS Integers, Sequences

CONSTANTS
    Texts,
    Npos            \* UCB_NPOS

VARIABLES
    step,           \* "scan", "walk" or "walked"
    text,
    iter,           \* how far the scan, or the walk, has come
    st,             \* the scanner's state: ri_odd, gb11, incb_seq, incb_linker
    bounds,         \* the boundaries the scan has found
    visited         \* those that next_char has returned

vars == <<step, text, iter, st, bounds, visited>>

Zero == [ri_odd |-> FALSE, gb11 |-> 0, incb_seq |-> FALSE, incb_linker |-> FALSE]

Init ==
    /\ text \in Texts
    /\ step = "scan" /\ iter = 0 /\ st = Zero /\ bounds = <<>> /\ visited = <<>>

-----------------------------------------------------------------------------
(* A definition named ...Mutant above another one is a faulty variant of   *)
(* it, used to show that a property depends on the definition.             *)

Gcb(k)     == text[k].gcb
Incb(k)    == text[k].incb
Extpict(k) == text[k].extpict

IsRI(k)     == Gcb(k) = "RI"
IsExtend(k) == Gcb(k) = "EXTEND" /\ ~Extpict(k)
IsIncb(k)   == Incb(k) \in {"EXTEND", "LINKER"}

\* ucb_uc_grapheme_update, with the code point at k.
Update(s, k) ==
    [ri_odd      |-> Gcb(k) = "RI" /\ ~s.ri_odd,
     gb11        |-> CASE Extpict(k) -> 1
                       [] ~Extpict(k) /\ Gcb(k) = "EXTEND" /\ s.gb11 \in {1, 2} -> 2
                       [] ~Extpict(k) /\ Gcb(k) = "ZWJ" /\ s.gb11 \in {1, 2} -> 3
                       [] OTHER -> 0,
     incb_seq    |-> Incb(k) = "CONSONANT" \/ (s.incb_seq /\ IsIncb(k)),
     incb_linker |-> s.incb_seq /\ (Incb(k) = "LINKER" \/ (Incb(k) = "EXTEND" /\ s.incb_linker))]

Breaks == {"CONTROL", "CR", "LF"}
\* ucb_uc_grapheme_should_break, between the code points at k and k + 1: the rules that
\* keep them together, in the order of the code where it matters.
Joined(s, k) ==
    LET a == Gcb(k)
        b == Gcb(k + 1)
    IN \/ a = "CR" /\ b = "LF"                                                  \* GB3
       \/ /\ a \notin Breaks /\ b \notin Breaks                                 \* GB4, GB5
          /\ \/ a = "L" /\ b \in {"L", "V", "LV", "LVT"}                        \* GB6
             \/ a \in {"LV", "V"} /\ b \in {"V", "T"}                           \* GB7
             \/ a \in {"LVT", "T"} /\ b = "T"                                   \* GB8
             \/ b \in {"EXTEND", "ZWJ", "SPACINGMARK"}                          \* GB9, GB9a
             \/ a = "PREPEND"                                                   \* GB9b
             \/ s.incb_seq /\ s.incb_linker /\ Incb(k + 1) = "CONSONANT"        \* GB9c
             \/ s.gb11 = 3 /\ Extpict(k + 1)                                    \* GB11
             \/ a = "RI" /\ b = "RI" /\ s.ri_odd                                \* GB12, GB13

-----------------------------------------------------------------------------
(* ucb_uc_num_char and ucb_uc_char_index.                                  *)

ScanFirst ==
    /\ step = "scan" /\ iter = 0 /\ Len(text) > 0
    /\ st' = Update(st, 1) /\ iter' = 1
    /\ UNCHANGED <<step, text, bounds, visited>>
Scan ==
    /\ step = "scan" /\ iter \in 1..(Len(text) - 1)
    /\ bounds' = IF Joined(st, iter) THEN bounds ELSE Append(bounds, iter)
    /\ st' = Update(st, iter + 1) /\ iter' = iter + 1
    /\ UNCHANGED <<step, text, visited>>
Scanned ==
    /\ step = "scan" /\ iter = Len(text)
    /\ step' = "walk" /\ iter' = 0
    /\ UNCHANGED <<text, st, bounds, visited>>

num_char == IF text = <<>> THEN 0 ELSE Len(bounds) + 1
\* The end of the index-th cluster; of the text if there is no such cluster.
char_index(index) == IF index \in 1..Len(bounds) THEN bounds[index] ELSE Len(text)

-----------------------------------------------------------------------------
(* ucb_uc_next_char.                                                       *)

\* The number of code points before a position that are all of one kind.
TrailingRun(from, kind) ==
    LET Run[k \in 0..from] == IF k \in kind THEN Run[k - 1] + 1 ELSE 0 IN Run[from]
RIs     == {k \in DOMAIN text : IsRI(k)}
Extends == {k \in DOMAIN text : IsExtend(k)}
Incbs   == {k \in DOMAIN text : IsIncb(k)}

OddBeforeMutant(from) == TrailingRun(from + 1, RIs) % 2 = 1
OddBefore(from) == TrailingRun(from, RIs) % 2 = 1
\* ... Extended_Pictographic Extend* ZWJ
PictBefore(from) ==
    /\ from > 0 /\ Gcb(from) = "ZWJ"
    /\ LET k == from - 1 - TrailingRun(from - 1, Extends) IN k > 0 /\ Extpict(k)
\* ... Consonant [Extend Linker]*
Consonant(from) == from - TrailingRun(from, Incbs)
SeqBefore(from) == Consonant(from) > 0 /\ Incb(Consonant(from)) = "CONSONANT"

\* ucb_uc_grapheme_state_at.
StateAt(from) ==
    [ri_odd      |-> OddBefore(from),
     gb11        |-> IF PictBefore(from) THEN 3 ELSE 0,
     incb_seq    |-> SeqBefore(from),
     incb_linker |-> SeqBefore(from) /\ \E k \in (Consonant(from) + 1)..from : Incb(k) = "LINKER"]

\* ucb_uc_grapheme_next_from: the state after each code point from the first on.
NextFrom(from) ==
    LET S[k \in (from + 1)..Len(text)] == Update(IF k = from + 1 THEN StateAt(from) ELSE S[k - 1], k)
        ends == {k \in (from + 1)..(Len(text) - 1) : ~Joined(S[k], k)}
    IN IF ends = {} THEN Npos ELSE CHOOSE k \in ends : \A j \in ends : k <= j

next_char(from) == IF from >= Len(text) THEN Npos ELSE NextFrom(from)

Walk ==
    /\ step = "walk" /\ next_char(iter) # Npos
    /\ iter' = next_char(iter) /\ visited' = Append(visited, next_char(iter))
    /\ UNCHANGED <<step, text, st, bounds>>
Walked ==
    /\ step = "walk" /\ next_char(iter) = Npos
    /\ step' = "walked"
    /\ UNCHANGED <<text, iter, st, bounds, visited>>

Next == ScanFirst \/ Scan \/ Scanned \/ Walk \/ Walked

Spec == Init /\ [][Next]_vars

-----------------------------------------------------------------------------
(* Properties.                                                             *)

\* The rules of UAX #29 as regular expressions over the text before and after a
\* position, without a scanner.
Before(k, j, Is(_)) == \A n \in j..k : Is(n)
KeptTogether(k) ==
    LET a == Gcb(k)
        b == Gcb(k + 1)
        RunOfRI == CHOOSE n \in 1..k : Before(k, k - n + 1, IsRI) /\ (n < k => ~IsRI(k - n))
    IN \/ a = "CR" /\ b = "LF"
       \/ /\ a \notin Breaks /\ b \notin Breaks
          /\ \/ a = "L" /\ b \in {"L", "V", "LV", "LVT"}
             \/ a \in {"LV", "V"} /\ b \in {"V", "T"}
             \/ a \in {"LVT", "T"} /\ b = "T"
             \/ b \in {"EXTEND", "ZWJ", "SPACINGMARK"} \/ a = "PREPEND"
             \/ /\ Incb(k + 1) = "CONSONANT"
                /\ \E j \in 1..(k - 1) :
                    /\ Incb(j) = "CONSONANT" /\ Before(k, j + 1, IsIncb)
                    /\ \E n \in (j + 1)..k : Incb(n) = "LINKER"
             \/ /\ Extpict(k + 1) /\ a = "ZWJ"
                /\ \E j \in 1..(k - 1) : Extpict(j) /\ \A n \in (j + 1)..(k - 1) : Gcb(n) = "EXTEND"
             \/ a = "RI" /\ b = "RI" /\ RunOfRI % 2 = 1

\* A boundary is where no rule keeps two code points together; the scan finds them all,
\* and next_char, although it sees only the text around the boundary it starts from,
\* visits the same ones in the same order, and stops at the last.
ClustersAgree ==
    /\ step = "scan" => \A k \in 1..(iter - 1) : (\E n \in DOMAIN bounds : bounds[n] = k) <=> ~KeptTogether(k)
    /\ step # "scan" => \A n \in DOMAIN visited : n <= Len(bounds) /\ visited[n] = char_index(n)
    /\ step = "walked" => Len(visited) = Len(bounds) /\ (text # <<>> => num_char = Len(visited) + 1)
=============================================================================
