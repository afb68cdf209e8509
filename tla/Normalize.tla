------------------------------ MODULE Normalize -----------------------------
(***************************************************************************)
(* Normalization in src/ucb/unicode.c (UAX #15), on an alphabet of a few   *)
(* characters that has every kind of entry of the property tables.  The    *)
(* reordering window, the buffer of code points and the composition in     *)
(* place are the code's; the growth of the two and the UTF-8 around them   *)
(* are left out.                                                           *)
(***************************************************************************)
EXTENDS Integers, Sequences, SequencesExt, FiniteSets

CONSTANTS
    Texts           \* the texts that are normalized

VARIABLES
    step,           \* "quick", "decompose", "compose", "done" or "failed"
    form,           \* [compose, compat]
    text,
    k,              \* code points read
    window,         \* cp_buf, len
    cps,            \* ctx.cp: what has been flushed
    i               \* the position of norm_compose in it, from 1

vars == <<step, form, text, k, window, cps, i>>

-----------------------------------------------------------------------------
(* The tables: marks of two classes, letters that decompose in one or two  *)
(* steps, a singleton and a pair that must not be composed again, two      *)
(* letters that compose, a compatibility character, and Hangul.            *)

Ccc(c) ==
    CASE c \in {"grave", "acute"} -> 230
      [] c = "dot"                -> 220
      [] OTHER                    -> 0

Canonical ==
    [ agrave |-> <<"a", "grave">>, adot |-> <<"a", "dot">>, adotgrave |-> <<"adot", "grave">>,
      angstrom |-> <<"agrave">>, excluded |-> <<"b", "grave">>, oo |-> <<"o", "p">>,
      twomarks |-> <<"grave", "dot">>, LV |-> <<"L", "V">>, LVT |-> <<"L", "V", "T">> ]
Compatibility == [ ligature |-> <<"b", "a">> ]

Syllables == {"LV", "LVT"}
\* What composes, in the combiner tables; syllables do by arithmetic.
Composable == {"agrave", "adot", "adotgrave", "oo"}
\* The flags of the quick check.
CompExcl  == {"angstrom", "excluded", "twomarks"}
NfkcNo    == CompExcl \cup {"ligature"}
CompMaybe == {"grave", "dot", "p"}

Composed(c, d) ==
    LET of == {x \in Composable : Canonical[x] = <<c, d>>} IN IF of = {} THEN "none" ELSE CHOOSE x \in of : TRUE

-----------------------------------------------------------------------------
(* A definition named ...Mutant above another one is a faulty variant of   *)
(* it, used to show that a property depends on the definition.             *)

Forms == [compose : BOOLEAN, compat : BOOLEAN]

Init ==
    /\ form \in Forms /\ text \in Texts
    /\ step \in {"quick", "decompose"}          \* ucb_uc_normalize, ucb_uc_normalize_full
    /\ k = 0 /\ window = <<>> /\ cps = <<>> /\ i = 2

\* ucb_uc_is_normalized: the canonical order, and no code point that may change.
QuickChange(c) ==
    IF form.compose
    THEN c \notin Syllables /\ (c \in CompMaybe \cup (IF form.compat THEN NfkcNo ELSE CompExcl) \/ c \in {"V", "T"})
    ELSE c \in DOMAIN Canonical \/ (form.compat /\ c \in DOMAIN Compatibility)
OrderedMutant(c, d) == TRUE
Ordered(c, d) == Ccc(d) = 0 \/ Ccc(c) <= Ccc(d)
is_normalized ==
    /\ \A n \in DOMAIN text : ~QuickChange(text[n])
    /\ \A n \in 1..(Len(text) - 1) : Ordered(text[n], text[n + 1])

Quick ==
    /\ step = "quick"
    /\ IF is_normalized
       THEN step' = "done" /\ cps' = text /\ k' = Len(text)
       ELSE step' = "decompose" /\ UNCHANGED <<cps, k>>
    /\ UNCHANGED <<form, text, window, i>>

-----------------------------------------------------------------------------
(* normalize.                                                              *)

\* norm_decompose_cp and norm_decompose_hangul: a code point and, in turn, what it
\* decomposes to.
Decomposition(c) ==
    LET Entry == [x \in DOMAIN Canonical \cup DOMAIN Compatibility |->
                    IF x \in DOMAIN Canonical THEN Canonical[x] ELSE Compatibility[x]]
        Splits(x) == x \in DOMAIN Canonical \/ (x \in DOMAIN Compatibility /\ form.compat)
        Level(s) == FlattenSeq([n \in 1..Len(s) |-> IF Splits(s[n]) THEN Entry[s[n]] ELSE <<s[n]>>])
    IN Level(Level(Level(<<c>>)))

\* norm_ctx_add: a mark moves left past marks of higher classes.
BubbledMutant(w, c) == Append(w, c)
Bubbled(w, c) ==
    LET stays == IF Ccc(c) = 0 THEN Len(w)
                 ELSE CHOOSE n \in 0..Len(w) : /\ n = 0 \/ Ccc(w[n]) <= Ccc(c)
                                               /\ \A m \in (n + 1)..Len(w) : Ccc(w[m]) > Ccc(c)
    IN SubSeq(w, 1, stays) \o <<c>> \o SubSeq(w, stays + 1, Len(w))

\* One code point of a decomposition: a starter first flushes the window.
Added(state, c) ==
    IF Ccc(c) = 0 THEN [window |-> <<c>>, cps |-> state.cps \o state.window]
    ELSE [state EXCEPT !.window = Bubbled(state.window, c)]

Decompose ==
    /\ step = "decompose" /\ k < Len(text)
    /\ LET added == FoldLeft(Added, [window |-> window, cps |-> cps], Decomposition(text[k + 1]))
           flush == text[k + 1] \in Syllables \/ Ccc(Last(added.window)) = 0
       IN IF flush THEN window' = <<>> /\ cps' = added.cps \o added.window
          ELSE window' = added.window /\ cps' = added.cps
    /\ k' = k + 1
    /\ UNCHANGED <<step, form, text, i>>
FlushRest ==
    /\ step = "decompose" /\ k = Len(text)
    /\ cps' = cps \o window /\ window' = <<>>
    /\ step' = IF form.compose THEN "compose" ELSE "done"
    /\ UNCHANGED <<form, text, k, i>>
OutOfMemory ==
    /\ step = "decompose"
    /\ step' = "failed" /\ window' = <<>> /\ cps' = <<>>
    /\ UNCHANGED <<form, text, k, i>>

-----------------------------------------------------------------------------
(* norm_compose.                                                           *)

Composing == step = "compose" /\ i <= Len(cps)

ComposeHangul ==
    /\ Composing /\ cps[i - 1] = "L" /\ cps[i] = "V"
    /\ LET t == i < Len(cps) /\ cps[i + 1] = "T"
           shift == IF t THEN 2 ELSE 1
       IN cps' = SubSeq(cps, 1, i - 2) \o <<IF t THEN "LVT" ELSE "LV">> \o SubSeq(cps, i + shift, Len(cps))
    /\ UNCHANGED <<step, form, text, k, window, i>>

BlockedMutant(j) == Ccc(cps[j]) = 0
\* The code point at j keeps the one at i from those further left.
Blocked(j) == Ccc(cps[j]) = 0 \/ Ccc(cps[j]) >= Ccc(cps[i])

\* The position, at most j, of what the code point at i composes with, or 0.
Partner ==
    LET Seek[j \in 0..(i - 1)] ==
          IF j = 0 \/ Composed(cps[j], cps[i]) # "none" THEN j ELSE IF Blocked(j) THEN 0 ELSE Seek[j - 1]
    IN Seek[i - 1]

Compose ==
    /\ Composing /\ ~(cps[i - 1] = "L" /\ cps[i] = "V")
    /\ IF Partner > 0
       THEN cps' = RemoveAt([cps EXCEPT ![Partner] = Composed(cps[Partner], cps[i])], i) /\ i' = i
       ELSE i' = i + 1 /\ cps' = cps
    /\ UNCHANGED <<step, form, text, k, window>>
ComposeDone ==
    /\ step = "compose" /\ i > Len(cps)
    /\ step' = "done"
    /\ UNCHANGED <<form, text, k, window, cps, i>>

Next ==
    \/ Quick \/ Decompose \/ FlushRest \/ OutOfMemory
    \/ ComposeHangul \/ Compose \/ ComposeDone

Spec == Init /\ [][Next]_vars

-----------------------------------------------------------------------------
(* Properties.                                                             *)

\* UAX #15: s is in canonical order if no two neighbours are out of it, and the
\* decomposition of a text is the ordered one that keeps starters where they are and
\* marks of one class in their order.
InOrder(s) == \A n \in 1..(Len(s) - 1) : Ccc(s[n + 1]) = 0 \/ Ccc(s[n]) <= Ccc(s[n + 1])
Starters(s) == [n \in DOMAIN s |-> Cardinality({m \in 1..n : Ccc(s[m]) = 0})]
SameButOrder(s, t) ==
    /\ Len(s) = Len(t)
    /\ \A cell \in (0..Len(s)) \X {0, 220, 230} :
        LET Of(u) == LET at == {n \in DOMAIN u : Starters(u)[n] = cell[1] /\ Ccc(u[n]) = cell[2]}
                     IN SelectSeq([n \in DOMAIN u |-> IF n \in at THEN u[n] ELSE "-"], LAMBDA x : x # "-")
        IN Of(s) = Of(t)
Decomposed(s) == FlattenSeq([n \in DOMAIN s |-> Decomposition(s[n])])

\* D115: a code point is blocked from an earlier starter by one between them that is a
\* starter or of no lower class.
CanStillCompose(s, n) ==
    \E m \in 1..(n - 1) :
        /\ Ccc(s[m]) = 0
        /\ \A b \in (m + 1)..(n - 1) : Ccc(s[b]) # 0 /\ Ccc(s[b]) < Ccc(s[n])
        /\ Composed(s[m], s[n]) # "none" \/ <<s[m], s[n]>> \in {<<"L", "V">>, <<"LV", "T">>}

\* The result is the canonical decomposition, in order, of the text, or has it and is as
\* far composed as the standard requires: so equivalent texts have equal results, what is
\* normalized is not changed by normalizing it again, and the quick check, which returns
\* the text itself, says "normalized" of nothing that is not.
ResultIsNormal ==
    step = "done" =>
        LET full == Decomposed(cps) IN
        /\ SameButOrder(full, Decomposed(text))
        /\ IF form.compose
           THEN /\ InOrder(cps)
                /\ \A n \in DOMAIN cps : ~CanStillCompose(cps, n) /\ cps[n] \notin CompExcl
                /\ form.compat => \A n \in DOMAIN cps : cps[n] \notin DOMAIN Compatibility
           ELSE InOrder(cps) /\ cps = full
=============================================================================
