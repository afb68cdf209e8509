------------------------------ MODULE ArgHelp ------------------------------
(***************************************************************************)
(* The help texts of src/ucb/argparse.c: interpolation (interp_text) and   *)
(* the layout of an option's help (build_help, append_wrapped).  A text is *)
(* a sequence of lexemes, one column wide each: "%", "(", ")", "s", a      *)
(* word of the interpolation language, "sp", "nl", or any other.           *)
(***************************************************************************)
EXTENDS Integers, Sequences, FiniteSets, SequencesExt

CONSTANTS
    Texts,          \* the texts to interpolate
    Lefts,          \* the widths of the left column: sets, one member of which is the option's
    Widths,         \* the widths of the output, at least MinWidth
    MinWidth,       \* 20 in the code
    Fields          \* what the fields of the option stand for: a function from lexemes to texts

VARIABLES
    phase,          \* "interp", "wrap" or "done"
    option,         \* whether the text belongs to an option: its field, left width
    text, at,       \* the text that is read and how far
    out,            \* the text that is written
    lines, col      \* the lines of the wrapped text, and append_wrapped's col

vars == <<phase, option, text, at, out, lines, col>>

-----------------------------------------------------------------------------
(* A definition named ...Mutant above another one is a faulty variant of   *)
(* it, used to show that a property depends on the definition.             *)

Starts(s, k, piece) == IsPrefix(piece, SubSeq(s, k, Len(s)))
FirstFrom(s, k, c)  == IF \E j \in k..Len(s) : s[j] = c
                       THEN CHOOSE j \in k..Len(s) : s[j] = c /\ \A h \in k..(j - 1) : s[h] # c ELSE 0

FieldTextMutant(name) == IF Len(name) = 1 /\ name[1] \in DOMAIN Fields THEN Fields[name[1]] ELSE name
\* append_field: a name that is no field, or one of an option where there is none, is kept.
FieldText(name) ==
    IF Len(name) = 1 /\ name[1] \in DOMAIN Fields /\ (option.own \/ name[1] = "prog") THEN Fields[name[1]]
    ELSE <<"%", "(">> \o name \o <<")", "s">>

\* What is at a percent sign of s: its length, and the text in place of it.
Directive(s, k) ==
    LET close == FirstFrom(s, k + 2, ")")
    IN CASE Starts(s, k, <<"%", "%">>)       -> [len |-> 2, is |-> <<"%">>]
         [] Starts(s, k, <<"%", "prog">>)    -> [len |-> 2, is |-> Fields["prog"]]
         [] Starts(s, k, <<"%", "default">>) ->
              [len |-> 2, is |-> IF option.own THEN Fields["default"] ELSE <<"%", "default">>]
         [] Starts(s, k, <<"%", "(">>) /\ close # 0 /\ close < Len(s) /\ s[close + 1] = "s" ->
              [len |-> close + 2 - k, is |-> FieldText(SubSeq(s, k + 2, close - 1))]
         [] OTHER -> [len |-> 1, is |-> <<"%">>]

\* What build_help adds to the help of an option with a default that does not name it.
Suffix ==
    IF option.own /\ \A k \in DOMAIN text : ~Starts(text, k, <<"%", "default">>) /\ ~Starts(text, k, <<"%", "(", "default", ")">>)
    THEN <<"sp", "(default:", "sp">> \o Fields["default"] \o <<")">> ELSE <<>>

\* The column of the help texts: two beyond the widest left column, within a limit.
desc_col(lefts, width) ==
    LET widest == CHOOSE l \in lefts : \A m \in lefts : m <= l
        limit  == IF width > MinWidth THEN width - MinWidth ELSE 1
    IN IF widest + 2 > limit THEN limit ELSE widest + 2

-----------------------------------------------------------------------------
Init ==
    /\ phase = "interp" /\ text \in Texts /\ at = 1 /\ out = <<>> /\ lines = <<>> /\ col = 0
    /\ \/ \E lefts \in Lefts, width \in Widths : \E left \in lefts :
            option = [own |-> TRUE, left |-> left, indent |-> desc_col(lefts, width), width |-> width]
       \/ \E width \in Widths :         \* the description
            option = [own |-> FALSE, left |-> 0, indent |-> 0, width |-> width]

\* interp_text, one turn of its loop.
Interpolate ==
    /\ phase = "interp" /\ at <= Len(text)
    /\ LET piece == IF text[at] = "%" THEN Directive(text, at) ELSE [len |-> 1, is |-> <<text[at]>>]
       IN out' = out \o piece.is /\ at' = at + piece.len
    /\ UNCHANGED <<phase, option, text, lines, col>>

\* The left column, and the help on a line of its own if that is too wide.
Lay ==
    /\ phase = "interp" /\ at > Len(text)
    /\ phase' = "wrap" /\ at' = 1 /\ col' = option.indent /\ out' = out \o Suffix
    /\ lines' = IF option.own /\ option.left + 2 > option.indent
                THEN << [start |-> option.left, words |-> <<>>], [start |-> option.indent, words |-> <<>>] >>
                ELSE << [start |-> option.indent, words |-> <<>>] >>
    /\ UNCHANGED <<option, text>>

NewLine == Append(lines, [start |-> option.indent, words |-> <<>>])
OnLast(ls, word) == [ls EXCEPT ![Len(ls)].words = IF word = <<>> THEN @ ELSE Append(@, word)]

Break ==
    /\ phase = "wrap" /\ at <= Len(out) /\ out[at] = "nl"
    /\ lines' = NewLine /\ col' = option.indent /\ at' = at + 1
    /\ UNCHANGED <<phase, option, text, out>>

FitsMutant(len) == col + len <= option.width
\* Whether a word of this length goes on the line, after a space.
Fits(len) == col + 1 + len <= option.width

Word ==
    /\ phase = "wrap" /\ at <= Len(out) /\ out[at] # "nl"
    /\ LET stop == CHOOSE j \in at..(Len(out) + 1) :
                     /\ j = Len(out) + 1 \/ out[j] \in {"sp", "nl"}
                     /\ \A h \in at..(j - 1) : out[h] \notin {"sp", "nl"}
           next == CHOOSE j \in stop..(Len(out) + 1) :
                     /\ j = Len(out) + 1 \/ out[j] # "sp"
                     /\ \A h \in stop..(j - 1) : out[h] = "sp"
           word == SubSeq(out, at, stop - 1)
       IN /\ at' = next
          /\ IF col > option.indent /\ ~Fits(Len(word))
             THEN lines' = OnLast(NewLine, word) /\ col' = option.indent + Len(word)
             ELSE /\ lines' = OnLast(lines, word)
                  /\ col' = col + Len(word) + (IF col > option.indent THEN 1 ELSE 0)
    /\ UNCHANGED <<phase, option, text, out>>

End ==
    /\ phase = "wrap" /\ at > Len(out)
    /\ phase' = "done" /\ UNCHANGED <<option, text, at, out, lines, col>>

Next == Interpolate \/ Lay \/ Break \/ Word \/ End
Spec == Init /\ [][Next]_vars

-----------------------------------------------------------------------------
(* Properties.                                                             *)

\* The ways to cut a text into directives and single lexemes, as the documentation of the
\* interpolation describes them: there is one.
Cuts(s) ==
    {c \in SUBSET DOMAIN s :
        \A k \in DOMAIN s :
            k \in c <=> k = 1 \/ \E j \in c : j < k /\ k = j + (IF s[j] = "%" THEN Directive(s, j).len ELSE 1)}
\* What is meant by a text: each directive stands for its value, %% for one percent sign,
\* and what is unknown or malformed is kept verbatim.
Meant(s) ==
    LET cut == CHOOSE c \in Cuts(s) : TRUE
        Piece(k) == LET later == {j \in cut : j > k} \cup {Len(s) + 1}
                    IN SubSeq(s, k, (CHOOSE j \in later : \A h \in later : j <= h) - 1)
        Recognised(name) == Len(name) = 1 /\ name[1] \in DOMAIN Fields /\ (option.own \/ name[1] = "prog")
        Of(piece) ==
            CASE piece = <<"%", "%">> -> <<"%">>
              [] Len(piece) = 2 /\ piece[1] = "%" /\ piece[2] \in {"prog", "default"} /\ Recognised(<<piece[2]>>) -> Fields[piece[2]]
              [] Len(piece) > 3 /\ Recognised(SubSeq(piece, 3, Len(piece) - 2)) -> Fields[piece[3]]
              [] OTHER -> piece
    IN FlattenSeq([k \in DOMAIN s |-> IF k \in cut THEN Of(Piece(k)) ELSE <<>>])

WordsOf(s) ==
    LET Take(acc, c) == IF c \in {"sp", "nl"} THEN Append(acc, <<>>)
                        ELSE [acc EXCEPT ![Len(acc)] = Append(@, c)]
    IN SelectSeq(FoldLeft(Take, << <<>> >>, s), LAMBDA w : w # <<>>)
Width(line) == line.start + FoldLeft(LAMBDA n, w : n + Len(w), 0, line.words)
               + (IF line.words = <<>> THEN 0 ELSE Len(line.words) - 1)

\* The help of an option says what its text means, word for word, in lines that are no
\* wider than the output unless they are a single word, next to its left column, which
\* the help does not run into.
HelpSays ==
    phase = "done" =>
        /\ FlattenSeq([k \in DOMAIN lines |-> lines[k].words]) = WordsOf(Meant(text) \o Suffix)
        /\ \A k \in DOMAIN lines : Len(lines[k].words) > 1 => Width(lines[k]) <= option.width
        /\ option.own => lines[1].words = <<>> \/ lines[1].start >= option.left + 2
=============================================================================
