-------------------------------- MODULE Path --------------------------------
(***************************************************************************)
(* ucb_path of src/ucb/path.c, as it is built on POSIX: parsing, the       *)
(* setters, joining, lexical normalization, parts and parents, and the     *)
(* caches that are rebuilt when they are read.  Strings are sequences of   *)
(* characters, because what matters is where the separators and dots are.  *)
(***************************************************************************)
EXTENDS Integers, Sequences, SequencesExt

CONSTANTS
    Inputs,         \* the strings a path is made from
    Others,         \* those that are given to the setters and to append
    Budget(_)       \* bound: how many calls are made on the path made from an input

VARIABLES
    p,              \* the path: dir, stem, ext, style, and the caches name, cache, dirty
    call,           \* the last call, the path before it and its argument
    left            \* calls that may still be made

vars == <<p, call, left>>

Slash     == "/"
Styles    == {"POSIX", "WINDOWS"}
sep_of(style) == IF style = "POSIX" THEN "/" ELSE "\\"

-----------------------------------------------------------------------------
(* A definition named ...Mutant above another one is a faulty variant of   *)
(* it, used to show that a property depends on the definition.             *)

\* path_is_sep, and path_sep_match: the separators of input and of a style.
Input       == {Slash}
SepsOf(sep) == {Slash, sep}

\* path_detect_anchor: two separators, if there is no third, or one.
AnchorLen(s, Seps) ==
    IF s = <<>> \/ s[1] \notin Seps THEN 0
    ELSE IF Len(s) >= 2 /\ s[2] \in Seps /\ (Len(s) < 3 \/ s[3] \notin Seps) THEN 2 ELSE 1
Anchor(s, Seps, sep) == [k \in 1..AnchorLen(s, Seps) |-> IF s[k] \in Seps THEN sep ELSE s[k]]
AfterAnchor(s, Seps) == SubSeq(s, AnchorLen(s, Seps) + 1, Len(s))

\* The segments between separators.
Segments(s, Seps) ==
    LET Take(acc, c) ==
          IF c \in Seps THEN [open |-> FALSE, segs |-> acc.segs]
          ELSE IF acc.open THEN [acc EXCEPT !.segs[Len(acc.segs)] = Append(@, c)]
          ELSE [open |-> TRUE, segs |-> Append(acc.segs, <<c>>)]
    IN FoldLeft(Take, [open |-> FALSE, segs |-> <<>>], s).segs

\* A segment after what there is, with a separator unless that ends in one.
With(s, seg, sep) == IF s = <<>> \/ Last(s) = sep THEN s \o seg ELSE Append(s, sep) \o seg

\* path_build_dir.  A separator after the anchor is pending when the first segment
\* comes, and is added to the anchor.
Dir(s, sep) ==
    LET rest   == AfterAnchor(s, Input)
        anchor == Anchor(s, Input, sep)
        segs   == Segments(rest, Input)
    IN IF segs = <<>> THEN anchor
       ELSE FoldLeft(LAMBDA s2, seg : Append(s2, sep) \o seg,
                     (IF rest[1] \in Input /\ anchor # <<>> THEN Append(anchor, sep) ELSE anchor) \o Head(segs),
                     Tail(segs))

\* How many dots a string starts with.
LeadingDots(s) == CHOOSE n \in 0..Len(s) : (\A k \in 1..n : s[k] = ".") /\ (n = Len(s) \/ s[n + 1] # ".")
\* path_parse_filename: where the extension starts, or 0: not at the first character, nor
\* within leading dots, nor at the last.
Dot(s) ==
    LET dots == {k \in 2..(Len(s) - 1) : s[k] = "." /\ k > LeadingDots(s)}
    IN IF dots = {} THEN 0 ELSE CHOOSE k \in dots : \A j \in dots : j <= k
Stem(s) == IF Dot(s) = 0 THEN s ELSE SubSeq(s, 1, Dot(s) - 1)
Ext(s)  == IF Dot(s) = 0 THEN <<>> ELSE SubSeq(s, Dot(s), Len(s))

\* The position of the last separator, or 0.
LastSep(s, Seps) ==
    LET at == {k \in DOMAIN s : s[k] \in Seps} IN IF at = {} THEN 0 ELSE CHOOSE k \in at : \A j \in at : j <= k
FileName(s) == SubSeq(s, LastSep(s, Input) + 1, Len(s))

\* path_parse, keeping the caches.
Parse(path, s, style) ==
    [path EXCEPT !.dir = Dir(SubSeq(s, 1, LastSep(s, Input)), sep_of(style)),
                 !.stem = Stem(FileName(s)), !.ext = Ext(FileName(s)), !.style = style, !.dirty = TRUE]
Made == [dir |-> <<>>, stem |-> <<>>, ext |-> <<>>, style |-> "POSIX",
         name |-> <<>>, cache |-> <<>>, dirty |-> TRUE]

Name(path) == path.stem \o path.ext
\* path_compose_to.
Composed(path) == IF Name(path) = <<>> THEN path.dir ELSE With(path.dir, Name(path), sep_of(path.style))
Same(a, b) == Composed(a) = Composed(b)             \* ucb_path_equals

is_absolute(path) == path.dir # <<>> /\ path.dir[1] \in SepsOf(sep_of(path.style))

\* ucb_path_parts.
Parts(path) ==
    LET sep    == sep_of(path.style)
        anchor == Anchor(path.dir, SepsOf(sep), sep)
    IN (IF anchor = <<>> THEN <<>> ELSE <<anchor>>) \o Segments(AfterAnchor(path.dir, SepsOf(sep)), SepsOf(sep))
       \o (IF Name(path) = <<>> THEN <<>> ELSE <<Name(path)>>)

-----------------------------------------------------------------------------
(* Normalization and parents.                                              *)

PopsMutant(stack, anchored) == stack # <<>>
\* Whether ".." removes the last segment: not when there is none to remove.
Pops(stack, anchored) == stack # <<>> /\ Last(stack) # <<".", ".">>

\* path_normalize_lexical: the segments that remain.
Resolved(segs, anchored) ==
    LET Step(stack, seg) ==
          CASE seg = <<".">> -> stack
            [] seg = <<".", ".">> /\ Pops(stack, anchored) -> Front(stack)
            [] seg = <<".", ".">> /\ ~Pops(stack, anchored) -> IF anchored THEN stack ELSE Append(stack, seg)
            [] OTHER -> Append(stack, seg)
    IN FoldLeft(Step, <<>>, segs)
Normal(s, sep) ==
    LET anchor == Anchor(s, SepsOf(sep), sep)
        kept   == Resolved(Segments(AfterAnchor(s, SepsOf(sep)), SepsOf(sep)), anchor # <<>>)
    IN IF anchor = <<>> /\ kept = <<>> /\ s # <<>> THEN <<".">>
       ELSE FoldLeft(LAMBDA s2, seg : With(s2, seg, sep), anchor, kept)

ParentOfMutant(path) == [path EXCEPT !.stem = <<>>, !.ext = <<>>, !.dirty = TRUE]
\* ucb_path_parent: without its name, or its last segment, or only its anchor.
ParentOf(path) ==
    LET sep  == sep_of(path.style)
        n    == AnchorLen(path.dir, SepsOf(sep))
        cut  == LastSep(path.dir, SepsOf(sep)) - 1
    IN [path EXCEPT !.stem = <<>>, !.ext = <<>>, !.dirty = TRUE,
                    !.dir = IF Name(path) # <<>> THEN path.dir
                            ELSE IF cut <= n THEN Anchor(path.dir, SepsOf(sep), sep)
                            ELSE SubSeq(path.dir, 1, cut)]

\* ucb_path_parents: up to what is its own parent, or empty.
Parents(path) ==
    LET Up[n \in 0..Len(Composed(path))] ==
          IF n = 0 THEN <<ParentOf(path)>>
          ELSE LET last == Last(Up[n - 1]) IN Append(Up[n - 1], ParentOf(last))
        all == Up[Len(Composed(path))]
        ends == {n \in 1..Len(all) : Composed(all[n]) = <<>> \/ Same(all[n], IF n = 1 THEN path ELSE all[n - 1])}
        first == CHOOSE n \in ends : \A m \in ends : n <= m
    IN IF Composed(path) = <<>> THEN <<>> ELSE SubSeq(all, 1, first - 1)

-----------------------------------------------------------------------------
(* The calls.                                                              *)

Init ==
    \E s \in Inputs, style \in Styles :
        /\ p = Parse(Made, s, style)
        /\ call = [fn |-> "new", before |-> Made, arg |-> s]
        /\ left = Budget(s)

Called(fn, arg, after) ==
    /\ left > 0 /\ left' = left - 1
    /\ call' = [fn |-> fn, before |-> p, arg |-> arg] /\ p' = after

Assign      == \E s \in Others : Called("assign", s, Parse(p, s, p.style))
SetDir      == \E s \in Others : Called("set_dir", s, [p EXCEPT !.dir = Dir(s, sep_of(p.style)), !.dirty = TRUE])
SetFilename == \E s \in Others : Slash \notin Range(s) /\ Called("set_filename", s, [p EXCEPT !.stem = Stem(s), !.ext = Ext(s), !.dirty = TRUE])
SetStem     == \E s \in Others : Slash \notin Range(s) /\ Called("set_stem", s, [p EXCEPT !.stem = s, !.dirty = TRUE])
\* A dot of its own, whatever dots the argument starts with.
SetExt ==
    \E s \in Others :
        /\ Slash \notin Range(s)
        /\ LET bare == SubSeq(s, LeadingDots(s) + 1, Len(s))
           IN Called("set_ext", s, [p EXCEPT !.ext = IF bare = <<>> THEN <<>> ELSE <<".">> \o bare, !.dirty = TRUE])

InvalidatesMutant(path) == path
\* path->_dirty = true.
Invalidates(path) == [path EXCEPT !.dirty = TRUE]

\* The name of the base becomes a segment of its directory.
Appended(path, other) ==
    LET sep  == sep_of(path.style)
        base == IF Name(path) = <<>> THEN path.dir ELSE With(path.dir, Name(path), sep)
    IN IF is_absolute(other)
       THEN Invalidates([path EXCEPT !.dir = other.dir, !.stem = other.stem, !.ext = other.ext, !.style = other.style])
       ELSE Invalidates([path EXCEPT !.dir = IF other.dir = <<>> THEN base ELSE With(base, other.dir, sep),
                                     !.stem = other.stem, !.ext = other.ext])
AppendStr  == \E s \in Others : Called("append", s, Appended(p, Parse(Made, s, p.style)))
AppendSelf == Called("append_self", <<>>, Appended(p, p))
Normalize  == Called("normalize", <<>>, Parse(p, Normal(Composed(p), sep_of(p.style)), p.style))
SetStyle ==
    \E style \in Styles :
        Called("set_style", <<>>,
               [p EXCEPT !.dir = IF sep_of(style) = sep_of(p.style) THEN @
                                 ELSE [k \in DOMAIN @ |-> IF @[k] \in SepsOf(sep_of(p.style)) THEN sep_of(style) ELSE @[k]],
                         !.style = style, !.dirty = TRUE])
Clear == Called("clear", <<>>, [Made EXCEPT !.style = p.style])
Parent == Called("parent", <<>>, ParentOf(p))
\* path_update, for cstr, str and filename.  Without memory the path stays dirty.
Update ==
    Called("update", <<>>,
           IF p.dirty THEN [p EXCEPT !.name = Name(p), !.cache = Composed(p), !.dirty = FALSE] ELSE p)

Next ==
    \/ Assign \/ SetDir \/ SetFilename \/ SetStem \/ SetExt \/ AppendStr \/ AppendSelf
    \/ Normalize \/ SetStyle \/ Clear \/ Parent \/ Update

Spec == Init /\ [][Next]_vars

-----------------------------------------------------------------------------
(* Properties.                                                             *)

\* What the caches hold is what the path is, unless they will be rebuilt.
CachesFresh == ~p.dirty => p.cache = Composed(p) /\ p.name = Name(p)

\* The parts that are written: the separators as POSIX reads them.
Written(s) ==
    LET slashes == CHOOSE n \in 0..Len(s) : (\A k \in 1..n : s[k] = Slash) /\ (n = Len(s) \/ s[n + 1] # Slash)
    IN (IF slashes = 0 THEN <<>> ELSE IF slashes = 2 THEN << <<Slash, Slash>> >> ELSE << <<Slash>> >>)
       \o Segments(s, {Slash})
\* With the separators of POSIX in place of those of the style.
Plain(parts) == IF parts # <<>> /\ Head(parts)[1] = "\\"
                THEN <<[k \in DOMAIN Head(parts) |-> Slash]>> \o Tail(parts) ELSE parts
\* Three slashes or more before a directory, which become two: SeparatorsCollapsed.
Odd(s) == Len(s) >= 3 /\ SubSeq(s, 1, 3) = <<Slash, Slash, Slash>>
\* A name that holds the separator of its style: only normalize makes one, see NormalizeKeepsDir.
Blurred(path) == "\\" \in Range(Name(path))

\* The segments of a normalized path: no ".", and ".." only in front of a relative path.
IsNormal(parts, anchored) ==
    \A k \in DOMAIN parts :
        /\ parts[k] = <<".">> => parts = << <<".">> >>
        /\ parts[k] = <<".", ".">> => ~anchored /\ \A j \in 1..k : parts[j] = <<".", ".">>
\* Where a path leads from a directory that is deep enough, if no name is a link: how
\* far up, and then down which names.
Leads(parts) ==
    FoldLeft(LAMBDA at, part :
        CASE part = <<".">> -> at
          [] part = <<".", ".">> -> IF at.down # <<>> THEN [at EXCEPT !.down = Front(@)]
                                    ELSE IF at.root = <<>> THEN [at EXCEPT !.up = @ + 1] ELSE at
          [] part[1] = Slash -> [at EXCEPT !.root = part]
          [] OTHER -> [at EXCEPT !.down = Append(@, part)],
        [root |-> <<>>, up |-> 0, down |-> <<>>], parts)

\* What a path is made of is what was written, in one style or the other; a relative path
\* that is appended follows the parts of the base and an absolute one replaces them;
\* the parent has all parts but the last, and the parents are the proper prefixes.
PartsKept ==
    LET parts  == Plain(Parts(p))
        before == Plain(Parts(call.before))
    IN ~Odd(call.arg) /\ ~Blurred(call.before) =>
        /\ call.fn \in {"new", "assign"} => parts = Written(call.arg)
        /\ call.fn = "append" =>
            parts = IF call.arg # <<>> /\ call.arg[1] = Slash THEN Written(call.arg) ELSE before \o Written(call.arg)
        /\ call.fn = "append_self" => parts = IF is_absolute(call.before) THEN before ELSE before \o before
        /\ call.fn = "parent" /\ Len(before) > 1 => parts = Front(before)
        /\ call.fn = "parent" => \A n \in DOMAIN Parents(call.before) :
                Plain(Parts(Parents(call.before)[n])) = SubSeq(before, 1, Len(before) - n)

\* A normalized path is normal and leads where the path led, never above its anchor.
NormalizeLeadsThere ==
    call.fn = "normalize" /\ call.before.style = "POSIX" =>
        /\ Leads(Parts(p)) = Leads(Parts(call.before))
        /\ IsNormal(Parts(p), is_absolute(p))
        /\ Same(p, Parse(p, Normal(Composed(p), Slash), "POSIX"))

\* path.h:33-35, 499-501: the anchor is one separator or two, and repeated separators
\* are collapsed, whatever the style.
SeparatorsCollapsed == call.fn = "new" => Plain(Parts(p)) = Written(call.arg)

\* path.h: a normalized path has the directory of the path, in either style.
NormalizeKeepsDir == call.fn = "normalize" /\ p.dir = <<>> => Len(Leads(Plain(Parts(call.before))).down) <= 1
=============================================================================
