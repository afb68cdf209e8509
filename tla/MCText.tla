-------------------------------- MODULE MCText --------------------------------
(***************************************************************************)
(* The components that handle text, for TLC: Unicode, strings, vectors of  *)
(* strings, paths, buffers, the environment, the argument parser, and      *)
(* sizes.  They have no state in common: a behaviour is one of the         *)
(* component that `part` names, whose variables are v1, v2 ...; only the   *)
(* typed vectors, which TypedVectorProofs is about, have their own.        *)
(***************************************************************************)
EXTENDS TypedVector, Sequences, FiniteSets

CONSTANTS
    NoPath,         \* the value of a variable that is not in an environment
    HasVersion,     \* whether the argument parser has a version to print
    MapFaults,      \* the known faults of environment maps that may happen
    Npos, NoValue

VARIABLES part, v1, v2, v3, v4, v5, v6, v7, v8, v9, v10, v11, v12

\* Bytes at the edges of what may start and what may follow in UTF-8.
Leads   == {65, 127, 128, 193, 194, 223, 224, 225, 237, 239, 240, 241, 244, 245, 248, 255}
Follows == {65, 127, 128, 143, 144, 159, 160, 191, 194, 240}
Bytes   == UNION {{<<l>> \o t : l \in Leads, t \in [1..n -> Follows]} : n \in 0..3}
           \cup {<<65, 194, 128, l>> \o t : l \in Leads, t \in [1..2 -> Follows]}
CodePoints == UNION {[1..n -> {65, 2048, 55296, 1114111, 1114112}] : n \in 0..2}
              \cup [1..7 -> {127, 65535, 65536}]

\* Characters by their properties, for the clusters.
K(g, i, e) == [gcb |-> g, incb |-> i, extpict |-> e]
Plain == {K(g, "NONE", FALSE) : g \in {"CR", "LF", "CONTROL", "L", "V", "T", "LV", "LVT",
                                       "SPACINGMARK", "PREPEND", "RI", "OTHER"}}
Scripted == {K("EXTEND", "EXTEND", FALSE), K("EXTEND", "LINKER", FALSE), K("ZWJ", "EXTEND", FALSE),
             K("OTHER", "CONSONANT", FALSE), K("OTHER", "NONE", TRUE)}
Flags == {K("RI", "NONE", FALSE), K("EXTEND", "EXTEND", FALSE)}
Clusters == UNION {[1..n -> Plain \cup Scripted] : n \in 0..3} \cup [1..5 -> Scripted] \cup [1..6 -> Flags]

\* Letters and marks, and their compositions.
Chars == {"a", "b", "o", "p", "grave", "acute", "dot", "agrave", "adot", "adotgrave", "angstrom",
          "excluded", "twomarks", "oo", "ligature", "L", "V", "T", "LV", "LVT"}
Marks == {"a", "agrave", "adot", "grave", "acute", "dot"}
Composed == UNION {[1..n -> Chars] : n \in 0..2} \cup [1..4 -> Marks]
            \cup [1..3 -> {"b", "dot", "adotgrave", "angstrom", "twomarks", "L", "V", "T", "LV"}]
Words == UNION {[1..n -> {"a", "A", "s", "sharp", "DZ", "space", "'", "NUL"}] : n \in 0..2}
         \cup [1..3 -> {"a", "sharp", "'"}]

PathChars  == {"/", ".", "a"}
Paths      == UNION {[1..n -> PathChars] : n \in 0..4}
              \cup {<<"a", "/">> \o t : t \in [1..3 -> PathChars]} \cup {<<"/", "/", "/", "a", "/", "a">>}
OtherPaths == {<<>>, <<"a">>, <<"/">>, <<".", ".">>, <<"a", "/">>, <<"/", "b">>, <<"b", ".", "c">>,
               <<".", ".", "/", "b">>, <<"/", "/", "b", "/", "c">>}
PathBudget(s) == IF Len(s) <= 2 THEN 2 ELSE 1

NameValue(n, v) == [name |-> n, value |-> v]
Environs == {<<>>, <<NameValue("n", <<>>), NameValue(None, None), NameValue("m", <<"v">>)>>}

\* Two items of one key, and one of a larger.
TextKeys == <<1, 1, 2>>

Option(s, l, a, t) == [name |-> <<"n">>, short |-> s, long |-> l, action |-> a, type |-> t,
                       def |-> NoValue, choices |-> {}, required |-> FALSE]
Dashes == <<"-", "-">>
Options ==
    << [Option("f", <<"f">>, "STORE_TRUE", "NONE") EXCEPT !.required = TRUE],
       [Option("c", NoValue, "COUNT", "NONE") EXCEPT !.def = <<"1">>],
       Option("n", <<"n">>, "STORE", "INT"),
       [Option("s", NoValue, "STORE", "STR") EXCEPT !.choices = {<<"9">>, Dashes}, !.def = <<"9">>],
       Option("a", NoValue, "APPEND", "NONE"),
       Option(NoValue, <<"b">>, "STORE", "BOOL"),
       Option(NoValue, <<"q">>, "STORE_FALSE", "NONE"),
       Option("u", NoValue, "STORE", "UINT"),
       Option("h", NoValue, "HELP", "NONE"),
       Option("V", NoValue, "VERSION", "NONE") >>
Tokens == {Dashes, <<"-">>, <<>>, <<"9">>, <<"-", "9">>, <<"-", "f">>, <<"-", "c", "f">>, <<"-", "n">>,
           <<"-", "n", "-", "1">>, <<"-", "f", "s">>, <<"-", "a", "f">>, <<"-", "c", "u", "9">>,
           <<"-", "-", "n", "=", "9">>, <<"-", "-", "n">>, <<"-", "-", "b">>, <<"-", "-", "b", "=", "x">>,
           <<"-", "-", "q">>, <<"-", "-", "f", "=">>, <<"-", "h">>, <<"-", "V", "f">>, <<"o", "n">>,
           <<"-", "-", "x">>}
Few == {Dashes, <<"9">>, <<"-", "c", "f">>, <<"-", "n">>, <<"-", "f", "s">>, <<"-", "a", "f">>,
        <<"-", "-", "n", "=", "9">>, <<"-", "V", "f">>}
CommandLines == {<< <<"p">>, t>> : t \in Tokens}
                \cup {<< <<"p">> >> \o t : t \in UNION {[1..n -> Few] : n \in {0, 2}}}

\* Texts with fields, closed or not, and texts of several words and lines.
HelpTexts == UNION {[1..n -> {"%", "(", ")", "s", "prog", "default"}] : n \in 0..4}
             \cup {<<"%", "(">> \o t : t \in [1..3 -> {"%", ")", "s", "prog"}]}
             \cup [1..4 -> {"x", "sp", "nl"}]
             \cup {<<"%", "default", "sp", "x", "x", "sp", "x", "sp", "x">>}
HelpFields == [f \in {"prog", "default", "s"} |->
                  CASE f = "prog" -> <<"P", "P">> [] f = "default" -> <<"D", "sp", "%">> [] OTHER -> <<>>]

\* Texts of sizes: of any characters, of the largest numbers, of the longest units.
SizeChars == {" ", "1", "5", ".", "k", "K", "i", "b", "x", "-"}
SizeTexts == UNION {[1..n -> SizeChars] : n \in 0..3} \cup {<<"1">> \o t : t \in [1..3 -> SizeChars]}
             \cup {<<"1", ".", "5">> \o t : t \in [1..2 -> SizeChars]}
             \cup {<<"1", "5", "5", "5">> \o t : t \in UNION {[1..n -> {"g", "x", "M", "B"}] : n \in 0..2}}
             \cup {<<"5", "m", "i">> \o t : t \in [1..2 -> {"b", "B", "i", " "}]}
             \cup {<<"5", "5", "5", "5", "5", "5">> \o t : t \in {<<>>, <<"x">>, <<"k">>, <<"B">>}}
             \cup {<<"1">> \o [k \in 1..8 |-> "b"]}
SizeCounts == 0..70 \cup {99, 100, 255, 256, 512, 999, 1000, 4096, 8192, 65535}
\* Arguments of a command line: of any characters, and several of them.
ArgTexts(n) == [1..n -> {"a", " ", "Q", "\\"}]
WinArgvs == {<< <<"a">>, a>> : a \in UNION {ArgTexts(n) : n \in 0..4}}
            \cup {<< <<"a", " ">>, a, b>> : a, b \in UNION {ArgTexts(n) : n \in 0..2}}
            \cup {<<p>> : p \in {<<>>, <<"\\", "a">>, <<" ", "\\", "a">>}}
WinEnvs  == UNION {[1..n -> {<<"n", "=">>, <<"n", "=", "v">>}] : n \in 0..3}
SearchPaths == UNION {[1..n -> {"A", "r", ""}] : n \in 1..2}
CStrings == UNION {[1..n -> {"a", "b"}] : n \in 0..2}

U8 == INSTANCE Utf8 WITH
    Inputs <- Bytes, ToEncode <- CodePoints, MultiLen <- 3, step <- v1, bytes <- v2,
    i <- v3, expected <- v4, cps <- v5, next <- v6, chunk <- v7, buffer <- v8
Gr == INSTANCE Grapheme WITH
    Texts <- Clusters, step <- v1, text <- v2, iter <- v3, st <- v4, bounds <- v5,
    visited <- v6
Nf == INSTANCE Normalize WITH
    Texts <- Composed, step <- v1, form <- v2, text <- v3, k <- v4, window <- v5,
    cps <- v6, i <- v7
Cm == INSTANCE CaseMap WITH
    Texts <- Words, op <- v1, str <- v2, pos <- v3, last <- v4, dst <- v5,
    pending <- v6, result <- v7
St == INSTANCE Str WITH
    Strings <- {"x", "y"}, MaxSize <- 3, FlushAt <- 2, str <- v1, loose <- v2,
    call <- v3
Pa == INSTANCE Path WITH
    Inputs <- Paths, Others <- OtherPaths, Budget <- PathBudget, p <- v1, call <- v2,
    left <- v3
Bu == INSTANCE Buffer WITH
    MaxSize <- 7, MaxBlock <- 6, Sizes <- {0, 1, 2, 4}, buf <- v1, handed <- v2,
    want <- v3, call <- v4
En == INSTANCE EnvMap WITH
    Names <- {"n", "m"}, Values <- {<<"v">>}, MaxEntries <- 3, MaxWords <- 1,
    Known <- MapFaults,
    environ <- v1, a <- v2, b <- v3, before <- v4, call <- v5, broken <- v6
Ap == INSTANCE ArgParse WITH
    Table <- Options, Argvs <- CommandLines, MaxParses <- 2, IntMax <- 10, opts <- v1,
    pc <- v2, argv <- v3, i <- v4, body <- v5, no_more <- v6, dest <- v7, seen <- v8,
    positionals <- v9, before <- v10, status <- v11, parses <- v12
Ah == INSTANCE ArgHelp WITH
    Texts <- HelpTexts, Lefts <- {{1}, {1, 3}}, Widths <- {4, 6, 9}, MinWidth <- 4,
    Fields <- HelpFields, phase <- v1, option <- v2, text <- v3, at <- v4, out <- v5,
    lines <- v6, col <- v7
Sz == INSTANCE SizeUnits WITH
    Texts <- SizeTexts, Counts <- SizeCounts, PrefixLetters <- <<"k", "m", "g">>,
    SI <- 10, IEC <- 16, Limit <- 65536, Huge <- 100000, call <- v1, result <- v2
Cs == INSTANCE CStr WITH
    Strings <- CStrings, MaxArgs <- 2, Null <- None, call <- v1, block <- v2,
    offset <- v3
Wa == INSTANCE WinArgs WITH
    Argvs <- WinArgvs, Envps <- WinEnvs, call <- v1, text <- v2, heap <- v3
Ps == INSTANCE ProgramSearch WITH
    Paths <- SearchPaths, DefaultPath <- <<"B", "A">>, Absolute <- {"A", "B"},
    Directories <- {"p", "c"}, argv0 <- v1, env <- v2, parent <- v3, cwd <- v4,
    executable <- v5, cursor <- v6, result <- v7

MCInit ==
    /\ Init
    /\ \/ part = "utf8" /\ U8!Init /\ v9 = None /\ v10 = None /\ v11 = None /\ v12 = None
       \/ part = "grapheme" /\ Gr!Init
          /\ v7 = None /\ v8 = None /\ v9 = None /\ v10 = None /\ v11 = None /\ v12 = None
       \/ part = "normalize" /\ Nf!Init
          /\ v8 = None /\ v9 = None /\ v10 = None /\ v11 = None /\ v12 = None
       \/ part = "case" /\ Cm!Init
          /\ v8 = None /\ v9 = None /\ v10 = None /\ v11 = None /\ v12 = None
       \/ part = "string" /\ St!Init
          /\ v4 = None /\ v5 = None /\ v6 = None /\ v7 = None /\ v8 = None /\ v9 = None /\ v10 = None /\ v11 = None /\ v12 = None
       \/ part = "path" /\ Pa!Init
          /\ v4 = None /\ v5 = None /\ v6 = None /\ v7 = None /\ v8 = None /\ v9 = None /\ v10 = None /\ v11 = None /\ v12 = None
       \/ part = "buffer" /\ Bu!Init
          /\ v5 = None /\ v6 = None /\ v7 = None /\ v8 = None /\ v9 = None /\ v10 = None /\ v11 = None /\ v12 = None
       \/ part = "env" /\ En!Init
          /\ v7 = None /\ v8 = None /\ v9 = None /\ v10 = None /\ v11 = None /\ v12 = None
       \/ part = "parse" /\ Ap!Init
       \/ part = "help" /\ Ah!Init
          /\ v8 = None /\ v9 = None /\ v10 = None /\ v11 = None /\ v12 = None
       \/ part = "size" /\ Sz!Init
          /\ v3 = None /\ v4 = None /\ v5 = None /\ v6 = None /\ v7 = None /\ v8 = None /\ v9 = None /\ v10 = None /\ v11 = None /\ v12 = None
       \/ part = "cstring" /\ Cs!Init
          /\ v4 = None /\ v5 = None /\ v6 = None /\ v7 = None /\ v8 = None /\ v9 = None /\ v10 = None /\ v11 = None /\ v12 = None
       \/ part = "vector" /\ v1 = None /\ v2 = None /\ v3 = None /\ v4 = None /\ v5 = None /\ v6 = None /\ v7 = None /\ v8 = None /\ v9 = None /\ v10 = None /\ v11 = None /\ v12 = None
       \/ part = "winargs" /\ Wa!Init
          /\ v4 = None /\ v5 = None /\ v6 = None /\ v7 = None /\ v8 = None /\ v9 = None /\ v10 = None /\ v11 = None /\ v12 = None
       \/ part = "search" /\ Ps!Init
          /\ v8 = None /\ v9 = None /\ v10 = None /\ v11 = None /\ v12 = None

MCNext ==
    /\ UNCHANGED part
    /\ \/ part = "utf8" /\ U8!Next /\ UNCHANGED <<vars, v9, v10, v11, v12>>
       \/ part = "grapheme" /\ Gr!Next /\ UNCHANGED <<vars, v7, v8, v9, v10, v11, v12>>
       \/ part = "normalize" /\ Nf!Next /\ UNCHANGED <<vars, v8, v9, v10, v11, v12>>
       \/ part = "case" /\ Cm!Next /\ UNCHANGED <<vars, v8, v9, v10, v11, v12>>
       \/ part = "string" /\ St!Next /\ UNCHANGED <<vars, v4, v5, v6, v7, v8, v9, v10, v11, v12>>
       \/ part = "path" /\ Pa!Next /\ UNCHANGED <<vars, v4, v5, v6, v7, v8, v9, v10, v11, v12>>
       \/ part = "buffer" /\ Bu!Next /\ UNCHANGED <<vars, v5, v6, v7, v8, v9, v10, v11, v12>>
       \/ part = "env" /\ En!Next /\ UNCHANGED <<vars, v7, v8, v9, v10, v11, v12>>
       \/ part = "parse" /\ Ap!Next /\ UNCHANGED vars
       \/ part = "help" /\ Ah!Next /\ UNCHANGED <<vars, v8, v9, v10, v11, v12>>
       \/ part = "size" /\ Sz!Next /\ UNCHANGED <<vars, v3, v4, v5, v6, v7, v8, v9, v10, v11, v12>>
       \/ part = "cstring" /\ Cs!Next /\ UNCHANGED <<vars, v4, v5, v6, v7, v8, v9, v10, v11, v12>>
       \/ part = "vector" /\ Next /\ UNCHANGED <<v1, v2, v3, v4, v5, v6, v7, v8, v9, v10, v11, v12>>
       \/ part = "winargs" /\ Wa!Next /\ UNCHANGED <<vars, v4, v5, v6, v7, v8, v9, v10, v11, v12>>
       \/ part = "search" /\ Ps!Next /\ UNCHANGED <<vars, v8, v9, v10, v11, v12>>

MCSpec == MCInit /\ [][MCNext]_<<part, vars, v1, v2, v3, v4, v5, v6, v7, v8, v9, v10, v11, v12>>

-----------------------------------------------------------------------------
\* Bounds the blocks of the strings; a broken string is not used on.
UsedStrings == part = "string" =>
    /\ \A s \in {"x", "y"} : St!Sound(v1[s])
    /\ Cardinality({s \in {"x", "y"} : v1[s].data.own}) + (IF v2.own THEN 1 ELSE 0) <= 2
    /\ \A s \in {"x", "y"} : St!Alloc(v1[s]) > v1[s].size + 4 => St!Alloc(v1[s]) <= 7

\* Bounds the maps.
SmallMaps == part = "env" => En!Small

Bounds == UsedStrings /\ SmallMaps

\* UTF-8 is what the standard says, read and written, whatever the length of a text and
\* wherever the encoder's array is full.
Utf8IsValid == part = "utf8" => U8!ValidatesWellFormed /\ U8!EncodesAll

\* The clusters that are found by a scan, by steps back and by counting are the same.
ClustersAgree == part = "grapheme" => Gr!ClustersAgree

\* A normalized text is normal, in every form, and means the text it was made from.
ResultIsNormal == part = "normalize" => Nf!ResultIsNormal

\* Case is mapped, and ignored, as Unicode says.
CaseMapped == part = "case" => Cm!CaseMapped

\* A string is valid, terminated and the owner of its memory after every call, which does
\* all of what it is asked to, or nothing, unless it has lost the block for want of memory;
\* a C string that is made is whole.
StringsKept ==
    /\ part = "string" => St!StringsSound /\ St!WholeEffect
    /\ part = "cstring" => Cs!BlocksWhole

\* What a path has cached is what its parts make, the parts make the path, whichever way
\* it is taken apart, and a normalized path leads where the path leads.
PathsAgree == part = "path" => Pa!CachesFresh /\ Pa!PartsKept /\ Pa!NormalizeLeadsThere

\* A buffer holds what was pushed and not popped, in order, and never more than there is
\* room for; the maps and the environment hold what the calls say they do.
ContentsHeld ==
    /\ part = "buffer" => Bu!BufferHolds
    /\ part = "env" => En!MapHolds

\* A command line is parsed as it is written, whatever was parsed before, and so is a
\* size; a child on Windows reads what it is given as it was meant, and one on POSIX runs
\* what was found; a help text says what it was given, once, within the width.
CommandLinesRight ==
    /\ part = "parse" => Ap!ParsesAsWritten
    /\ part = "winargs" => Wa!ArgsSurvive /\ Wa!EnvSurvives
    /\ part = "search" => Ps!FirstIsRun
    /\ part = "size" => Sz!SizesAgree
    /\ part = "help" => Ah!HelpSays

\* A string has its data, terminated, after every call; a reservation that finds room says
\* so, and what is said to be inserted is.
Terminated == part = "string" => St!Terminated
SaysTrue   == part = "string" => St!SaysTrue
RoomIsUsed == part = "string" => St!RoomIsUsed

\* Separators are collapsed in every path, and a normalized path keeps its directory.
SeparatorsCollapsed == part = "path" => Pa!SeparatorsCollapsed
NormalizeKeepsDir   == part = "path" => Pa!NormalizeKeepsDir

\* A variable that a map says it has set is set, and one that it has not is as it was.
TrueMeansSet == part = "env" => En!TrueMeansSet
FailureKeeps == part = "env" => En!FailureKeeps

\* A child runs what was found for it, also in another directory.
FoundIsRun == part = "search" => Ps!FoundIsRun

\* A full buffer that cannot grow takes no more: push says so and returns.
PushReturns == part = "buffer" => Bu!PushReturns

\* "never exits the process": no command line of a user aborts it.
NeverExits == part = "parse" => Ap!NeverExits
=============================================================================
