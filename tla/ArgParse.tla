------------------------------ MODULE ArgParse ------------------------------
(***************************************************************************)
(* ucb_arg_parser of src/ucb/argparse.c: declaring options and parsing     *)
(* command lines, several with one parser.  Arguments are sequences of     *)
(* characters.  One step of the parser is one option or positional.        *)
(***************************************************************************)
EXTENDS Integers, Sequences, SequencesExt

CONSTANTS
    Table,          \* the options that are added, in order
    Argvs,          \* the command lines: sequences of arguments
    HasVersion,     \* whether set_version was called
    MaxParses,      \* bound: calls of parse
    IntMax,         \* the largest int, -IntMax - 1 is the smallest
    NoValue

VARIABLES
    opts,           \* how many options of Table are added
    pc,             \* "idle", "scan", "cluster", "version" or "aborted"
    argv, i,        \* the command line and the next argument to look at
    body,           \* what is left of a cluster of short options
    no_more,        \* -- was seen
    dest, seen,     \* of every option
    positionals, before,    \* the caller's vector, now and when parse was called
    status,         \* what the last call returned
    parses

vars == <<opts, pc, argv, i, body, no_more, dest, seen, positionals, before, status, parses>>

Opts == 1..opts
IntRange == (-IntMax - 1)..IntMax

-----------------------------------------------------------------------------
(* A definition named ...Mutant above another one is a faulty variant of   *)
(* it, used to show that a property depends on the definition.             *)

\* opt_takes_value.
opt_takes_value(o) == Table[o].action \in {"STORE", "APPEND"}

Digit(c) == c \in {"0", "1", "9"}
DigitOf  == [c \in {"0", "1", "9"} |-> CASE c = "0" -> 0 [] c = "1" -> 1 [] c = "9" -> 9]
\* strtoll of a whole string: an optional sign and digits.  NoValue stands for false.
Number(v) ==
    LET sign == IF v # <<>> /\ v[1] \in {"-", "+"} THEN 1 ELSE 0
        ds   == SubSeq(v, sign + 1, Len(v))
        n    == FoldLeft(LAMBDA acc, c : 10 * acc + DigitOf[c], 0, ds)
    IN IF ds = <<>> \/ \E k \in DOMAIN ds : ~Digit(ds[k]) THEN NoValue
       ELSE IF sign = 1 /\ v[1] = "-" THEN -n ELSE n
\* parse_ll, parse_ull and parse_bool_lit, with the ranges of their callers.
parse_ll(v)  == IF Number(v) # NoValue /\ Number(v) \in IntRange THEN Number(v) ELSE NoValue
parse_ull(v) == IF v # <<>> /\ v[1] = "-" THEN NoValue
                ELSE IF Number(v) # NoValue /\ Number(v) <= 2 * IntMax + 1 THEN Number(v) ELSE NoValue
parse_bool_lit(v) ==
    CASE v \in {<<"1">>, <<"o", "n">>, <<"O", "N">>} -> TRUE
      [] v \in {<<"0">>, <<"n", "o">>} -> FALSE
      [] OTHER -> NoValue
\* convert_store: int and unsigned stand for all integers.
Converted(type, v) ==
    CASE type = "BOOL" -> parse_bool_lit(v)
      [] type = "STR"  -> v
      [] type = "INT"  -> parse_ll(v)
      [] type = "UINT" -> parse_ull(v)

\* init_default: the value, or NoValue if the default cannot be converted.  zero_dest
\* gives what is stored without one.
Default(o) ==
    LET def == Table[o].def
        Or(zero, parsed) == IF def = NoValue THEN zero ELSE parsed
    IN CASE Table[o].action = "STORE"       -> Or(CASE Table[o].type = "STR" -> <<>> [] Table[o].type = "BOOL" -> FALSE [] OTHER -> 0,
                                                  Converted(Table[o].type, def))
         [] Table[o].action = "STORE_TRUE"  -> Or(FALSE, parse_bool_lit(def))
         [] Table[o].action = "STORE_FALSE" -> Or(TRUE, parse_bool_lit(def))
         [] Table[o].action = "COUNT"       -> Or(0, parse_ll(def))
         [] OTHER                           -> <<>>

\* find_short, find_long: NoValue if there is none.
first_of(found) == IF found = {} THEN NoValue ELSE CHOOSE o \in found : \A q \in found : o <= q
find_short(c)   == first_of({o \in Opts : Table[o].short = c})
find_long(name) == IF name = <<>> THEN NoValue ELSE first_of({o \in Opts : Table[o].long = name})

\* Tokens that begin with a dash and are positional all the same.
is_negative_number(arg) == arg[2] \in {"0", "1", "9", "."}
Dashes == <<"-", "-">>
IsLong(arg)  == Len(arg) > 2 /\ SubSeq(arg, 1, 2) = Dashes
IsShort(arg) == Len(arg) > 1 /\ arg[1] = "-" /\ arg[2] # "-" /\ ~is_negative_number(arg)
\* The name of a long option, and the value after "=", or NoValue.
Eq(arg)      == IF \E k \in 3..Len(arg) : arg[k] = "="
                THEN CHOOSE k \in 3..Len(arg) : arg[k] = "=" /\ \A j \in 3..(k - 1) : arg[j] # "=" ELSE 0
LongName(arg) == SubSeq(arg, 3, IF Eq(arg) = 0 THEN Len(arg) ELSE Eq(arg) - 1)
LongValue(arg) == IF Eq(arg) = 0 THEN NoValue ELSE SubSeq(arg, Eq(arg) + 1, Len(arg))

-----------------------------------------------------------------------------
(* Declaring options.                                                      *)

\* A short name that is taken, a missing name, destination or type: a programming error.
Malformed(new) ==
    \/ new.name = <<>> \/ (new.short = NoValue /\ new.long = NoValue)
    \/ new.short # NoValue /\ find_short(new.short) # NoValue
    \/ new.long # NoValue /\ find_long(new.long) # NoValue
    \/ new.action = "STORE" /\ new.type = "NONE"
    \/ new.action = "APPEND" /\ new.type \notin {"NONE", "STR"}
    \/ new.action \in {"HELP", "VERSION"} /\ new.type # "NONE"
    \/ new.choices # {} /\ new.action \notin {"STORE", "APPEND"}

Init ==
    /\ opts = 0 /\ pc = "idle" /\ argv = <<>> /\ i = 0 /\ body = <<>> /\ no_more = FALSE
    /\ dest = <<>> /\ seen = <<>> /\ positionals = <<>> /\ before = <<>>
    /\ status = "none" /\ parses = 0

\* ucb_arg_parser_add; UCB_REPORT does not return.
Add ==
    /\ pc = "idle" /\ parses = 0 /\ opts < Len(Table)
    /\ IF Malformed(Table[opts + 1])
       THEN pc' = "aborted" /\ UNCHANGED <<opts, dest, seen>>
       ELSE /\ opts' = opts + 1 /\ UNCHANGED pc
            /\ dest' = Append(dest, NoValue) /\ seen' = Append(seen, FALSE)
    /\ UNCHANGED <<argv, i, body, no_more, positionals, before, status, parses>>

-----------------------------------------------------------------------------
(* ucb_arg_parser_parse.                                                   *)

\* Returns from the middle of a command line, with what has been stored so far.
Return(result) == pc' = "idle" /\ status' = result /\ body' = <<>>

DefaultedMutant(k) == [o \in Opts |-> IF o < k /\ seen[o] = FALSE THEN Default(o) ELSE dest[o]]
\* The destinations after the first k - 1 options are initialized.
Defaulted(k) == [o \in Opts |-> IF o < k THEN Default(o) ELSE dest[o]]

Call ==
    /\ pc = "idle" /\ opts = Len(Table) /\ parses < MaxParses
    /\ parses' = parses + 1 /\ argv' \in Argvs /\ before' = positionals
    /\ i' = 2 /\ no_more' = FALSE
    /\ LET bad   == {o \in Opts : Default(o) = NoValue}
           first == IF bad = {} THEN opts + 1 ELSE CHOOSE o \in bad : \A b \in bad : o <= b
       IN /\ dest' = Defaulted(first)
          /\ seen' = [o \in Opts |-> IF o <= first THEN FALSE ELSE seen[o]]
          /\ IF bad = {} THEN pc' = "scan" /\ UNCHANGED <<status, body>> ELSE Return("ERROR")
    /\ UNCHANGED <<opts, positionals>>

\* apply_option, and where the parser goes on.  Without memory for a string it fails.
Apply(o, v, next, rest) ==
    LET action == Table[o].action
        stored == IF action = "STORE" THEN Converted(Table[o].type, v) ELSE Append(dest[o], v)
        refused == opt_takes_value(o) /\ Table[o].choices # {} /\ v \notin Table[o].choices
        Store(x) == /\ dest' = [dest EXCEPT ![o] = x] /\ seen' = [seen EXCEPT ![o] = TRUE]
                    /\ pc' = next /\ body' = rest /\ UNCHANGED status
    IN \/ /\ opt_takes_value(o) /\ (refused \/ (action = "STORE" /\ stored = NoValue))
          /\ Return("ERROR") /\ UNCHANGED <<dest, seen>>
       \/ /\ opt_takes_value(o) /\ ~refused
          /\ \/ stored # NoValue /\ Store(stored)
             \/ (action = "APPEND" \/ Table[o].type = "STR") /\ Return("NOMEM") /\ UNCHANGED <<dest, seen>>
       \/ action = "STORE_TRUE" /\ Store(TRUE)
       \/ action = "STORE_FALSE" /\ Store(FALSE)
       \/ action = "COUNT" /\ dest[o] < IntMax /\ Store(dest[o] + 1)       \* bound: no overflow
       \/ action = "HELP" /\ Return("HELP") /\ seen' = [seen EXCEPT ![o] = TRUE] /\ UNCHANGED dest
       \* ucb_arg_parser_print_version verifies that there is a version.
       \/ /\ action = "VERSION" /\ seen' = [seen EXCEPT ![o] = TRUE] /\ UNCHANGED dest
          /\ IF HasVersion THEN Return("VERSION") ELSE pc' = "aborted" /\ UNCHANGED <<status, body>>

Scanning == pc = "scan" /\ i <= Len(argv)
Arg      == argv[i]

EndOfOptions ==
    /\ Scanning /\ ~no_more /\ Arg = Dashes
    /\ no_more' = TRUE /\ i' = i + 1
    /\ UNCHANGED <<opts, pc, argv, body, dest, seen, positionals, before, status, parses>>

\* The value of an option: attached, or the next argument, whatever that looks like.
NextValueMutant(attached) == IF attached # NoValue THEN attached
                             ELSE IF i < Len(argv) /\ argv[i + 1] # Dashes THEN argv[i + 1] ELSE NoValue
NextValue(attached) == IF attached # NoValue THEN attached
                       ELSE IF i < Len(argv) THEN argv[i + 1] ELSE NoValue
Advance(attached, takes) == i' = IF takes /\ attached = NoValue THEN i + 2 ELSE i + 1

LongOption ==
    /\ Scanning /\ ~no_more /\ IsLong(Arg)
    /\ LET o  == find_long(LongName(Arg))
           eq == LongValue(Arg)
       IN IF \/ o = NoValue
             \/ opt_takes_value(o) /\ NextValue(eq) = NoValue
             \/ ~opt_takes_value(o) /\ eq # NoValue
          THEN Return("ERROR") /\ UNCHANGED <<i, dest, seen>>
          ELSE Apply(o, NextValue(eq), "scan", <<>>) /\ Advance(eq, opt_takes_value(o))
    /\ UNCHANGED <<opts, argv, no_more, positionals, before, parses>>

ShortOptions ==
    /\ Scanning /\ ~no_more /\ IsShort(Arg)
    /\ pc' = "cluster" /\ body' = Tail(Arg)
    /\ UNCHANGED <<opts, argv, i, no_more, dest, seen, positionals, before, status, parses>>
ShortOption ==
    /\ pc = "cluster" /\ body # <<>>
    /\ LET o    == find_short(Head(body))
           rest == IF Len(body) > 1 THEN Tail(body) ELSE NoValue
       IN IF o = NoValue \/ (opt_takes_value(o) /\ NextValue(rest) = NoValue)
          THEN Return("ERROR") /\ UNCHANGED <<i, dest, seen>>
          ELSE IF opt_takes_value(o)
          THEN Apply(o, NextValue(rest), "scan", <<>>) /\ Advance(rest, TRUE)
          ELSE Apply(o, NoValue, "cluster", Tail(body)) /\ UNCHANGED i
    /\ UNCHANGED <<opts, argv, no_more, positionals, before, parses>>
ClusterEnd ==
    /\ pc = "cluster" /\ body = <<>>
    /\ pc' = "scan" /\ i' = i + 1
    /\ UNCHANGED <<opts, argv, body, no_more, dest, seen, positionals, before, status, parses>>

\* push_positional.
Positional ==
    /\ Scanning /\ (no_more \/ (Arg # Dashes /\ ~IsLong(Arg) /\ ~IsShort(Arg)))
    /\ \/ positionals' = Append(positionals, Arg) /\ i' = i + 1 /\ UNCHANGED <<pc, status, body>>
       \/ Return("NOMEM") /\ UNCHANGED <<positionals, i>>
    /\ UNCHANGED <<opts, argv, no_more, dest, seen, before, parses>>

Finish ==
    /\ pc = "scan" /\ i > Len(argv)
    /\ Return(IF \E o \in Opts : Table[o].required /\ ~seen[o] THEN "ERROR" ELSE "OK")
    /\ UNCHANGED <<opts, argv, i, no_more, dest, seen, positionals, before, parses>>

Next ==
    \/ Add \/ Call \/ EndOfOptions \/ LongOption \/ ShortOptions \/ ShortOption
    \/ ClusterEnd \/ Positional \/ Finish

Spec == Init /\ [][Next]_vars

-----------------------------------------------------------------------------
(* Properties.                                                             *)

\* What the arguments of a command line are for, as the documentation of parse has it:
\* there is one such assignment.
Roles(args) ==
    LET ends == {k \in DOMAIN args : args[k] = Dashes}
        \* The last option of a token, if that needs the next token.
        Wants(arg) ==
            IF IsLong(arg) THEN Eq(arg) = 0 /\ find_long(LongName(arg)) # NoValue /\ opt_takes_value(find_long(LongName(arg)))
            ELSE IsShort(arg) /\ find_short(Last(arg)) # NoValue /\ opt_takes_value(find_short(Last(arg)))
                 /\ \A k \in 2..(Len(arg) - 1) : find_short(arg[k]) # NoValue => ~opt_takes_value(find_short(arg[k]))
        Good(r) == \A k \in DOMAIN args :
            LET value == k > 1 /\ r[k - 1] = "option" /\ Wants(args[k - 1])
                after == \E j \in 1..(k - 1) : r[j] = "end"
            IN r[k] = CASE value -> "value"
                        [] ~value /\ after -> "positional"
                        [] ~value /\ ~after /\ args[k] = Dashes -> "end"
                        [] ~value /\ ~after /\ (IsLong(args[k]) \/ IsShort(args[k])) -> "option"
                        [] OTHER -> "positional"
    IN CHOOSE r \in [DOMAIN args -> {"option", "value", "end", "positional"}] : Good(r)

Args == Tail(argv)
\* The options that are used, in order, each with its value.
Uses(args) ==
    LET r == Roles(args)
        ValueAfter(k) == IF k < Len(args) THEN args[k + 1] ELSE NoValue
        Of(k) ==
            IF r[k] # "option" THEN <<>>
            ELSE IF IsLong(args[k])
            THEN LET o == find_long(LongName(args[k]))
                 IN <<[opt |-> o, value |-> IF o # NoValue /\ opt_takes_value(o) /\ Eq(args[k]) = 0
                                            THEN ValueAfter(k) ELSE LongValue(args[k])]>>
            ELSE LET takes == {j \in 2..Len(args[k]) : find_short(args[k][j]) # NoValue /\ opt_takes_value(find_short(args[k][j]))}
                     last  == IF takes = {} THEN Len(args[k]) ELSE CHOOSE j \in takes : \A t \in takes : j <= t
                 IN [j \in 1..(last - 1) |->
                        [opt |-> find_short(args[k][j + 1]),
                         value |-> IF j + 1 \notin takes THEN NoValue
                                   ELSE IF last < Len(args[k]) THEN SubSeq(args[k], last + 1, Len(args[k])) ELSE ValueAfter(k)]]
    IN FlattenSeq([k \in DOMAIN args |-> Of(k)])

Wrong(use) ==
    \/ use.opt = NoValue
    \/ ~opt_takes_value(use.opt) /\ use.value # NoValue
    \/ opt_takes_value(use.opt) /\ use.value = NoValue
    \/ opt_takes_value(use.opt) /\ Table[use.opt].choices # {} /\ use.value \notin Table[use.opt].choices
    \/ Table[use.opt].action = "STORE" /\ Converted(Table[use.opt].type, use.value) = NoValue
Positionals(args) ==
    LET r == Roles(args)
    IN FlattenSeq([k \in DOMAIN args |-> IF r[k] = "positional" THEN <<args[k]>> ELSE <<>>])

\* What the option holds after its uses, from its default.
Held(o, uses) ==
    LET own == SelectSeq(uses, LAMBDA u : u.opt = o)
    IN CASE own = <<>> -> Default(o)
         [] Table[o].action = "STORE" -> Converted(Table[o].type, Last(own).value)
         [] Table[o].action = "STORE_TRUE" -> TRUE
         [] Table[o].action = "STORE_FALSE" -> FALSE
         [] Table[o].action = "COUNT" -> Default(o) + Len(own)
         [] Table[o].action = "APPEND" -> [k \in DOMAIN own |-> own[k].value]
         [] OTHER -> Default(o)

\* parse returns OK for the command lines that are right and for no others, stops at the
\* first help or version option if nothing before that is wrong, and then every argument
\* has had its one use: what the destinations and the positionals hold is what this
\* command line says, whatever the parser was used for before.
ParsesAsWritten ==
    pc = "idle" /\ parses > 0 /\ (\A o \in Opts : Default(o) # NoValue) =>
        LET uses  == Uses(Args)
            stop  == {k \in DOMAIN uses : uses[k].opt # NoValue /\ Table[uses[k].opt].action \in {"HELP", "VERSION"}}
            wrong == {k \in DOMAIN uses : Wrong(uses[k])}
            Missing(o) == Table[o].required /\ \A k \in DOMAIN uses : uses[k].opt # o
        IN /\ status = "OK" <=> /\ wrong = {} /\ stop = {} /\ (\A o \in Opts : ~Missing(o)) /\ status # "NOMEM"
           /\ status \in {"HELP", "VERSION"} =>
                \E k \in stop : \A j \in wrong : k < j
           /\ status = "OK" =>
                /\ \A o \in Opts : dest[o] = Held(o, uses)
                /\ positionals = before \o Positionals(Args)

\* argparse.h: parsing "never exits the process".
NeverExits == pc = "aborted" => opts < Len(Table)
=============================================================================
