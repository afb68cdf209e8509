------------------------------ MODULE SizeUnits ------------------------------
(***************************************************************************)
(* Sizes with units, src/ucb/units/bytes.c: what ucb_bytes_parse makes of  *)
(* a text and the unit that ucb_bytes_convert picks for a count.  A text   *)
(* is a sequence of characters, with " " for any white space.  Powers of   *)
(* SI and IEC stand for those of 1000 and 1024; arithmetic is exact, where *)
(* the code has doubles.                                                   *)
(***************************************************************************)
EXTENDS Integers, SequencesExt

CONSTANTS
    Texts, Counts,      \* what is parsed, and what is converted
    PrefixLetters,           \* the letters of the prefixes: k, m, g ...
    SI, IEC,
    Limit,              \* the first count that is too large, 2^64
    Huge                \* the first number that is too large for a double

VARIABLES call, result

vars == <<call, result>>

Digit   == <<"0", "1", "2", "3", "4", "5", "6", "7", "8", "9">>
Digits  == Range(Digit)
Alpha   == {"b", "B", "i", "I", "x"} \cup Range(PrefixLetters) \cup {"K", "M", "G"}
Lower   == [c \in Alpha |-> CASE c = "B" -> "b" [] c = "I" -> "i" [] c = "K" -> "k"
                              [] c = "M" -> "m" [] c = "G" -> "g" [] OTHER -> c]

\* BYTES_UNITS: bytes, then the SI units, then the IEC units.
Top       == Len(PrefixLetters)
Factor(u) == IF u <= Top THEN SI ^ u ELSE IEC ^ (u - Top)
Suffix(u) == IF u = 0 THEN <<"b">> ELSE IF u <= Top THEN <<PrefixLetters[u], "b">>
             ELSE <<PrefixLetters[u - Top], "i", "b">>

Init ==
    /\ result = [is |-> "none"]
    /\ \/ \E t \in Texts : call = [op |-> "parse", text |-> t]
       \/ \E n \in Counts, auto \in {"si", "iec"} : call = [op |-> "convert", count |-> n, auto |-> auto]

-----------------------------------------------------------------------------
(* A definition named ...Mutant above another one is a faulty variant of   *)
(* it, used to show that a property depends on the definition.             *)

AllSpaces(s) == Range(s) \subseteq {" "}
AllAlpha(s)  == Range(s) \subseteq Alpha
DigitsAndDot(s) == Range(s) \subseteq Digits \cup {"."} /\ Len(SelectSeq(s, LAMBDA c : c = ".")) <= 1

Accepts(kind, s) ==
    \/ kind = "space" /\ AllSpaces(s)
    \/ kind = "number" /\ DigitsAndDot(s)
    \/ kind = "alpha" /\ AllAlpha(s)
\* Where a scan from p stops that goes on while what it has passed is of a kind.
Scan(t, p, kind) ==
    CHOOSE q \in p..(Len(t) + 1) :
        Accepts(kind, SubSeq(t, p, q - 1)) /\ (q = Len(t) + 1 \/ ~Accepts(kind, SubSeq(t, p, q)))

\* The value of a number, times 10^Decimals.
Mantissa(s) == FoldLeft(LAMBDA n, c : IF c = "." THEN n ELSE 10 * n + SelectInSeq(Digit, LAMBDA d : d = c) - 1, 0, s)
Decimals(s) == IF Contains(s, ".") THEN Len(s) - SelectInSeq(s, LAMBDA c : c = ".") ELSE 0
Fails(code) == [is |-> code]

\* The unit of a suffix in lower case.
UnknownUnit == -1
UnitOfMutant(s) ==
    IF s = <<>> \/ s = <<"b">> THEN 0
    ELSE IF ~Contains(PrefixLetters, s[1]) THEN UnknownUnit
    ELSE LET power == SelectInSeq(PrefixLetters, LAMBDA c : c = s[1])
             rest  == Tail(s)
         IN  IF rest \in {<<"i">>, <<"i", "b">>} THEN Top + power
             ELSE IF rest \in {<<>>, <<"b">>} THEN power ELSE UnknownUnit
UnitOf(s) ==
    IF s = <<>> \/ s = <<"b">> THEN 0
    ELSE IF ~Contains(PrefixLetters, s[1]) THEN UnknownUnit
    ELSE LET power == SelectInSeq(PrefixLetters, LAMBDA c : c = s[1])
             rest  == Tail(s)
         IN  IF rest \in {<<>>, <<"i">>, <<"i", "b">>} THEN Top + power
             ELSE IF rest = <<"b">> THEN power ELSE UnknownUnit

\* floor(number * factor + 0.5)
Rounded(number, factor) ==
    LET scale == 10 ^ Decimals(number)
    IN  (2 * Mantissa(number) * factor + scale) \div (2 * scale)

MaxSuffix == 7      \* sizeof(suffix) - 1

Parsed(t) ==
    LET start  == Scan(t, 1, "space")
        stop   == Scan(t, start, "number")
        number == SubSeq(t, start, stop - 1)
        from   == Scan(t, stop, "space")
        to     == Scan(t, from, "alpha")
        suffix == [k \in 1..(to - from) |-> Lower[t[from + k - 1]]]
        unit   == UnitOf(suffix)
    IN  IF start > Len(t) \/ t[start] \notin Digits \/ Last(number) = "." THEN Fails("INVALID_ARG")
        ELSE IF Mantissa(number) \div 10 ^ Decimals(number) >= Huge THEN Fails("OUT_OF_BOUNDS")
        ELSE IF Len(suffix) > MaxSuffix \/ Scan(t, to, "space") <= Len(t) \/ unit = UnknownUnit
        THEN Fails("INVALID_ARG")
        ELSE IF Rounded(number, Factor(unit)) >= Limit THEN Fails("OUT_OF_BOUNDS")
        ELSE [is |-> "ok", bytes |-> Rounded(number, Factor(unit)), unit |-> unit]

Parse == call.op = "parse" /\ result' = Parsed(call.text) /\ UNCHANGED call

\* The units of a family from the largest down.
Family(auto) == IF auto = "si" THEN 1..Top ELSE (Top + 1)..(2 * Top)
ReachesMutant(n, u) == n > Factor(u)
Reaches(n, u)       == n >= Factor(u)
Converted(n, auto) ==
    LET units == {u \in Family(auto) : Reaches(n, u)}
    IN  IF units = {} THEN 0 ELSE CHOOSE u \in units : \A w \in units : w <= u

Convert ==
    /\ call.op = "convert" /\ result' = [is |-> "unit", unit |-> Converted(call.count, call.auto)]
    /\ UNCHANGED call

Next == result.is = "none" /\ (Parse \/ Convert)
Spec == Init /\ [][Next]_vars

-----------------------------------------------------------------------------
(* Properties.                                                             *)

\* How a size may be written: a number with digits at both ends, and the spellings of
\* the units: "no suffix, or B, is bytes"; "a bare prefix letter or an i form is binary";
\* "a prefix letter followed by B is decimal".
IsNumber(s) == s # <<>> /\ DigitsAndDot(s) /\ {Head(s), Last(s)} \subseteq Digits
Spellings(u) ==
    IF u = 0 THEN {<<>>, <<"b">>}
    ELSE IF u <= Top THEN {<<PrefixLetters[u], "b">>}
    ELSE LET p == PrefixLetters[u - Top] IN {<<p>>, <<p, "i">>, <<p, "i", "b">>}
Written(t) ==
    {w \in [number : {SubSeq(t, a, b) : a, b \in 1..Len(t)}, unit : 0..(2 * Top)] :
        /\ IsNumber(w.number)
        /\ \E a, b, c, d \in 0..Len(t) :
              /\ a <= b /\ b <= c /\ c <= d /\ SubSeq(t, a + 1, b) = w.number
              /\ AllSpaces(SubSeq(t, 1, a) \o SubSeq(t, b + 1, c) \o SubSeq(t, d + 1, Len(t)))
              /\ AllAlpha(SubSeq(t, c + 1, d))
              /\ [k \in 1..(d - c) |-> Lower[t[c + k]]] \in Spellings(w.unit)}

\* A text is a size exactly if it is written as one and the count fits, and the count is
\* the nearest to what is written; the unit picked for a count is the largest that fits,
\* and a count written in it is read back as that count and that unit.
SizesAgree ==
    /\ call.op = "parse" /\ result.is # "none" =>
          IF result.is = "ok"
          THEN /\ result.bytes \in 0..(Limit - 1)
               /\ \E w \in Written(call.text) :
                     /\ result.unit = w.unit /\ result.bytes = Rounded(w.number, Factor(w.unit))
          ELSE \A w \in Written(call.text) :
                  result.is = "OUT_OF_BOUNDS" /\ Rounded(w.number, Factor(w.unit)) >= Limit
    /\ call.op = "convert" /\ result.is # "none" =>
          LET f == Factor(result.unit)
              n == call.count \div f
              length == CHOOSE k \in 1..9 : 10 ^ k > n /\ (k = 1 \/ 10 ^ (k - 1) <= n)
              digits == [k \in 1..length |-> Digit[((n \div 10 ^ (length - k)) % 10) + 1]]
          IN  /\ result.unit # 0 => call.count >= f
              /\ \A u \in Family(call.auto) : Factor(u) <= call.count => Factor(u) <= f
              /\ call.count % f = 0 =>
                    Parsed(digits \o <<" ">> \o Suffix(result.unit)) =
                        [is |-> "ok", bytes |-> call.count, unit |-> result.unit]
=============================================================================
