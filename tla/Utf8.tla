-------------------------------- MODULE Utf8 --------------------------------
(***************************************************************************)
(* The validation, decoding and encoding of UTF-8 in src/ucb/unicode.c.    *)
(* A byte is a number below 256; masks are divisions and remainders.       *)
(*                                                                         *)
(* A behaviour is either the validation of some bytes and, if they are     *)
(* valid, their decoding by the iterator and the encoding of what it has   *)
(* found, or the encoding of code points some of which may be invalid.     *)
(***************************************************************************)
EXTENDS Integers, Sequences, SequencesExt, FiniteSets

CONSTANTS
    Inputs,         \* the sequences of bytes that are validated
    ToEncode,       \* the sequences of code points that are encoded
    MultiLen        \* UCB_UC_MAX_MULTI_LEN: the encoder flushes 4 * MultiLen of 5 * MultiLen bytes

VARIABLES
    step,           \* "validate", "decode", "encode", "valid", "invalid", "encoded" or "refused"
    bytes,          \* the input of validate
    i,              \* the position in it, from 0
    expected,       \* the length of a truncated sequence, or 0
    cps,            \* the code points found, or given
    next,           \* the first one not encoded
    chunk,          \* the encoder's array
    buffer          \* what it has appended to the buffer

vars == <<step, bytes, i, expected, cps, next, chunk, buffer>>

Init ==
    /\ \/ step = "validate" /\ bytes \in Inputs /\ cps = <<>>
       \/ step = "encode" /\ bytes = <<>> /\ cps \in ToEncode
    /\ i = 0 /\ expected = 0 /\ next = 1 /\ chunk = <<>> /\ buffer = <<>>

-----------------------------------------------------------------------------
(* A definition named ...Mutant above another one is a faulty variant of   *)
(* it, used to show that a property depends on the definition.             *)

Byte(k) == bytes[i + k + 1]         \* bytes[i + k]: TLC stops at a read past the end
Tail6(b) == b % 64

\* How long the sequence is that a byte starts, 0 for one that starts none.
LeadLength(b) ==
    CASE b < 128                -> 1
      [] b \div 32 = 6          -> 2
      [] b \div 16 = 14         -> 3
      [] b \div 8 = 30          -> 4
      [] OTHER                  -> 0

Fetch(n) ==
    CASE n = 1 -> Byte(0)
      [] n = 2 -> ((Byte(0) % 32) * 64) + Tail6(Byte(1))
      [] n = 3 -> (Byte(0) % 16) * 4096 + Tail6(Byte(1)) * 64 + Tail6(Byte(2))
      [] n = 4 -> (Byte(0) % 8) * 262144 + Tail6(Byte(1)) * 4096 + Tail6(Byte(2)) * 64 + Tail6(Byte(3))

Continues(n) == \A k \in 1..(n - 1) : Byte(k) \div 64 = 2

AcceptedMutant(cp, n) == (n = 2 => cp >= 128) /\ (n = 3 => cp >= 2048 /\ cp \notin 55296..57343) /\ (n = 4 => cp >= 65536)
\* Neither overlong, nor a surrogate, nor out of range.
Accepted(cp, n) ==
    CASE n = 1 -> TRUE
      [] n = 2 -> cp >= 128
      [] n = 3 -> cp >= 2048 /\ cp \notin 55296..57343
      [] n = 4 -> cp \in 65536..1114111

-----------------------------------------------------------------------------
(* ucb_uc_validate, one sequence at a time.                                *)

Checking == step = "validate" /\ i < Len(bytes)
Keep     == UNCHANGED <<bytes, cps, next, chunk, buffer>>

ValidateOne ==
    /\ Checking
    /\ LET n == LeadLength(Byte(0)) IN
       /\ n > 0 /\ i + n <= Len(bytes) /\ Continues(n) /\ Accepted(Fetch(n), n)
       /\ i' = i + n
    /\ UNCHANGED <<step, expected>> /\ Keep
Truncated ==
    /\ Checking
    /\ LET n == LeadLength(Byte(0)) IN n > 1 /\ i + n > Len(bytes) /\ expected' = n
    /\ step' = "invalid" /\ UNCHANGED i /\ Keep
Invalid ==
    /\ Checking
    /\ LET n == LeadLength(Byte(0)) IN
       \/ n = 0
       \/ n > 0 /\ i + n <= Len(bytes) /\ (~Continues(n) \/ ~Accepted(Fetch(n), n))
    /\ step' = "invalid" /\ UNCHANGED <<i, expected>> /\ Keep
Validated ==
    /\ step = "validate" /\ i = Len(bytes)
    /\ step' = "decode" /\ i' = 0
    /\ UNCHANGED expected /\ Keep

-----------------------------------------------------------------------------
(* ucb_uc_next_valid, as FOR_EACH_CODEPOINT repeats it, and num_cp, which  *)
(* counts what it finds.                                                   *)

\* The iterator looks at fewer bits than validate does.
ValidLength(b) ==
    CASE b < 128       -> 1
      [] b \div 32 = 6 -> 2
      [] b \div 16 = 14 -> 3
      [] OTHER         -> 4

DecodeOne ==
    /\ step = "decode" /\ i < Len(bytes)
    /\ LET n == ValidLength(Byte(0)) IN cps' = Append(cps, Fetch(n)) /\ i' = i + n
    /\ UNCHANGED <<step, bytes, expected, next, chunk, buffer>>
Decoded ==
    /\ step = "decode" /\ i >= Len(bytes)
    /\ step' = "encode"
    /\ UNCHANGED <<bytes, i, expected, cps, next, chunk, buffer>>

num_cp == Len(cps)

-----------------------------------------------------------------------------
(* ucb_uc_encode_codepoints.                                               *)

EncodableMutant(cp) == cp <= 1114111
Encodable(cp) == cp <= 1114111 /\ cp \notin 55296..57343

Top(cp, shift) == cp \div shift
Mid(cp, shift) == 128 + ((cp \div shift) % 64)
Encoding(cp) ==
    CASE cp <= 127   -> <<cp>>
      [] cp <= 2047  -> <<192 + Top(cp, 64), Mid(cp, 1)>>
      [] cp <= 65535 -> <<224 + Top(cp, 4096), Mid(cp, 64), Mid(cp, 1)>>
      [] OTHER       -> <<240 + Top(cp, 262144), Mid(cp, 4096), Mid(cp, 64), Mid(cp, 1)>>

AfterFlushMutant(bs) == bs
\* bytes_len = 0.
AfterFlush(bs) == <<>>

EncodeOne ==
    /\ step = "encode" /\ next <= Len(cps) /\ Encodable(cps[next])
    /\ LET bs == chunk \o Encoding(cps[next]) IN
       IF Len(bs) >= 4 * MultiLen
       THEN \/ buffer' = buffer \o bs /\ chunk' = AfterFlush(bs) /\ step' = step
            \/ step' = "refused" /\ UNCHANGED <<chunk, buffer>>     \* the buffer cannot grow
       ELSE chunk' = bs /\ UNCHANGED <<step, buffer>>
    /\ next' = next + 1
    /\ UNCHANGED <<bytes, i, expected, cps>>
Refuse ==
    /\ step = "encode" /\ next <= Len(cps) /\ ~Encodable(cps[next])
    /\ step' = "refused"
    /\ UNCHANGED <<bytes, i, expected, cps, next, chunk, buffer>>
EncodeRest ==
    /\ step = "encode" /\ next > Len(cps)
    /\ \/ step' = "encoded" /\ buffer' = buffer \o chunk
       \/ chunk # <<>> /\ step' = "refused" /\ UNCHANGED buffer
    /\ UNCHANGED <<bytes, i, expected, cps, next, chunk>>

Next ==
    \/ ValidateOne \/ Truncated \/ Invalid \/ Validated \/ DecodeOne \/ Decoded
    \/ EncodeOne \/ Refuse \/ EncodeRest

Spec == Init /\ [][Next]_vars

-----------------------------------------------------------------------------
(* Properties.                                                             *)

\* Table 3-7 of the Unicode standard: the ranges of well-formed sequences.
Tails == 128..191
WellFormedOne(s) ==
    \/ Len(s) = 1 /\ s[1] \in 0..127
    \/ Len(s) = 2 /\ s[1] \in 194..223 /\ s[2] \in Tails
    \/ Len(s) = 3 /\ s[3] \in Tails
       /\ \/ s[1] = 224 /\ s[2] \in 160..191
          \/ s[1] \in (225..236) \cup {238, 239} /\ s[2] \in Tails
          \/ s[1] = 237 /\ s[2] \in 128..159
    \/ Len(s) = 4 /\ s[3] \in Tails /\ s[4] \in Tails
       /\ \/ s[1] = 240 /\ s[2] \in 144..191
          \/ s[1] \in 241..243 /\ s[2] \in Tails
          \/ s[1] = 244 /\ s[2] \in 128..143
\* The ends of the well-formed prefixes of the input.
WellFormedEnds ==
    LET Ends[k \in 0..Len(bytes)] ==
          k = 0 \/ \E n \in 1..4 : n <= k /\ Ends[k - n] /\ WellFormedOne(SubSeq(bytes, k - n + 1, k))
    IN {k \in 0..Len(bytes) : Ends[k]}
\* validate accepts the sequences that the table allows, and reports the end of the
\* longest well-formed prefix of the others.
ValidatesWellFormed ==
    /\ step \in {"decode", "encode", "encoded"} => Len(bytes) \in WellFormedEnds
    /\ step = "invalid" =>
        /\ Len(bytes) \notin WellFormedEnds
        /\ \A k \in WellFormedEnds : k <= i
        /\ i \in WellFormedEnds
        /\ expected > 0 <=> i + LeadLength(Byte(0)) > Len(bytes)

\* What the iterator finds in valid bytes is what encodes to them, so it neither skips
\* nor invents a code point; the encoder, whose array is never full, appends what it
\* has encoded in order and once, refuses surrogates and numbers out of range, and has
\* appended everything when it returns true.
EncodesAll ==
    LET encoded == FlattenSeq([k \in 1..(next - 1) |-> Encoding(cps[k])]) IN
    /\ Len(chunk) <= 5 * MultiLen
    /\ step = "encode" => buffer \o chunk = encoded
    /\ step = "encoded" => buffer = encoded /\ (bytes # <<>> => buffer = bytes)
    /\ step = "encoded" => \A k \in DOMAIN cps : cps[k] <= 1114111 /\ cps[k] \notin 55296..57343
=============================================================================
