-------------------------------- MODULE WinArgs -------------------------------
(***************************************************************************)
(* The texts that src/ucb/process_win32.c gives to CreateProcess: one      *)
(* command line made of the arguments, and one block made of the           *)
(* environment.  The characters of an argument are those that matter: "\"  *)
(* for a backslash, "Q" for a quote, " " for a space or a tab, and others. *)
(***************************************************************************)
EXTENDS Integers, SequencesExt

CONSTANTS
    Argvs,              \* the arguments given
    Envps               \* the environments given, sequences of "name=value" texts

VARIABLES
    call,               \* what is being built, from what, and how far it is
    text,               \* cmd, or the block; "0" is a NUL character
    heap                \* the entries of `wide` that are allocated

vars == <<call, text, heap>>

Slash == "\\"

Init ==
    /\ text = <<>> /\ heap = {}
    /\ \/ \E a \in Argvs : call = [op |-> "args", of |-> a, i |-> 1, p |-> 0, slashes |-> 0]
       \/ \E e \in Envps : call = [op |-> "convert", of |-> e, i |-> 1, total |-> 1]

-----------------------------------------------------------------------------
(* process_win32_build_command_line.  A definition named ...Mutant above   *)
(* another one is a faulty variant of it, used to show that a property     *)
(* depends on the definition.                                              *)

NeedsQuotesMutant(arg) == Contains(arg, " ") \/ Contains(arg, "Q")
NeedsQuotes(arg)       == arg = <<>> \/ Contains(arg, " ") \/ Contains(arg, "Q")

Slashes(n) == [k \in 1..n |-> Slash]
Quote(arg) == IF NeedsQuotes(arg) THEN <<"Q">> ELSE <<>>
Arg        == call.of[call.i]

BeginArg ==
    /\ call.op = "args" /\ call.i <= Len(call.of) /\ call.p = 0
    /\ text' = text \o (IF call.i > 1 THEN <<" ">> ELSE <<>>) \o Quote(Arg)
    /\ call' = [call EXCEPT !.p = 1, !.slashes = 0] /\ UNCHANGED heap

\* What goes before a character that is no backslash.
Escaped(c, n) == Slashes(IF c = "Q" THEN 2 * n + 1 ELSE n)

AddChar ==
    /\ call.op = "args" /\ call.i <= Len(call.of) /\ call.p \in DOMAIN Arg
    /\ LET c == Arg[call.p]
       IN  IF c = Slash
           THEN call' = [call EXCEPT !.p = @ + 1, !.slashes = @ + 1] /\ UNCHANGED text
           ELSE /\ text' = Append(text \o Escaped(c, call.slashes), c)
                /\ call' = [call EXCEPT !.p = @ + 1, !.slashes = 0]
    /\ UNCHANGED heap

\* A quote that follows the last backslashes closes the argument.
TrailingMutant(arg, n) == Slashes(n)
Trailing(arg, n)       == Slashes(IF NeedsQuotes(arg) THEN 2 * n ELSE n)

EndArg ==
    /\ call.op = "args" /\ call.i <= Len(call.of) /\ call.p = Len(Arg) + 1
    /\ text' = text \o Trailing(Arg, call.slashes) \o Quote(Arg)
    /\ call' = [call EXCEPT !.i = @ + 1, !.p = 0] /\ UNCHANGED heap

-----------------------------------------------------------------------------
(* process_win32_build_env_block.                                          *)

\* Each entry is made wide, and the size of the block counted.
Convert ==
    /\ call.op = "convert" /\ call.i <= Len(call.of)
    /\ heap' = heap \cup {call.i}
    /\ call' = [call EXCEPT !.i = @ + 1, !.total = @ + Len(call.of[call.i]) + 1]
    /\ UNCHANGED text

\* An entry is no UTF-8, or there is no memory for it or for the block.
ConvertFails ==
    /\ call.op = "convert" /\ call' = [op |-> "failed"]
    /\ heap' = heap \ (1..(call.i - 1)) /\ UNCHANGED text

BlockSize(total) == IF total < 2 THEN 2 ELSE total
MakeBlock ==
    /\ call.op = "convert" /\ call.i > Len(call.of)
    /\ call' = [op |-> "block", of |-> call.of, i |-> 1, total |-> BlockSize(call.total)]
    /\ UNCHANGED <<text, heap>>

CopyEntry ==
    /\ call.op = "block" /\ call.i <= Len(call.of)
    /\ text' = Append(text \o call.of[call.i], "0") /\ heap' = heap \ {call.i}
    /\ call' = [call EXCEPT !.i = @ + 1]

EndOfMutant(block) == Append(block, "0")
EndOf(block)       == block \o (IF block = <<>> THEN <<"0", "0">> ELSE <<"0">>)
EndBlock ==
    /\ call.op = "block" /\ call.i = Len(call.of) + 1
    /\ text' = EndOf(text) /\ call' = [call EXCEPT !.op = "made"] /\ UNCHANGED heap

Next == BeginArg \/ AddChar \/ EndArg \/ Convert \/ ConvertFails \/ MakeBlock \/ CopyEntry \/ EndBlock
Spec == Init /\ [][Next]_vars

-----------------------------------------------------------------------------
(* Properties.                                                             *)

\* How the C runtime of a child takes a command line apart: backslashes count only
\* before a quote, where each two stand for one, and one left over for the quote itself.
ReadChar(s, c) ==
    LET flushed == s.arg \o Slashes(s.slashes)
    IN  CASE c = Slash -> [s EXCEPT !.slashes = @ + 1, !.began = TRUE]
          [] c = "Q" /\ s.slashes % 2 = 1 ->
                [s EXCEPT !.arg = Append(@ \o Slashes(s.slashes \div 2), "Q"), !.slashes = 0]
          [] c = "Q" /\ s.slashes % 2 = 0 ->
                [s EXCEPT !.arg = @ \o Slashes(s.slashes \div 2), !.slashes = 0,
                          !.quoted = ~@, !.began = TRUE]
          [] c = " " /\ ~s.quoted ->
                [s EXCEPT !.args = IF s.began THEN Append(@, flushed) ELSE @,
                          !.arg = <<>>, !.slashes = 0, !.began = FALSE]
          [] OTHER -> [s EXCEPT !.arg = Append(flushed, c), !.slashes = 0, !.began = TRUE]
ReadArgs(line) ==
    FoldLeft(ReadChar, [args |-> <<>>, arg |-> <<>>, slashes |-> 0, quoted |-> FALSE, began |-> FALSE],
             Append(line, " ")).args

\* The program's own name is read up to a closing quote, or a space.
ReadProgram(line) ==
    LET quoted == line # <<>> /\ line[1] = "Q"
        from   == IF quoted THEN 2 ELSE 1
        stop   == CHOOSE k \in from..(Len(line) + 1) :
                     /\ k = Len(line) + 1 \/ line[k] = (IF quoted THEN "Q" ELSE " ")
                     /\ \A j \in from..(k - 1) : line[j] # (IF quoted THEN "Q" ELSE " ")
    IN  [name |-> SubSeq(line, from, stop - 1),
         rest |-> SubSeq(line, stop + (IF quoted THEN 1 ELSE 0), Len(line))]

\* A child reads the arguments that it was given, whatever they contain; its program may
\* be anything that names a file (no quote, no backslash at the end).
ArgsSurvive ==
    call.op = "args" /\ call.i > Len(call.of) =>
        LET read == ReadProgram(text)
        IN  read.name = call.of[1] /\ ReadArgs(read.rest) = Tail(call.of)

\* The entries of a block, read as Windows reads it: up to an empty one.
ReadBlock(block) ==
    LET ends   == SetToSortSeq({k \in DOMAIN block : block[k] = "0"}, LAMBDA a, b : a < b)
        from(n) == IF n = 1 THEN 1 ELSE ends[n - 1] + 1
        last   == CHOOSE n \in 1..Len(ends) :
                     /\ ends[n] = from(n)
                     /\ \A m \in 1..(n - 1) : ends[m] # from(m)
    IN  [n \in 1..(last - 1) |-> SubSeq(block, from(n), ends[n] - 1)]

\* A child's environment is the one given, in a block of the size allocated for it, that
\* ends in two NUL characters even if it is empty; nothing of the making is left behind.
EnvSurvives ==
    /\ call.op = "made" =>
          /\ Len(text) = call.total /\ ReadBlock(text) = call.of
          /\ SubSeq(text, Len(text) - 1, Len(text)) = <<"0", "0">>
    /\ call.op \in {"made", "failed"} => heap = {}
=============================================================================
