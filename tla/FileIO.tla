------------------------------- MODULE FileIO -------------------------------
(***************************************************************************)
(* ucb_file_read_full, write_full and read_buffer of src/ucb/file.c: the   *)
(* calls that repeat a read or a write until all is done, on a file that   *)
(* another program makes longer or shorter meanwhile.  Reads and writes    *)
(* may transfer less than asked for, and every call may fail.              *)
(*                                                                         *)
(* What a byte of the file is does not matter, only which byte it is.      *)
(***************************************************************************)
EXTENDS Integers, Sequences

CONSTANTS
    MaxSize,        \* bound: bytes in the file
    Capacity        \* bytes in the caller's buffer, or to be written

VARIABLES
    file,           \* the bytes of the file: its own, 1, 2, ..., or the caller's, -1, -2, ...
    pos,            \* the position
    pc, fn,         \* the call
    cur, end,       \* positions read_full has read
    got,            \* the bytes that were read
    written,        \* the number that were written
    needed,         \* *out_size
    ok,             \* what the call has returned
    changed         \* history: another program has changed the file during the call

vars == <<file, pos, pc, fn, cur, end, got, written, needed, ok, changed>>

Init ==
    /\ \E n \in 0..MaxSize : file = [i \in 1..n |-> i] /\ pos \in 0..n
    /\ fn \in {"read_full", "write_full", "read_buffer"}
    /\ pc = CASE fn = "read_full" -> "tell" [] fn = "write_full" -> "write" [] OTHER -> "read"
    /\ cur = 0 /\ end = 0 /\ got = <<>> /\ written = 0 /\ needed = 0
    /\ ok = FALSE /\ changed = FALSE

-----------------------------------------------------------------------------
(* A definition named ...Mutant above another one is a faulty variant of   *)
(* it, used to show that a property depends on the definition.             *)

At(loc)    == pc = loc
Goto(loc)  == pc' = loc /\ UNCHANGED ok
Returns(v) == pc' = "returned" /\ ok' = v
Args       == <<fn, changed>>

\* ucb_file_plat_read: some of what there is, nothing at the end only.
Readable(n) == IF pos >= Len(file) THEN {0} ELSE 1..(IF n < Len(file) - pos THEN n ELSE Len(file) - pos)
ReadSome(n) == got' = got \o SubSeq(file, pos + 1, pos + n) /\ pos' = pos + n

\* Any system call fails; seeks and reads done before it have had their effect.
Fails ==
    /\ pc # "returned" /\ Returns(FALSE)
    /\ UNCHANGED <<file, pos, Args, cur, end, got, written, needed>>

-----------------------------------------------------------------------------
(* ucb_file_read_full.                                                     *)

Tell ==
    /\ At("tell") /\ cur' = pos /\ Goto("seek_end")
    /\ UNCHANGED <<file, pos, Args, end, got, written, needed>>
SeekEnd ==
    /\ At("seek_end") /\ pos' = Len(file) /\ Goto("tell_end")
    /\ UNCHANGED <<file, Args, cur, end, got, written, needed>>
TellEnd ==
    /\ At("tell_end") /\ end' = (IF pos < cur THEN cur ELSE pos) /\ Goto("seek_back")
    /\ UNCHANGED <<file, pos, Args, cur, got, written, needed>>

Remaining == end - cur

BackMutant == Len(file)
Back       == cur

SeekBack ==
    /\ At("seek_back") /\ pos' = Back
    /\ IF Capacity < Remaining
       THEN Returns(FALSE) /\ needed' = Remaining
       ELSE Goto("read_all") /\ UNCHANGED needed
    /\ UNCHANGED <<file, Args, cur, end, got, written>>

ReadAll ==
    /\ At("read_all") /\ Len(got) < Remaining
    /\ \E n \in Readable(Remaining - Len(got)) :
          /\ ReadSome(n)
          /\ IF n = 0 THEN Returns(TRUE) /\ needed' = Len(got)
                      ELSE Goto("read_all") /\ UNCHANGED needed
    /\ UNCHANGED <<file, Args, cur, end, written>>

ReadAllDone ==
    /\ At("read_all") /\ Len(got) >= Remaining /\ Returns(TRUE) /\ needed' = Len(got)
    /\ UNCHANGED <<file, pos, Args, cur, end, got, written>>

-----------------------------------------------------------------------------
(* ucb_file_read_buffer: to the end of the input, whatever its size; the   *)
(* buffer may fail to grow once the bytes have been read.                  *)

ReadBuffer ==
    /\ At("read")
    /\ \E n \in Readable(Capacity) :
          \/ ReadSome(n) /\ IF n = 0 THEN Returns(TRUE) ELSE Goto("read")
          \/ n > 0 /\ pos' = pos + n /\ Returns(FALSE) /\ UNCHANGED got
    /\ UNCHANGED <<file, Args, cur, end, written, needed>>

-----------------------------------------------------------------------------
(* ucb_file_write_full, with a handle that appends.                        *)

NextBytesMutant(n) == [i \in 1..n |-> -i]
NextBytes(n)       == [i \in 1..n |-> -(written + i)]

Write ==
    /\ At("write") /\ written < Capacity
    /\ \E n \in 1..(Capacity - written) :
          file' = file \o NextBytes(n) /\ written' = written + n /\ pos' = Len(file) + n
    /\ Goto("write")
    /\ UNCHANGED <<Args, cur, end, got, needed>>

WriteDone ==
    /\ At("write") /\ written = Capacity /\ Returns(TRUE)
    /\ UNCHANGED <<file, pos, Args, cur, end, got, written, needed>>

-----------------------------------------------------------------------------
\* Another program appends to the file or cuts it.
OtherChanges ==
    /\ pc # "returned" /\ fn # "write_full"
    /\ \E n \in 0..MaxSize : n # Len(file) /\ file' = [i \in 1..n |-> i]
    /\ changed' = TRUE
    /\ UNCHANGED <<pos, pc, fn, cur, end, got, written, needed, ok>>

Next ==
    \/ Fails \/ Tell \/ SeekEnd \/ TellEnd \/ SeekBack \/ ReadAll \/ ReadAllDone
    \/ ReadBuffer \/ Write \/ WriteDone \/ OtherChanges

Spec == Init /\ [][Next]_vars

-----------------------------------------------------------------------------
(* Properties.                                                             *)

From == IF fn = "read_full" THEN cur ELSE pos - Len(got)

\* What a read returns is what the file has at the position it was called with,
\* without a gap, and never more than the buffer holds; a file that nobody changes is
\* read to its end.  "If the remaining input does not fit in @p capacity, nothing is
\* read": then the position is where it was and @p out_size is enough for a retry.
ReadsWhole ==
    pc = "returned" /\ fn # "write_full" =>
        /\ ok => got = [i \in 1..Len(got) |-> From + i]
        /\ fn = "read_full" => Len(got) <= Capacity
        /\ ok /\ ~changed => pos >= Len(file)
        /\ ~ok /\ needed > 0 => got = <<>> /\ pos = cur /\ (~changed => needed = Len(file) - cur)

\* A write that returns true has written every byte once and in order; one that
\* fails has written the first of them.
WritesInOrder ==
    fn = "write_full" =>
        /\ \A i \in 1..(Len(file) - written) : file[i] > 0
        /\ \A i \in 1..written : file[Len(file) - written + i] = -i
        /\ pc = "returned" /\ ok => written = Capacity

-----------------------------------------------------------------------------
(* Why it is so: the inductive invariant.                                  *)

TypeOK ==
    /\ file \in Seq(Int) /\ got \in Seq(Int)
    /\ pos \in Nat /\ cur \in Nat /\ end \in Nat /\ needed \in Nat /\ written \in 0..Capacity
    /\ ok \in BOOLEAN /\ changed \in BOOLEAN

FileKnown == fn # "write_full" => \A i \in 1..Len(file) : file[i] = i

\* A file that is cut or grows while read_full finds its size makes it read less than
\* there is, never more than the buffer holds.
ReadFullKnown ==
    /\ pc \in {"tell", "seek_end", "tell_end", "seek_back", "read_all", "returned"}
    /\ ~changed => /\ pc = "tell" => pos <= Len(file)
                   /\ pc \in {"seek_end", "tell_end"} => cur <= Len(file)
                   /\ pc = "tell_end" => pos = Len(file)
                   /\ pc \in {"seek_back", "read_all"} => end = Len(file)
    /\ pc \in {"seek_back", "read_all"} => cur <= end
    /\ pc \in {"tell", "seek_end", "tell_end", "seek_back"} => got = <<>>
    /\ pc = "read_all" => pos = cur + Len(got) /\ Len(got) <= Remaining /\ Remaining <= Capacity
    /\ Len(got) <= Capacity /\ \A i \in 1..Len(got) : got[i] = cur + i

ReadBufferKnown ==
    /\ pc \in {"read", "returned"} /\ needed = 0
    /\ pc = "read" \/ ok => \A i \in 1..Len(got) : got[i] = pos - Len(got) + i

WriteKnown == pc \in {"write", "returned"} /\ written <= Len(file)

ReturnKnown ==
    /\ pc # "returned" => needed = 0 /\ ~ok
    /\ pc = "returned" /\ fn # "write_full" =>
          /\ ok /\ ~changed => pos >= Len(file)
          /\ ~ok /\ needed > 0 => got = <<>> /\ pos = cur /\ (~changed => needed = Len(file) - cur)

IOInv ==
    /\ TypeOK /\ FileKnown /\ ReturnKnown /\ WritesInOrder
    /\ \/ fn = "read_full" /\ ReadFullKnown
       \/ fn = "read_buffer" /\ ReadBufferKnown
       \/ fn = "write_full" /\ WriteKnown
=============================================================================
