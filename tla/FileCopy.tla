------------------------------ MODULE FileCopy ------------------------------
(***************************************************************************)
(* ucb_fs_copy_file and ucb_fs_move of src/ucb/fs.c, for a file or a link: *)
(* one call, each system call a step that may fail, in a directory in      *)
(* which other programs work, and a program that may die at any moment.    *)
(*                                                                         *)
(* A directory is moved by rename only; between devices its move is a copy *)
(* of the tree, which this module does not follow.                         *)
(***************************************************************************)
EXTENDS Integers

CONSTANTS
    Others,         \* another program may create a file at the destination
    LateErrors,     \* the file system may report at close that a write has failed
    None            \* nothing has the name

Names == {"src", "dst", "tmp"}

VARIABLES
    op, flags, to,      \* the call and its arguments; `to` is "src" for a copy onto itself
    same_device,
    entry,              \* entry[n]: what has the name n
    pc,
    kind, exists,       \* src_kind and dst_exists
    out,                \* the name to which the copy is written
    ok,                 \* what the call returns
    before,             \* history: `entry` at the call
    unclean             \* history: a temporary or partial file could not be removed

args == <<op, flags, to, same_device, before>>
vars == <<args, entry, pc, kind, exists, out, ok, unclean>>

\* A file has the text and the metadata of the source ("S"), of the destination
\* ("D") or of another program ("O"), or it is partly written and new.
File(t)  == [kind |-> "file", text |-> t, meta |-> t]
Link(t)  == [kind |-> "link", text |-> t, meta |-> t]
Dir(t)   == [kind |-> "dir",  text |-> t, meta |-> t]
NewFile  == [kind |-> "file", text |-> "part", meta |-> "new"]

Has(n)   == entry[n] # None
Is(n, k) == Has(n) /\ entry[n].kind = k

\* ucb_fs_move takes no flag but UCB_FS_OVERWRITE.
Init ==
    /\ op \in {"copy", "move"}
    /\ flags \in SUBSET (IF op = "copy" THEN {"overwrite", "follow"} ELSE {"overwrite"})
    /\ to \in {"src", "dst"} /\ same_device \in (IF to = "src" THEN {TRUE} ELSE BOOLEAN)
    /\ \E s \in {None, File("S"), Link("S"), Dir("S")}, d \in {None, File("D"), Link("D"), Dir("D")} :
          entry = [n \in Names |-> IF n = "src" THEN s ELSE IF n = "dst" THEN d ELSE None]
    /\ before = entry
    /\ pc = IF op = "copy" THEN "c_src" ELSE "m_src"
    /\ kind = "none" /\ exists = FALSE /\ out = to
    /\ ok = FALSE /\ unclean = FALSE

-----------------------------------------------------------------------------
(* A definition named ...Mutant above another one is a faulty variant of   *)
(* it, used to show that a property depends on the definition.             *)

Goto(loc)      == pc' = loc
Returns(value) == Goto("returned") /\ ok' = value
Becomes(n, e)  == entry' = [entry EXCEPT ![n] = e]

\* fs_kind_exists of the source, which must exist ...
QuerySource(from, next) ==
    /\ pc = from
    /\ \/ Has("src") /\ kind' = entry["src"].kind /\ Goto(next) /\ UNCHANGED ok
       \/ Returns(FALSE) /\ UNCHANGED kind          \* missing, or the query fails
    /\ UNCHANGED <<args, entry, exists, out, unclean>>

\* ... and of the destination.
QueryDest(from, next, allowed) ==
    /\ pc = from
    /\ \/ allowed /\ exists' = Has(to) /\ Goto(next) /\ UNCHANGED ok
       \/ Returns(FALSE) /\ UNCHANGED exists        \* not allowed, or the query fails
    /\ UNCHANGED <<args, entry, kind, out, unclean>>

-----------------------------------------------------------------------------
(* ucb_fs_copy_file, by itself or within ucb_fs_move.                      *)

MayCopyTo ==
    /\ ~Is(to, "dir") /\ kind # "dir"
    /\ Has(to) => "overwrite" \in flags

CopySource == QuerySource("c_src", "c_dst")
CopyDest   == QueryDest("c_dst", "c_stage", MayCopyTo)

StagedMutant == to
Staged       == IF exists THEN "tmp" ELSE to

\* An existing destination is replaced by way of a temporary sibling; if there
\* is no name for it the call fails.
Stage ==
    /\ pc = "c_stage"
    /\ \/ out' = Staged /\ Goto("c_open") /\ UNCHANGED ok
       \/ exists /\ Returns(FALSE) /\ UNCHANGED out
    /\ UNCHANGED <<args, entry, kind, exists, unclean>>

RecreatesLink == kind = "link" /\ "follow" \notin flags

\* ucb_fs_move removes the source once the copy has returned true.
CopiedMutant == "returned"
Copied       == IF op = "move" THEN "remove" ELSE "returned"

AfterPayload == IF exists THEN "c_rename" ELSE Copied

\* fs_copy_link.
CopyLink ==
    /\ pc = "c_open" /\ RecreatesLink
    /\ ~Has(out) /\ Becomes(out, Link("S"))
    /\ Goto(AfterPayload) /\ ok' = TRUE
    /\ UNCHANGED <<args, kind, exists, out, unclean>>

\* fs_stream_copy: the temporary file is opened with O_EXCL, a destination that
\* was not there with O_TRUNC ...
Open ==
    /\ pc = "c_open" /\ ~RecreatesLink
    /\ out = "tmp" => ~Has(out)
    /\ Becomes(out, NewFile) /\ Goto("c_write")
    /\ UNCHANGED <<args, kind, exists, out, ok, unclean>>

\* ... and what close reports of the writes is dropped by ucb_file_free.
Write ==
    /\ pc = "c_write"
    /\ \/ Becomes(out, [entry[out] EXCEPT !.text = "S"])
       \/ LateErrors /\ UNCHANGED entry
    /\ Goto("c_meta")
    /\ UNCHANGED <<args, kind, exists, out, ok, unclean>>

\* fs_copy_meta.
CopyMeta ==
    /\ pc = "c_meta" /\ Becomes(out, [entry[out] EXCEPT !.meta = "S"])
    /\ Goto(AfterPayload) /\ ok' = TRUE
    /\ UNCHANGED <<args, kind, exists, out, unclean>>

RenameStaged ==
    /\ pc = "c_rename"
    /\ entry' = [entry EXCEPT ![to] = entry["tmp"], !["tmp"] = None]
    /\ Goto(Copied)
    /\ UNCHANGED <<args, kind, exists, out, ok, unclean>>

AfterFailureMutant == "returned"
AfterFailure       == "c_clean"

\* Any call of the payload, or the rename, fails.
CopyFails ==
    /\ pc \in {"c_open", "c_write", "c_meta", "c_rename"}
    /\ Goto(AfterFailure) /\ ok' = FALSE
    /\ UNCHANGED <<args, entry, kind, exists, out, unclean>>

\* What has the name is removed, if that succeeds.
CleanUp ==
    /\ pc = "c_clean" /\ Goto("returned")
    /\ \/ Becomes(out, None) /\ UNCHANGED unclean
       \/ unclean' = TRUE /\ UNCHANGED entry
    /\ UNCHANGED <<args, kind, exists, out, ok>>

-----------------------------------------------------------------------------
(* ucb_fs_move.                                                            *)

MayMoveTo == Has(to) => ~Is(to, "dir") /\ kind # "dir" /\ "overwrite" \in flags

MoveSource == QuerySource("m_src", "m_dst")
MoveDest   == QueryDest("m_dst", "m_rename", MayMoveTo)

\* rename(2) replaces what has the name by then, but for a file by a directory.
Rename ==
    /\ pc = "m_rename" /\ same_device
    /\ kind = "dir" => ~Has(to) \/ to = "src"
    /\ entry' = [[entry EXCEPT !["src"] = None] EXCEPT ![to] = entry["src"]]
    /\ Returns(TRUE)
    /\ UNCHANGED <<args, kind, exists, out, unclean>>

RenameFails ==
    /\ pc = "m_rename" /\ Returns(FALSE)
    /\ UNCHANGED <<args, entry, kind, exists, out, unclean>>

AcrossMutant == "remove"
Across       == "c_src"

\* EXDEV: the file is copied, with its own checks.
RenameAcross ==
    /\ pc = "m_rename" /\ ~same_device /\ kind # "dir"
    /\ Goto(Across)
    /\ UNCHANGED <<args, entry, kind, exists, out, ok, unclean>>

\* ucb_fs_remove.
RemoveSource ==
    /\ pc = "remove"
    /\ \/ Becomes("src", None) /\ Returns(TRUE)
       \/ Returns(FALSE) /\ UNCHANGED entry
    /\ UNCHANGED <<args, kind, exists, out, unclean>>

-----------------------------------------------------------------------------
(* The rest of the world.                                                  *)

Running == pc \notin {"returned", "crashed"}

\* Another program takes the name of a destination that was not there.
OtherCreates ==
    /\ Others /\ Running /\ to = "dst" /\ ~Has(to) /\ Becomes(to, File("O"))
    /\ UNCHANGED <<args, pc, kind, exists, out, ok, unclean>>

Crash ==
    /\ Running /\ Goto("crashed")
    /\ UNCHANGED <<args, entry, kind, exists, out, ok, unclean>>

Next ==
    \/ CopySource \/ CopyDest \/ Stage \/ CopyLink \/ Open \/ Write \/ CopyMeta
    \/ RenameStaged \/ CopyFails \/ CleanUp
    \/ MoveSource \/ MoveDest \/ Rename \/ RenameFails \/ RenameAcross \/ RemoveSource
    \/ OtherCreates \/ Crash

Spec == Init /\ [][Next]_vars

-----------------------------------------------------------------------------
(* Properties.                                                             *)

Entries == [kind : {"file", "link", "dir"}, text : {"S", "D", "O", "part"}, meta : {"S", "D", "O", "new"}]

TypeOK ==
    /\ entry \in [Names -> Entries \cup {None}]
    /\ kind \in {"none", "file", "link", "dir"} /\ out \in Names
    /\ exists \in BOOLEAN /\ ok \in BOOLEAN /\ unclean \in BOOLEAN

\* What the source was, or a complete copy of it: a link that is followed
\* becomes a file.
Complete(e) == e = before["src"] \/ (before["src"] = Link("S") /\ e = File("S") /\ "follow" \in flags)

\* "a failed copy leaves the original intact and copying a path onto itself is
\* safe": at every moment, a crash included, the destination is what it was or
\* complete.
OriginalIntact ==
    before[to] # None => entry[to] = before[to] \/ Complete(entry[to])

\* A move, between devices and cut short anywhere, has the source in one place at least.
NothingLost ==
    op = "move" /\ before["src"] # None => Complete(entry["src"]) \/ Complete(entry[to])

\* Unless it cannot remove it, a call that fails leaves no temporary file and no
\* part of a copy behind.
FailureLeavesNothing ==
    pc = "returned" /\ ~ok /\ ~unclean =>
        /\ entry["tmp"] = None
        /\ entry[to] \in {None, before[to], File("O")} \/ Complete(entry[to])

\* A call that returns true has made a complete copy, with the source's metadata,
\* and a move has removed the source.
SuccessIsComplete ==
    pc = "returned" /\ ok =>
        /\ Complete(entry[to]) /\ entry["tmp"] = None
        /\ to # "src" => entry["src"] = IF op = "move" THEN None ELSE before["src"]

\* "An existing destination fails [...] unless @ref UCB_FS_OVERWRITE is set": what
\* another program has created is neither replaced nor removed.
NoClobber ==
    [][entry[to] = File("O") /\ "overwrite" \notin flags => entry'[to] = entry[to]]_vars
-----------------------------------------------------------------------------
(* Why a copy is atomic: the inductive invariant.                          *)

Early   == {"m_src", "m_dst", "m_rename", "c_src", "c_dst", "c_stage", "c_open"}
Payload == {"c_write", "c_meta", "c_rename", "c_clean"}
Ended   == {"returned", "crashed"}

ArgsOK ==
    /\ pc \in Early \cup Payload \cup {"remove"} \cup Ended
    /\ op \in {"copy", "move"} /\ to \in {"src", "dst"} /\ (to = "src" => same_device)
    /\ before["src"] \in {None, File("S"), Link("S"), Dir("S")}
    /\ before["dst"] \in {None, File("D"), Link("D"), Dir("D")}

\* What has been asked about the source and the destination is still so when it is used:
\* a destination that was not there has no content to lose.
QueriesHold ==
    /\ pc \in Ended \/ pc = "m_src" \/ (pc = "c_src" /\ op = "copy")
        \/ (before["src"] # None /\ kind = before["src"].kind)
    /\ pc \in {"c_stage", "c_open", "remove"} \cup Payload =>
        /\ kind # "dir"
        /\ ~exists => to = "dst" /\ before["dst"] = None
    /\ pc \in {"c_open"} \cup Payload => out = Staged
    /\ op = "move" /\ pc \in {"c_src", "c_dst", "c_stage", "c_open", "remove"} \cup Payload => to = "dst"
    /\ pc = "remove" => op = "move"
    /\ pc \in {"m_src", "m_dst", "m_rename"} => op = "move"

\* Nobody has touched the name, but another program that found it free.
Untouched(n) == entry[n] = before[n] \/ (before[n] = None /\ entry[n] = File("O"))

\* Until the copy is complete only its own file is written: the temporary one, or the
\* destination that was not there.
EntriesAt ==
    /\ pc \notin Ended => entry["src"] = before["src"]
    /\ pc \in Early => entry["tmp"] = None /\ Untouched(to)
    /\ pc \in Payload /\ exists => Untouched(to)
    /\ pc \in Payload \cup {"remove"} /\ ~exists => entry["tmp"] = None
    /\ pc = "c_write" => entry[out] = NewFile
    /\ pc = "c_meta" => entry[out] = [kind |-> "file", text |-> "S", meta |-> "new"]
    /\ pc \in {"c_write", "c_meta"} => ~RecreatesLink
    /\ pc = "c_rename" => exists /\ Complete(entry["tmp"])
    /\ pc = "c_clean" => ~ok
    /\ pc = "remove" => entry["tmp"] = None /\ Complete(entry[to])
    /\ pc \in {"c_rename", "remove"} => ok

CopyInv ==
    /\ TypeOK /\ ArgsOK /\ QueriesHold /\ EntriesAt
    /\ pc \in Ended => OriginalIntact /\ NothingLost
    /\ FailureLeavesNothing /\ SuccessIsComplete
=============================================================================
