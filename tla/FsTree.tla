------------------------------- MODULE FsTree -------------------------------
(***************************************************************************)
(* The calls of src/ucb/fs.c on directories: ucb_fs_mkdir, mkdir_p,        *)
(* remove, remove_all, copy_tree, and ucb_fs_move of a directory, with the *)
(* directory iterator of dir.c they use.  The recursion of the code is the *)
(* stack of frames; every system call is a step, may fail, and may be      *)
(* preceded by the step of another program.                                *)
(*                                                                         *)
(* The copy of one file is one step here; FileCopy has its detail.         *)
(***************************************************************************)
EXTENDS Integers, Sequences, SequencesExt

CONSTANTS
    Strangers,      \* what another program may create: records [path, node]
    Overwritten,    \* what may be at the destination at first: sets of such records
    MaxPath         \* the longest path the system accepts (PATH_MAX)

VARIABLES
    op, src, dst, flags,    \* the call
    same_device,
    before,                 \* history: `fs` at the call
    stranger, came,         \* the other program and whether it has acted
    fs,                     \* the entry of each path that exists
    stack,                  \* the calls in progress, the innermost first
    ret                     \* what the last call has returned

args == <<op, src, dst, flags, same_device, before, stranger>>
vars == <<args, came, fs, stack, ret>>

\* Every link of the model leads to the directory LinkTarget.
File(t) == [kind |-> "file", text |-> t, meta |-> t]
Dir(t)  == [kind |-> "dir",  text |-> "", meta |-> t]
Link    == [kind |-> "link", text |-> "", meta |-> ""]
LinkTarget == <<"e">>

With(tree, p, node) == [q \in DOMAIN tree \cup {p} |-> IF q = p THEN node ELSE tree[q]]
Without(tree, p)    == [q \in DOMAIN tree \ {p} |-> tree[q]]

Within(p, q)      == IsPrefix(q, p)
Has(p)            == p \in DOMAIN fs
IsKind(p, k)      == Has(p) /\ fs[p].kind = k
IsDir(p)          == p = <<>> \/ IsKind(p, "dir")

\* Where a path leads in `tree`: every link is resolved ...
Real(tree, p) ==
    LET target(q) == IF q \in DOMAIN tree /\ tree[q].kind = "link" THEN LinkTarget ELSE q
        walk[n \in 0..Len(p)] == IF n = 0 THEN <<>> ELSE target(Append(walk[n - 1], p[n]))
    IN  walk[Len(p)]
\* ... and, for a call that does not follow the last one, all but the last.
At(p)       == IF p = <<>> THEN p ELSE Append(Real(fs, Front(p)), Last(p))
Parent(p)   == Real(fs, Front(p))
Children(p) == {Last(q) : q \in {q \in DOMAIN fs : Len(q) = Len(p) + 1 /\ Within(q, p)}}

Source ==
    LET s == {<<"s">>, <<"s", "b">>, <<"e">>} f == {<<"s", "a">>, <<"s", "b", "c">>, <<"e", "f">>}
    IN  [p \in s \cup f \cup {<<"s", "l">>} |->
            IF p \in s THEN Dir("S") ELSE IF p \in f THEN File("S") ELSE Link]

Frame(fn, from, to) ==
    [fn |-> fn, from |-> from, to |-> to, at |-> "start", left |-> {}, name |-> ""]

\* remove and remove_all have the path in `dst`; mkdir and mkdir_p too.
Init ==
    /\ \E c \in {[op |-> "mkdir", src |-> {<<>>}], [op |-> "mkdir_p", src |-> {<<>>}],
                 [op |-> "remove", src |-> {<<>>}], [op |-> "remove_all", src |-> {<<>>}],
                 [op |-> "copy_tree", src |-> {<<"s">>, <<"s", "l">>, <<"s", "a">>}],
                 [op |-> "move", src |-> {<<"s">>}]} :
          op = c.op /\ src \in c.src
    /\ dst \in {<<"d">>, <<"m", "d">>, <<"s">>, <<"s", "b">>, <<"s", "l">>, <<>>}
    /\ flags \in SUBSET (CASE op = "copy_tree" -> {"overwrite", "follow"}
                           [] op = "move" -> {"overwrite"} [] OTHER -> {})
    /\ same_device \in (IF op = "move" THEN BOOLEAN ELSE {TRUE})
    /\ \E there \in Overwritten :
          fs = [p \in DOMAIN Source \cup {e.path : e \in there} |->
                    IF p \in DOMAIN Source THEN Source[p] ELSE (CHOOSE e \in there : e.path = p).node]
    /\ before = fs
    /\ stranger \in {t \in Strangers :    \* it acts where the call does
           Within(t.path, dst) \/ Within(dst, t.path) \/ (src # <<>> /\ Within(t.path, src))}
    /\ came = FALSE
    /\ stack = <<Frame(op, src, dst)>> /\ ret = FALSE

-----------------------------------------------------------------------------
(* A definition named ...Mutant above another one is a faulty variant of   *)
(* it, used to show that a property depends on the definition.             *)

Top         == Head(stack)
In(fn, at)  == stack # <<>> /\ Top.fn = fn /\ Top.at = at
Becomes(f)  == stack' = <<f>> \o Tail(stack) /\ UNCHANGED ret
Goto(at)    == Becomes([Top EXCEPT !.at = at])
Calls(f, then) == stack' = <<f, [Top EXCEPT !.at = then]>> \o Tail(stack) /\ UNCHANGED ret
Returns(v)  == stack' = Tail(stack) /\ ret' = v
Keep        == UNCHANGED <<args, came, fs>>

\* The places where the code has called one of its own functions; if that has
\* failed it stops and fails too.
AfterCall == {"parent", "tree", "made", "copied", "removed", "moved"}
Fails ==
    /\ stack # <<>>
    /\ Top.at \in AfterCall => ~ret
    /\ Returns(FALSE) /\ Keep

-----------------------------------------------------------------------------
(* ucb_fs_mkdir and fs_mkdir_p.                                            *)

MkdirHere(p) ==
    /\ IsDir(Parent(p)) /\ ~Has(At(p)) /\ p # <<>> /\ Len(p) <= MaxPath
    /\ fs' = With(fs, At(p), Dir("new")) /\ Returns(TRUE) /\ UNCHANGED <<args, came>>

Mkdir == In("mkdir", "start") /\ MkdirHere(Top.to)

MkdirFirst ==
    /\ In("mkdir_p", "start")
    /\ \/ MkdirHere(Top.to)
       \/ (Top.to = <<>> \/ Has(At(Top.to))) /\ Goto("exists") /\ Keep

\* EEXIST: it must be a directory, not a link to one.
ExistingIsDirMutant(p) == IsDir(Real(fs, p))
ExistingIsDir(p)       == IsDir(At(p))

MkdirExisting ==
    /\ In("mkdir_p", "exists") /\ ExistingIsDir(Top.to) /\ Returns(TRUE) /\ Keep

\* ENOENT: first its parent ...
MkdirParent ==
    /\ In("mkdir_p", "start") /\ Top.to # <<>> /\ Parent(Top.to) \notin DOMAIN fs \cup {<<>>}
    /\ Calls(Frame("mkdir_p", <<>>, Front(Top.to)), "parent") /\ Keep

\* ... then again; whatever exists by then is taken for success.
MkdirSecond ==
    /\ In("mkdir_p", "parent") /\ ret
    /\ \/ MkdirHere(Top.to)
       \/ Has(At(Top.to)) /\ Returns(TRUE) /\ Keep

-----------------------------------------------------------------------------
(* ucb_dir_open and ucb_dir_next: the entries at the time of the open, in  *)
(* any order; one that is created later is not seen.                       *)

OpenDir(fn, p) ==
    /\ In(fn, "open") /\ IsDir(Real(fs, p))
    /\ Becomes([Top EXCEPT !.at = "next", !.left = Children(Real(fs, p))]) /\ Keep

NextEntry(fn, then) ==
    /\ In(fn, "next")
    /\ \E n \in Top.left :
          Becomes([Top EXCEPT !.at = then, !.left = @ \ {n}, !.name = n])
    /\ Keep

AtEndMutant(fn) == In(fn, "next")
AtEnd(fn)       == In(fn, "next") /\ Top.left = {}

-----------------------------------------------------------------------------
(* ucb_fs_remove and fs_remove_all.                                        *)

RemovalOfMutant(p) == IF IsDir(Real(fs, p)) THEN "open" ELSE "unlink"
RemovalOf(p)       == IF IsKind(At(p), "dir") THEN "open" ELSE "unlink"

RemoveOne ==
    /\ In("remove", "start") /\ Has(At(Top.to))
    /\ Goto(IF IsKind(At(Top.to), "dir") THEN "rmdir" ELSE "unlink") /\ Keep

\* A root is refused by the call that is made, and never reached by the others.
RemoveKind ==
    /\ In("remove_all", "start") /\ Top.to # <<>>
    /\ \/ ~Has(At(Top.to)) /\ Returns(TRUE)
       \/ Has(At(Top.to)) /\ Goto(RemovalOf(Top.to))
    /\ Keep

RemoveOpen == OpenDir("remove_all", Top.to)
RemoveNext == NextEntry("remove_all", "child")
RemoveChild ==
    /\ In("remove_all", "child")
    /\ Calls(Frame("remove_all", <<>>, Append(Top.to, Top.name)), "removed") /\ Keep
RemoveMore == In("remove_all", "removed") /\ ret /\ Goto("next") /\ Keep
RemoveDone == AtEnd("remove_all") /\ Goto("rmdir") /\ Keep

Unlink ==
    /\ stack # <<>> /\ Top.at = "unlink" /\ Has(At(Top.to)) /\ ~IsKind(At(Top.to), "dir")
    /\ fs' = Without(fs, At(Top.to)) /\ Returns(TRUE) /\ UNCHANGED <<args, came>>

Rmdir ==
    /\ stack # <<>> /\ Top.at = "rmdir" /\ IsKind(At(Top.to), "dir") /\ Children(At(Top.to)) = {}
    /\ fs' = Without(fs, At(Top.to)) /\ Returns(TRUE) /\ UNCHANGED <<args, came>>

-----------------------------------------------------------------------------
(* fs_copy_dir.                                                            *)

Follow == "follow" \in flags
ChildSrc == Append(Top.from, Top.name)
ChildDst == Append(Top.to, Top.name)
KindOf(p) == IF Follow THEN fs[Real(fs, p)].kind ELSE fs[At(p)].kind

CopyOpen == OpenDir("copy_dir", Top.from)
CopyNext == NextEntry("copy_dir", "kind")

CopyKind ==
    /\ In("copy_dir", "kind") /\ Has(At(ChildSrc))
    /\ IF KindOf(ChildSrc) = "dir"
       THEN Calls(Frame("mkdir_p", <<>>, ChildDst), "made") ELSE Goto("file")
    /\ Keep

Descend ==
    /\ In("copy_dir", "made") /\ ret
    /\ Calls([Frame("copy_dir", ChildSrc, ChildDst) EXCEPT !.at = "open"], "copied") /\ Keep

\* fs_copy_meta: mode and modification time, of what the paths lead to.
Meta(from, to) ==
    /\ Has(Real(fs, from)) /\ Has(Real(fs, to))
    /\ fs' = [fs EXCEPT ![Real(fs, to)].meta = fs[Real(fs, from)].meta]

Ascend ==
    /\ In("copy_dir", "copied") /\ ret
    /\ Meta(ChildSrc, ChildDst) /\ Goto("next") /\ UNCHANGED <<args, came>>

\* ucb_fs_copy_file.
CopyEntry ==
    /\ In("copy_dir", "file") /\ Has(At(ChildSrc)) /\ IsDir(Parent(ChildDst)) /\ Len(ChildDst) <= MaxPath
    /\ ~IsKind(At(ChildDst), "dir") /\ (Has(At(ChildDst)) => "overwrite" \in flags)
    /\ fs' = With(fs, At(ChildDst), IF Follow THEN fs[Real(fs, ChildSrc)] ELSE fs[At(ChildSrc)])
    /\ Goto("next") /\ UNCHANGED <<args, came>>

CopyDone == AtEnd("copy_dir") /\ Returns(TRUE) /\ Keep

-----------------------------------------------------------------------------
(* ucb_fs_copy_tree and ucb_fs_move.                                       *)

TreeSource ==
    /\ In("copy_tree", "start") /\ ~Within(Top.to, Top.from) /\ IsDir(Real(fs, Top.from))
    /\ Goto("dst") /\ Keep

TreeDest ==
    /\ In("copy_tree", "dst")
    /\ \/ /\ IsDir(At(Top.to)) /\ "overwrite" \in flags
          /\ Calls([Frame("copy_dir", Top.from, Top.to) EXCEPT !.at = "open"], "copied")
       \/ Top.to # <<>> /\ ~Has(At(Top.to)) /\ Calls(Frame("mkdir_p", <<>>, Top.to), "tree")
    /\ Keep

TreeFill ==
    /\ In("copy_tree", "tree") /\ ret
    /\ Calls([Frame("copy_dir", Top.from, Top.to) EXCEPT !.at = "open"], "copied") /\ Keep

TreeDone ==
    /\ In("copy_tree", "copied") /\ ret
    /\ (Top.to = <<>> /\ UNCHANGED fs) \/ (Top.to # <<>> /\ Meta(Top.from, Top.to))
    /\ Returns(TRUE) /\ UNCHANGED <<args, came>>

\* A directory is moved onto nothing only.
MoveStart == In("move", "start") /\ IsKind(At(Top.from), "dir") /\ Goto("dst") /\ Keep
MoveDst   == In("move", "dst") /\ Top.to # <<>> /\ ~Has(At(Top.to)) /\ Goto("rename") /\ Keep

\* rename(2) fails for a directory into itself or onto something not empty.
MoveRename ==
    /\ In("move", "rename") /\ same_device
    /\ IsDir(Parent(Top.to)) /\ Children(At(Top.to)) = {} /\ ~Within(At(Top.to), Top.from)
    /\ Has(At(Top.to)) => IsDir(At(Top.to))
    /\ LET moved == {q \in DOMAIN fs : Within(q, Top.from)}
           to(q) == At(Top.to) \o SubSeq(q, Len(Top.from) + 1, Len(q))
       IN  fs' = [p \in ((DOMAIN fs) \ moved) \cup {to(q) : q \in moved} |->
                    IF \E q \in moved : to(q) = p THEN fs[CHOOSE q \in moved : to(q) = p] ELSE fs[p]]
    /\ Returns(TRUE) /\ UNCHANGED <<args, came>>

MoveAcross ==
    /\ In("move", "rename") /\ ~same_device
    /\ Calls(Frame("copy_tree", Top.from, Top.to), "moved") /\ Keep

\* What remains is removed only after a complete copy.
AfterCopyMutant == Top.at = "moved"
AfterCopy       == Top.at = "moved" /\ ret

MoveRemove ==
    /\ stack # <<>> /\ Top.fn = "move" /\ AfterCopy
    /\ Becomes(Frame("remove_all", <<>>, Top.from)) /\ Keep

-----------------------------------------------------------------------------
\* Another program creates a file or a directory.
OtherCreates ==
    /\ ~came /\ stack # <<>>
    /\ IsDir(Real(fs, Front(stranger.path))) /\ ~Has(At(stranger.path))
    /\ fs' = With(fs, At(stranger.path), stranger.node) /\ came' = TRUE
    /\ UNCHANGED <<args, stack, ret>>

Next ==
    \/ Fails \/ Mkdir \/ MkdirFirst \/ MkdirExisting \/ MkdirParent \/ MkdirSecond
    \/ RemoveOne \/ RemoveKind \/ RemoveOpen \/ RemoveNext \/ RemoveChild \/ RemoveMore \/ RemoveDone
    \/ Unlink \/ Rmdir
    \/ CopyOpen \/ CopyNext \/ CopyKind \/ Descend \/ Ascend \/ CopyEntry \/ CopyDone
    \/ TreeSource \/ TreeDest \/ TreeFill \/ TreeDone
    \/ MoveStart \/ MoveDst \/ MoveRename \/ MoveAcross \/ MoveRemove
    \/ OtherCreates

Spec == Init /\ [][Next]_vars

-----------------------------------------------------------------------------
(* Properties.                                                             *)

Copies   == op \in {"copy_tree", "move"}
Removes  == op \in {"remove", "remove_all"}
Returned == stack = <<>>

\* What a path named at the call.
Named(p) == IF p = <<>> THEN p ELSE Append(Real(before, Front(p)), Last(p))
Place    == Named(dst)

\* The tree that a copy of the source should be: what each path below the
\* destination should have.  A link that is followed stands for what it leads to.
From  == Real(before, src)
Below == {SubSeq(q, Len(From) + 1, Len(q)) : q \in {q \in DOMAIN before : Within(q, From)}}
Image ==
    LET via == IF Follow
               THEN {r \in Below : before[From \o r].kind = "link"} ELSE {}
        inner == {SubSeq(q, Len(LinkTarget) + 1, Len(q)) : q \in {q \in DOMAIN before : Within(q, LinkTarget)}}
    IN  [r \in Below \cup {v \o i : v \in via, i \in inner} |->
            LET p == From \o r IN IF Follow THEN before[Real(before, p)] ELSE before[p]]

CopiedTo(p) == \A r \in DOMAIN Image : Has(p \o r) /\ fs[p \o r] = Image[r]

\* A call that returns true has done all of it: the directory is there, the whole
\* tree is gone, or every entry of the source is in the destination with the
\* metadata of the source.
TreeComplete ==
    Returned /\ ret =>
        /\ op \in {"mkdir", "mkdir_p"} => IsDir(At(dst))
        /\ Removes => \A p \in DOMAIN fs : ~Within(p, Place)
        /\ Copies /\ dst # <<>> => CopiedTo(Place)
        /\ op = "move" => \A p \in DOMAIN fs : ~Within(p, src)

\* "Symbolic links are removed without being followed", and a copy writes through
\* no link either: nothing outside the destination, or the tree that is removed,
\* is changed, and what the destination had besides the source stays (unless another
\* program has put an entry of the same name into the source).
OutsideUntouched ==
    LET copy(p) == came /\ Within(p, Place) /\ p # <<>> /\ Last(p) = Last(stranger.path)
        mine(p) == \/ Copies /\ (copy(p) \/ \E r \in DOMAIN Image : p = Place \o r)
                   \/ Removes /\ Within(p, Place)
                   \/ op = "move" /\ Within(p, src)
        new(p)  == Within(Place, p) \/ (Copies /\ Within(p, Place)) \/ p = Named(stranger.path)
    IN  /\ \A p \in DOMAIN before : mine(p) \/ (Has(p) /\ (fs[p] = before[p] \/ p = Place))
        /\ \A p \in (DOMAIN fs) \ DOMAIN before : mine(p) \/ new(p)

\* "A destination equal to or inside @p src is refused [...] so a copy cannot recurse
\* into itself": no directory is copied into itself.
NotIntoItself ==
    \A i \in 1..Len(stack) :
        stack[i].fn = "copy_dir" => ~Within(At(stack[i].to), Real(fs, stack[i].from))

\* "If the copy succeeds but the delete fails, the destination is retained": while
\* any part of the source of a move is missing, the destination has all of it.
TreeNotLost ==
    op = "move" =>
        \/ \A p \in DOMAIN before : Within(p, src) => Has(p) /\ fs[p] = before[p]
        \/ CopiedTo(Place)
=============================================================================
