----------------------------- MODULE FileHandle -----------------------------
(***************************************************************************)
(* The handles of src/ucb/file.c and file_unix.c: what owns a descriptor,  *)
(* when it is closed, and whether child processes inherit it.  One thread  *)
(* uses the handles, a step for each system call that matters; the rest of *)
(* the program opens and closes descriptors of its own in between, so that *)
(* a number is used again as soon as it is free.                           *)
(***************************************************************************)
EXTENDS Integers, Sequences, FiniteSets

CONSTANTS
    Fds,            \* descriptors, 0..n
    Handles,
    MaxOpens,       \* bound: descriptors ever opened
    None

VARIABLES
    desc,           \* desc[fd]: what is open as fd
    handle,         \* handle[h]: an ucb_file, closed if its fd is -1
    opened,         \* the number of descriptors opened so far
    call,           \* the call in progress
    erred           \* history: ucb_file_close has reported an error

vars == <<desc, handle, opened, call, erred>>

Idle == [fn |-> "none"]
Init ==
    /\ desc = [fd \in Fds |-> None]
    /\ handle = [h \in Handles |-> None]
    /\ opened = 0 /\ call = Idle /\ erred = FALSE

-----------------------------------------------------------------------------
(* A definition named ...Mutant above another one is a faulty variant of   *)
(* it, used to show that a property depends on the definition.             *)

Free    == {fd \in Fds : desc[fd] = None}
Lowest(S) == CHOOSE x \in S : \A y \in S : x <= y
NewFd   == Lowest(Free)
Second  == Lowest(Free \ {NewFd})
Unused  == {h \in Handles : handle[h] = None}
NewOne  == CHOOSE h \in Unused : TRUE
Usable(h) == handle[h] # None /\ handle[h].fd # -1          \* ucb_file_is_valid

\* The `id` of a descriptor tells it from the others that have had its number.
Descriptor(n, who, cloexec) == [id |-> opened + n, who |-> who, cloexec |-> cloexec]
Object(fd, own, flags)      == [fd |-> fd, own |-> own, flags |-> flags, id |-> desc[fd].id]

CloseFds(S) == desc' = [fd \in Fds |-> IF fd \in S THEN None ELSE desc[fd]]
Ends        == call' = Idle

Calling(fn, at, flags, fds, of) ==
    [fn |-> fn, at |-> at, flags |-> flags, fds |-> fds, made |-> {}, of |-> of]
Two(S) == \E x, y \in S : x # y

\* ucb_file_unix_detect_flags.
Detected(fd) == IF desc[fd].cloexec THEN {"cloexec"} ELSE {"inherit"}

-----------------------------------------------------------------------------
(* ucb_file_open_mode, ucb_pipe_create, ucb_file_dup: a descriptor for     *)
(* each handle, its inheritance, and then the handles one by one.          *)

Open ==
    /\ call = Idle /\ opened < MaxOpens /\ Unused # {} /\ Free # {}
    /\ \E flags \in {{}, {"cloexec"}, {"inherit"}} :
          /\ desc' = [desc EXCEPT ![NewFd] = Descriptor(1, "ucb", "cloexec" \in flags)]
          /\ call' = Calling("open", IF flags = {} THEN "wrap" ELSE "inherit", flags, <<NewFd>>, None)
    /\ opened' = opened + 1 /\ UNCHANGED <<handle, erred>>

Pipe ==
    /\ call = Idle /\ opened + 1 < MaxOpens /\ Two(Unused) /\ Two(Free)
    /\ \E flags \in {{}, {"cloexec"}, {"inherit"}} :
          /\ desc' = [desc EXCEPT ![NewFd]  = Descriptor(1, "ucb", "cloexec" \in flags),
                                  ![Second] = Descriptor(2, "ucb", "cloexec" \in flags)]
          /\ call' = Calling("pipe", IF "inherit" \in flags THEN "inherit" ELSE "wrap", flags,
                             <<NewFd, Second>>, None)
    /\ opened' = opened + 2 /\ UNCHANGED <<handle, erred>>

\* The duplicate is close-on-exec at first.
Dup(h) ==
    /\ call = Idle /\ Usable(h) /\ desc[handle[h].fd] # None /\ opened < MaxOpens /\ Unused # {} /\ Free # {}
    /\ desc' = [desc EXCEPT ![NewFd] = Descriptor(1, "ucb", TRUE)]
    /\ call' = Calling("dup", "inherit", handle[h].flags, <<NewFd>>, handle[h].fd)
    /\ opened' = opened + 1 /\ UNCHANGED <<handle, erred>>

InheritanceMutant == call.fn = "dup" \/ "inherit" \notin call.flags
Inheritance ==
    IF call.fn # "dup" THEN "inherit" \notin call.flags
    ELSE desc[call.of] # None => desc[call.of].cloexec

\* ucb_file_unix_apply_inherit.
ApplyInherit ==
    /\ call # Idle /\ call.at = "inherit"
    /\ desc' = [fd \in Fds |-> IF \E i \in 1..Len(call.fds) : call.fds[i] = fd
                               THEN [desc[fd] EXCEPT !.cloexec = Inheritance] ELSE desc[fd]]
    /\ call' = [call EXCEPT !.at = "wrap"] /\ UNCHANGED <<handle, opened, erred>>

\* What the new handle says of itself.
FlagsOf(fd) == IF call.fn = "pipe" THEN Detected(fd) ELSE call.flags

\* ucb_file_unix_from_fd for the next descriptor.
Wrap ==
    /\ call # Idle /\ call.at = "wrap" /\ Cardinality(call.made) < Len(call.fds)
    /\ LET fd == call.fds[Cardinality(call.made) + 1]
       IN  handle' = [handle EXCEPT ![NewOne] = Object(fd, TRUE, FlagsOf(fd))]
    /\ call' = IF Cardinality(call.made) + 1 = Len(call.fds) THEN Idle
               ELSE [call EXCEPT !.made = @ \cup {NewOne}]
    /\ UNCHANGED <<desc, opened, erred>>

\* When any of it fails, the handles made so far are freed and every descriptor
\* is closed.
AbandonedMutant(fds) == {fds[i] : i \in (Cardinality(call.made) + 1)..Len(fds)}
Abandoned(fds)       == {fds[i] : i \in 1..Len(fds)}

OpenFails ==
    /\ call # Idle
    /\ CloseFds(Abandoned(call.fds))
    /\ handle' = [h \in Handles |-> IF h \in call.made THEN None ELSE handle[h]]
    /\ Ends /\ UNCHANGED <<opened, erred>>

\* ucb_file_from_fd: the program gives the handle its descriptor, or lends it, to
\* one at a time.
FromFd(fd, own) ==
    /\ call = Idle /\ Unused # {} /\ desc[fd] # None /\ desc[fd].who = "other"
    /\ \A h \in Handles : ~(Usable(h) /\ handle[h].fd = fd)
    /\ handle' = [handle EXCEPT ![NewOne] = Object(fd, own, Detected(fd))]
    /\ desc' = IF own THEN [desc EXCEPT ![fd].who = "ucb"] ELSE desc
    /\ UNCHANGED <<opened, call, erred>>

-----------------------------------------------------------------------------
(* ucb_file_close and ucb_file_free.                                       *)

\* ucb_file_invalidate.
Closed(f) == [f EXCEPT !.fd = -1, !.own = FALSE, !.flags = {}]

HasResource(h) == handle[h].own /\ handle[h].fd # -1

Close(h) ==
    /\ call = Idle /\ handle[h] # None
    /\ handle' = [handle EXCEPT ![h] = Closed(@)]
    /\ CloseFds(IF HasResource(h) THEN {handle[h].fd} ELSE {})
    /\ UNCHANGED <<opened, call, erred>>

\* close(2) reports an error: it has closed the descriptor, and the handle is left
\* as it was.
CloseReportsError(h) ==
    /\ call = Idle /\ handle[h] # None /\ HasResource(h)
    /\ CloseFds({handle[h].fd}) /\ erred' = TRUE /\ UNCHANGED <<handle, opened, call>>

FreeHandle(h) ==
    /\ call = Idle /\ handle[h] # None
    /\ CloseFds(IF HasResource(h) THEN {handle[h].fd} ELSE {})
    /\ handle' = [handle EXCEPT ![h] = None]
    /\ UNCHANGED <<opened, call, erred>>

\* ucb_file_set_inherit.
SetInherit(h, inherit) ==
    /\ call = Idle /\ Usable(h) /\ desc[handle[h].fd] # None
    /\ desc' = [desc EXCEPT ![handle[h].fd].cloexec = ~inherit]
    /\ handle' = [handle EXCEPT ![h].flags = {IF inherit THEN "inherit" ELSE "cloexec"}]
    /\ UNCHANGED <<opened, call, erred>>

-----------------------------------------------------------------------------
(* The rest of the program, which closes only what is its own and not lent *)
(* to a handle.                                                            *)

OtherOpens ==
    /\ opened < MaxOpens /\ Free # {}
    /\ \E b \in BOOLEAN : desc' = [desc EXCEPT ![NewFd] = Descriptor(1, "other", b)]
    /\ opened' = opened + 1 /\ UNCHANGED <<handle, call, erred>>

OtherCloses(fd) ==
    /\ desc[fd] # None /\ desc[fd].who = "other"
    /\ \A h \in Handles : ~(Usable(h) /\ handle[h].fd = fd)
    /\ CloseFds({fd}) /\ UNCHANGED <<handle, opened, call, erred>>

Next ==
    \/ Open \/ Pipe \/ ApplyInherit \/ Wrap \/ OpenFails \/ OtherOpens
    \/ \E h \in Handles :
          \/ Dup(h) \/ Close(h) \/ CloseReportsError(h) \/ FreeHandle(h)
          \/ \E b \in BOOLEAN : SetInherit(h, b)
    \/ \E fd \in Fds : OtherCloses(fd) \/ \E own \in BOOLEAN : FromFd(fd, own)

Spec == Init /\ [][Next]_vars

-----------------------------------------------------------------------------
(* Properties.                                                             *)

Owners(fd) == {h \in Handles : handle[h] # None /\ handle[h].own /\ handle[h].fd = fd}

\* A handle that owns a descriptor owns the one it was made for ...
OwnsItsOwn ==
    \A h \in Handles : handle[h] # None /\ handle[h].own =>
        desc[handle[h].fd] # None /\ desc[handle[h].fd].id = handle[h].id

\* ... so that it never closes the descriptor of somebody else, unless a close has
\* reported an error; and what ucb has opened is owned by one handle or held by the
\* call that is making it.
DescriptorsAccounted ==
    ~erred =>
        /\ OwnsItsOwn
        /\ \A fd \in Fds : desc[fd] # None /\ desc[fd].who = "ucb" =>
              \/ Cardinality(Owners(fd)) = 1
              \/ call # Idle /\ \E i \in 1..Len(call.fds) : call.fds[i] = fd

\* "The inheritance state of @p file is preserved": whatever has been opened,
\* piped, duplicated or set, a handle that says so is, or is not, inherited.
Tells(flags, d) ==
    /\ "cloexec" \in flags => d.cloexec
    /\ flags # {} /\ "cloexec" \notin flags => ~d.cloexec
InheritanceTold ==
    ~erred => \A h \in Handles : Usable(h) => Tells(handle[h].flags, desc[handle[h].fd])

-----------------------------------------------------------------------------
(* Why it is so: the inductive invariant.                                  *)

Flags   == {"cloexec", "inherit"}
Descs   == [id : Nat, who : {"ucb", "other"}, cloexec : BOOLEAN]
Objects == [fd : Fds \cup {-1}, own : BOOLEAN, flags : SUBSET Flags, id : Nat]
Calls   == [fn : {"open", "pipe", "dup"}, at : {"inherit", "wrap"}, flags : SUBSET Flags,
            fds : Seq(Fds), made : SUBSET Handles, of : Fds \cup {None}]

TypeOK ==
    /\ desc \in [Fds -> Descs \cup {None}] /\ handle \in [Handles -> Objects \cup {None}]
    /\ opened \in Nat /\ call \in Calls \cup {Idle}

\* No two handles have the same descriptor, and the program keeps one that it has lent.
Has(h, fd) == Usable(h) /\ handle[h].fd = fd
Right(f)   ==
    /\ desc[f.fd] # None /\ Tells(f.flags, desc[f.fd])
    /\ f.own <=> desc[f.fd].who = "ucb"
    /\ f.own => desc[f.fd].id = f.id
HandlesKnown ==
    /\ \A h \in Handles : Usable(h) => Right(handle[h])
    /\ \A h \in Handles : handle[h] # None /\ handle[h].own => handle[h].fd # -1
    /\ \A g, h \in Handles : Usable(g) /\ Has(h, handle[g].fd) => g = h

\* What the call in progress has made waits for its handle, and there is one for it.
Waits(fd) == desc[fd] # None /\ desc[fd].who = "ucb" /\ \A h \in Handles : ~Has(h, fd)
One(fd) ==
    /\ call.fn # "pipe" /\ call.fds = <<fd>> /\ call.made = {} /\ Waits(fd) /\ Unused # {}
    /\ call.at = "wrap" => Tells(call.flags, desc[fd])
    /\ call.fn = "open" /\ call.at = "inherit" => call.flags \in {{"cloexec"}, {"inherit"}}
    /\ call.fn = "dup" /\ call.at = "inherit" =>
          \E h \in Handles : Has(h, call.of) /\ handle[h].flags = call.flags
Both(f, g) ==
    /\ call.fn = "pipe" /\ call.fds = <<f, g>> /\ f # g /\ call.made = {}
    /\ Waits(f) /\ Waits(g) /\ Two(Unused)
Rest(f, g, h) ==
    /\ call.fn = "pipe" /\ call.fds = <<f, g>> /\ f # g /\ call.made = {h} /\ call.at = "wrap"
    /\ Has(h, f) /\ handle[h].own /\ Waits(g) /\ Unused # {}
CallKnown ==
    call # Idle => \/ \E f \in Fds : One(f)
                   \/ \E f, g \in Fds : Both(f, g) \/ \E h \in Handles : Rest(f, g, h)

Held(fd) == (\E h \in Handles : Has(h, fd)) \/ (call # Idle /\ \E i \in 1..Len(call.fds) : call.fds[i] = fd)
Accounted == \A fd \in Fds : desc[fd] # None /\ desc[fd].who = "ucb" => Held(fd)

HandleInv == ~erred => TypeOK /\ HandlesKnown /\ CallKnown /\ Accounted
=============================================================================
