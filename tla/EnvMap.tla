------------------------------- MODULE EnvMap -------------------------------
(***************************************************************************)
(* ucb_envmap of src/ucb/envmap.c and the environment it is taken from and *)
(* applied to (src/ucb/env.c).  A map is a sequence of entries that is     *)
(* searched from its front; values are sequences of words.                 *)
(*                                                                         *)
(* Every allocation may fail, if a handler survives the report.  An entry  *)
(* may then have lost its text, and a map the array of its entries.        *)
(***************************************************************************)
EXTENDS Integers, Sequences, SequencesExt, FiniteSets

CONSTANTS
    Names, Values,  \* what variables are called, and what is set, appended and prepended
    Environs,       \* the environments a process may start with: sequences of entries
    MaxEntries, MaxWords,   \* bounds: the entries of a map, and the words of a value
    Known,          \* known faults that may happen: "again"
    None

VARIABLES
    environ,        \* the environment of the process: entries, or None for one without "="
    a, b,           \* two maps: their entries, and whether the array of these is there
    before,         \* environ, a and b before the last call
    call,           \* the last call: fn, its arguments and result, and whether memory lacked
    broken          \* it has aborted, or used memory that is freed or was never written

vars == <<environ, a, b, before, call, broken>>

Variable(n, v) == [name |-> n, value |-> v]
\* An entry's text: its "own" block, the "literal" "", "null", or "freed" and still pointed
\* to.  One that is lost keeps its length, here the value.
Entry(n, v) == [name |-> n, value |-> v, text |-> "own"]
\* The array is "freed" when realloc has failed to grow it, "none" if there was no memory
\* for the vector.  A map without entries is taken to have no block to grow yet.
NewMap == [entries |-> <<>>, array |-> "live"]
Sep == <<":">>

-----------------------------------------------------------------------------
(* A definition named ...Mutant above another one is a faulty variant of   *)
(* it, used to show that a property depends on the definition.             *)

\* envmap_find: the first entry of a name, or 0.
find(entries, n) ==
    LET at == {k \in DOMAIN entries : entries[k].name = n}
    IN IF at = {} THEN 0 ELSE CHOOSE k \in at : \A j \in at : k <= j
get(entries, n) == IF find(entries, n) = 0 THEN None ELSE entries[find(entries, n)].value

\* What may come of a call on a map.
Outcome(map, ok, lack) == [map |-> map, ok |-> ok, lack |-> lack, broken |-> FALSE]
Breaks(map, lack)      == [map |-> map, ok |-> FALSE, lack |-> lack, broken |-> TRUE]

\* ucb_vector_ptr_push_back, whose failure is not looked at.
PushBack(map, e) ==
    {Outcome([map EXCEPT !.entries = Append(@, e)], TRUE, FALSE),
     Outcome(IF map.entries = <<>> THEN map ELSE [map EXCEPT !.array = "freed"], TRUE, TRUE)}

SetMutant(map, n, v) == [map EXCEPT !.entries = Append(@, Entry(n, v))]
\* The map with another value for a name that it has.
Set(map, n, v) == [map EXCEPT !.entries[find(map.entries, n)] = Entry(n, v)]
Lose(map, n, v, text) ==
    [map EXCEPT !.entries[find(map.entries, n)] = [name |-> n, value |-> v, text |-> text]]

\* ucb_str_copy to the value of a name, which releases what it had first.
CopyTo(map, n, v) ==
    LET e == map.entries[find(map.entries, n)] IN
    IF e.text = "freed" THEN {Breaks(map, FALSE)}
    ELSE {Outcome(Set(map, n, v), TRUE, FALSE), Outcome(Lose(map, n, e.value, "null"), FALSE, TRUE)}
\* ucb_envmap_set; there may be no memory for a new entry.
Sets(map, n, v) ==
    IF find(map.entries, n) # 0 THEN CopyTo(map, n, v)
    ELSE PushBack(map, Entry(n, v)) \cup {Outcome(map, FALSE, TRUE)}
Unsets(map, n) ==
    LET k == find(map.entries, n) IN
    IF k = 0 THEN {Outcome(map, FALSE, FALSE)}
    ELSE IF map.entries[k].text = "freed" THEN {Breaks(map, FALSE)}
    ELSE {Outcome([map EXCEPT !.entries = RemoveAt(@, k)], TRUE, FALSE)}

Readable(e) == e.text \in {"own", "literal"} \/ (e.text = "null" /\ e.value = <<>>)
After(old)  == IF old = <<>> THEN <<>> ELSE old \o Sep      \* the separator between two texts
Before(old) == IF old = <<>> THEN <<>> ELSE Sep \o old

\* ucb_envmap_append, which returns true.  The separator is appended before the value: a
\* block that is lost to the one is used by the other.
Appends(map, n, v) ==
    LET e == map.entries[find(map.entries, n)] IN
    IF find(map.entries, n) = 0 THEN Sets(map, n, v)
    ELSE IF e.text = "freed" THEN {Breaks(map, FALSE)}
    ELSE {IF Readable(e) THEN Outcome(Set(map, n, After(e.value) \o v), TRUE, FALSE) ELSE Breaks(map, FALSE),
          IF e.text = "own" THEN Outcome(Lose(map, n, After(e.value), "freed"), TRUE, TRUE)
                            ELSE Outcome(map, TRUE, TRUE)}
         \cup (IF e.text = "own" /\ e.value # <<>> THEN {Breaks(map, TRUE)} ELSE {})
\* ucb_envmap_prepend makes a new text, to which it appends what is there, and copies it.
Prepends(map, n, v) ==
    LET e == map.entries[find(map.entries, n)] IN
    IF find(map.entries, n) = 0 THEN Sets(map, n, v)
    ELSE {Outcome(map, FALSE, TRUE)}
         \cup (IF Readable(e) THEN CopyTo(map, n, v \o Before(e.value)) ELSE {Breaks(map, FALSE)})
         \cup (IF e.value # <<>> THEN {Breaks(map, TRUE)} ELSE {})

\* A clone of an entry; a null text is cloned as the literal.
Clone(e) == IF e.text = "null" THEN [e EXCEPT !.value = <<>>, !.text = "literal"] ELSE Entry(e.name, e.value)
\* Entries that are made of es and pushed to a map one after the other, without those for
\* which there is no memory.
Pushed(r, e) ==
    IF r.broken THEN {r}
    ELSE {[r EXCEPT !.lack = TRUE]}
         \cup (IF "freed" \in {e.text, r.map.array} THEN {Breaks(r.map, r.lack)}
               ELSE {[p EXCEPT !.lack = p.lack \/ r.lack] : p \in PushBack(r.map, Clone(e))})
PushAll(map, es) == FoldLeft(LAMBDA rs, e : UNION {Pushed(r, e) : r \in rs}, {Outcome(map, TRUE, FALSE)}, es)

\* envmap_entry_from_nv: entries without "=" or a name are left out.
Taken(env) == LET named == SelectSeq(env, LAMBDA e : e.name # None)
              IN [k \in DOMAIN named |-> Entry(named[k].name, named[k].value)]

\* ucb_envmap_copy: what the map had is freed, and it gets a new vector.
Copied(from, to) ==
    IF from.array = "none" THEN {Outcome(to, TRUE, FALSE)}
    ELSE IF "freed" \in {from.array, to.array} \cup {to.entries[k].text : k \in DOMAIN to.entries}
    THEN {Breaks(to, FALSE)}
    ELSE PushAll(NewMap, from.entries) \cup {Outcome([NewMap EXCEPT !.array = "none"], TRUE, TRUE)}

\* setenv and unsetenv.
Put(env, n, v) == IF find(env, n) = 0 THEN Append(env, Variable(n, v)) ELSE [env EXCEPT ![find(env, n)].value = v]
Drop(env, n)   == SelectSeq(env, LAMBDA e : e.name # n)

\* ucb_envmap_apply of one entry: an empty value unsets a variable.  There may be no memory
\* for what is set, and there may be nothing to set it to.
Applied(r, e) ==
    IF e.value = <<>> THEN {[r EXCEPT !.env = Drop(@, e.name)]}
    ELSE IF e.text \in {"null", "freed"} THEN {[r EXCEPT !.broken = TRUE]}
    ELSE {[r EXCEPT !.env = Put(@, e.name, e.value)], [r EXCEPT !.lack = TRUE]}
ApplyAll(map, env) ==
    FoldLeft(LAMBDA rs, e : UNION {IF r.broken THEN {r} ELSE Applied(r, e) : r \in rs},
             {[env |-> env, lack |-> FALSE, broken |-> FALSE]}, map.entries)

-----------------------------------------------------------------------------
Maps   == [environ |-> environ, a |-> a, b |-> b]
NoCall == [fn |-> "none", name |-> None, value |-> None, ok |-> TRUE, lack |-> FALSE]
Init ==
    /\ environ \in Environs /\ a = NewMap /\ b = NewMap
    /\ before = Maps /\ call = NoCall /\ broken = FALSE

\* A call, and the caller's step after it.
Called(fn, n, v, r) ==
    /\ call = NoCall /\ before' = Maps
    /\ call' = [fn |-> fn, name |-> n, value |-> v, ok |-> r.ok, lack |-> r.lack]
    /\ broken' = r.broken
Return ==
    /\ call # NoCall /\ call' = NoCall
    /\ before' = Maps /\ UNCHANGED <<environ, a, b, broken>>
\* A call on a: every call searches its entries.
OnMap(fn, n, v, outcomes) ==
    \E r \in CASE a.array = "none"  -> {Outcome(a, FALSE, FALSE)}
               [] a.array = "freed" -> {Breaks(a, FALSE)}
               [] OTHER             -> outcomes :
        a' = r.map /\ Called(fn, n, v, r) /\ UNCHANGED <<environ, b>>

\* ucb_envmap_init_from_current, which does not look at what the map has.
InitFromCurrent ==
    /\ a.entries = <<>> \/ "again" \in Known
    /\ Taken(environ) # <<>> /\ OnMap("init", None, None, PushAll(a, Taken(environ)))
SetOne    == \E n \in Names, v \in Values \cup {<<>>} : OnMap("set", n, v, Sets(a, n, v))
Unset     == \E n \in Names : OnMap("unset", n, None, Unsets(a, n))
AppendTo  == \E n \in Names, v \in Values : OnMap("append", n, v, Appends(a, n, v))
PrependTo == \E n \in Names, v \in Values : OnMap("prepend", n, v, Prepends(a, n, v))
\* ucb_envmap_reserve of more than there is.
Reserve ==
    OnMap("reserve", None, None,
          {Outcome(a, TRUE, FALSE), Outcome(IF a.entries = <<>> THEN a ELSE [a EXCEPT !.array = "freed"], TRUE, TRUE)})
\* ucb_envmap_copy and clone.
Copy ==
    \E r \in Copied(a, b) : b' = r.map /\ Called("copy", None, None, r) /\ UNCHANGED <<environ, a>>
\* The caller's turn to b.
Swap ==
    a # b /\ a' = b /\ b' = a /\ Called("swap", None, None, Outcome(a, TRUE, FALSE)) /\ UNCHANGED environ
Apply ==
    \E r \in CASE a.array = "none"  -> {[env |-> environ, lack |-> FALSE, broken |-> FALSE]}
               [] a.array = "freed" -> {[env |-> environ, lack |-> FALSE, broken |-> TRUE]}
               [] OTHER             -> ApplyAll(a, environ) :
        /\ environ' = r.env /\ UNCHANGED <<a, b>>
        /\ Called("apply", None, None, [ok |-> TRUE, lack |-> r.lack, broken |-> r.broken])
\* ucb_env_append and prepend, on the environment itself: with the separator even if it was
\* empty.  A variable for whose copy there is no memory is taken for one that is missing, and
\* a text that could not be appended to is used.
EnvJoin(fn, n, v, joined) ==
    LET old == get(environ, n) IN
    /\ UNCHANGED <<a, b>>
    /\ \/ environ' = Put(environ, n, IF old = None THEN v ELSE joined) /\ Called(fn, n, v, Outcome(a, TRUE, FALSE))
       \/ UNCHANGED environ /\ Called(fn, n, v, Outcome(a, FALSE, TRUE))
       \/ old # None /\ environ' = Put(environ, n, v) /\ Called(fn, n, v, Outcome(a, TRUE, TRUE))
       \/ old # None /\ UNCHANGED environ /\ Called(fn, n, v, Breaks(a, TRUE))
EnvAppend ==
    \E n \in Names, v \in Values :
        \/ EnvJoin("env_append", n, v, get(environ, n) \o Sep \o v)
        \/ EnvJoin("env_prepend", n, v, v \o Sep \o get(environ, n))

Next ==
    /\ ~broken
    /\ \/ Return \/ InitFromCurrent \/ SetOne \/ Unset \/ AppendTo \/ PrependTo \/ Reserve
       \/ Copy \/ Swap \/ Apply \/ EnvAppend
Spec == Init /\ [][Next]_vars

\* Bounds: one text or array is lost at a time, and with two maps the environment is one of
\* those at the start.
Losses(map) == Cardinality({k \in DOMAIN map.entries : map.entries[k].text \in {"null", "freed"}})
               + (IF map.array = "live" THEN 0 ELSE 1)
Small == /\ Losses(a) + Losses(b) <= 1 /\ (b = NewMap \/ environ \in Environs)
         /\ Len(a.entries) <= MaxEntries /\ Len(b.entries) <= MaxEntries
         /\ \A m \in {environ, a.entries, b.entries} :
               \A k \in DOMAIN m : m[k].name = None \/ Len(m[k].value) <= MaxWords

-----------------------------------------------------------------------------
(* Properties.                                                             *)

\* A map as its users see it: in a child's environment (ucb_envmap_to_envp) the first
\* entry of a name counts, as it does in get.
Held(map) == [n \in Names |-> get(map.entries, n)]
Lost(map, n) ==
    find(map.entries, n) # 0 /\ map.entries[find(map.entries, n)].text \in {"null", "freed"}
Whole(map) == map.array = "live" /\ \A n \in Names : ~Lost(map, n)

\* What a variable is after the last call.
Told(n, old) ==
    CASE call.fn = "init" -> get(Taken(environ), n)
      [] call.fn \notin {"init", "none"} /\ n # call.name -> old
      [] call.fn = "set"     -> call.value
      [] call.fn = "unset"   -> None
      [] call.fn = "append"  -> IF old = None THEN call.value ELSE After(old) \o call.value
      [] call.fn = "prepend" -> IF old = None THEN call.value ELSE call.value \o Before(old)
      [] OTHER -> old

\* With memory, what a call is told is what the map then has: no entry is shadowed by
\* another of its name, whatever comes of being set, unset, copied and taken from the
\* process, and every text and array is there.
MapExact ==
    ~call.lack /\ Whole(before.a) /\ Whole(before.b) =>
        /\ ~broken /\ Whole(a) /\ Whole(b)
        /\ \A n \in Names :
              Held(a)[n] = IF call.fn = "swap" THEN Held(before.b)[n]
                           ELSE IF call.ok \/ call.fn = "unset" THEN Told(n, Held(before.a)[n])
                           ELSE Held(before.a)[n]
        /\ call.fn = "copy" => Held(b) = Held(a)

\* Without memory, a call on a map changes no other variable than its own, and that to
\* what it is told or not at all, unless its text is lost; a value that is refused is not
\* there.  A copy has nothing that is not in the map it is made of.
MapKept ==
    ~broken /\ call.fn # "swap" /\ a.array = "live" =>
        /\ \A n \in Names :
              IF Lost(a, n) THEN Lost(before.a, n) \/ (n = call.name /\ call.lack)
              ELSE Held(a)[n] \in {Held(before.a)[n]} \cup (IF call.ok THEN {Told(n, Held(before.a)[n])} ELSE {})
        /\ call.fn = "copy" /\ b.array = "live" =>
              \A n \in Names : Held(b)[n] \in {None, IF Lost(a, n) THEN <<>> ELSE Held(a)[n]}

\* Applying a map gives the process its variables, without those that are empty, and
\* touches no other; joining one gives it the joined value, or the new one where there is
\* no memory to look at the old.
EnvironmentGiven ==
    \A n \in Names :
        LET old == get(before.environ, n)
            new == get(environ, n)
            got == get(a.entries, n)
        IN /\ call.fn = "apply" /\ ~broken =>
                 new \in {CASE got = None -> old [] got = <<>> -> None [] OTHER -> got}
                        \cup (IF call.lack THEN {old} ELSE {})
           /\ call.fn \in {"env_append", "env_prepend"} =>
                 new \in IF n # call.name \/ ~call.ok \/ broken THEN {old}
                        ELSE IF old = None THEN {call.value}
                        ELSE (IF call.lack THEN {call.value} ELSE {})
                             \cup (IF call.fn = "env_append" THEN {old \o Sep \o call.value}
                                   ELSE {call.value \o Sep \o old})

\* The maps and the environment are what the calls on them say.
MapHolds == MapExact /\ MapKept /\ EnvironmentGiven

\* envmap.h: append, set and prepend return true "if the variable was set".
TrueMeansSet ==
    call.ok /\ call.fn \in {"set", "append", "prepend"} =>
        Whole(a) /\ Held(a)[call.name] = Told(call.name, Held(before.a)[call.name])

\* A call that says that it has not set a variable has left it as it was.
FailureKeeps == ~call.ok /\ call.fn # "unset" => a = before.a
=============================================================================
