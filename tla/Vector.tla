------------------------------- MODULE Vector -------------------------------
(***************************************************************************)
(* The generic vector of src/ucb/container/vector_generic.c: an array that *)
(* grows, in which the elements are values or pointers to items that the   *)
(* vector clones and frees.  A call is one step; what matters is what a    *)
(* sequence of calls, some of which fail, leaves behind.                   *)
(*                                                                         *)
(* Some calls leave a vector in a state that the header does not allow.    *)
(* Each such branch has a name in Divergences and is taken only if it is   *)
(* in `Known`; the history variable `diverged` says that one was taken.    *)
(***************************************************************************)
EXTENDS Integers, FiniteSets, SequencesExt

CONSTANTS
    Vecs, Values,
    Items,              \* the objects that data_clone may return (bounds the elements)
    DefaultCapacity,    \* the capacity if args.initial_capacity is 0
    MaxCapacity,        \* bounds growth
    Null,
    Known

\* "moved": an insert into a vector that was moved from; "fit": fit of an empty
\* vector; "sizes": copy to a vector with smaller elements; "realloc": an array
\* that cannot grow; "insert", "set": the clone for insert or set fails.
Divergences == {"moved", "fit", "sizes", "realloc", "insert", "set"}

ASSUME KnownAssumption == Known \subseteq Divergences
ASSUME CapacityAssumption == DefaultCapacity \in Nat \ {0} /\ MaxCapacity \in Nat

\* struct ucb_vector.
Vectors ==
    [bytes : Nat, capacity : Nat, elems : Seq(Items \cup Values), owned : BOOLEAN, freed : BOOLEAN]

ASSUME NullAssumption == Null \notin Items \cup Values \cup Seq(Values) \cup Vectors

VARIABLES
    vec,        \* vec[v]: Null, or the vector's fields; elems are its first `size` slots
    value,      \* value[i]: what item i holds, Null if it is not allocated
    given,      \* the items that a caller got with out_data
    diverged,   \* history
    corrupted   \* memory that is not the vector's was accessed, or an item freed twice

vars == <<vec, value, given, diverged, corrupted>>

Exists(v) == vec[v] # Null
Full(r)   == Len(r.elems) = r.capacity

\* vec->esize, in units of the smallest element: a pointer is larger than a value.
Size(r) == IF r.owned THEN 2 ELSE 1

\* The array is large enough for n elements of r.
Holds(r, n) == ~r.freed /\ n * Size(r) <= r.bytes

Init ==
    /\ vec = [v \in Vecs |-> Null] /\ value = [i \in Items |-> Null]
    /\ given = {} /\ diverged = FALSE /\ corrupted = FALSE

-----------------------------------------------------------------------------
(* A definition named ...Mutant above another one is a faulty variant of   *)
(* it, used to show that a property depends on the definition.             *)

\* A call begins: nothing is promised once memory has been corrupted, and an array
\* that has been given back is only used by UseFreed.
Call(v) == ~corrupted /\ Exists(v) /\ ~vec[v].freed

Becomes(v, r) == vec' = [vec EXCEPT ![v] = r]
Diverges(kind) == kind \in Known /\ diverged' = TRUE

\* data_free for every element in e: each must be allocated, and only freed once.
FreeItems(r, e, kept) ==
    IF ~r.owned THEN value' = kept /\ UNCHANGED corrupted
    ELSE IF \A i \in DOMAIN e : value[e[i]] # Null /\ \A j \in DOMAIN e : e[i] = e[j] => i = j
    THEN /\ value' = [i \in Items |-> IF i \in Range(e) THEN Null ELSE kept[i]]
         /\ UNCHANGED corrupted
    ELSE corrupted' = TRUE /\ UNCHANGED value

\* What is stored for the value x: x itself, or a new item with a clone of it.
Stored(r, x) == IF r.owned THEN {i \in Items : value[i] = Null} ELSE {x}
WithClone(r, e, x) == IF r.owned THEN [value EXCEPT ![e] = x] ELSE value

\* ucb_vector_new; if it fails there is no vector.
Fresh(owned, c) ==
    [bytes |-> c * (IF owned THEN 2 ELSE 1), capacity |-> c, elems |-> <<>>,
     owned |-> owned, freed |-> FALSE]
New(v, owned) ==
    /\ ~corrupted /\ ~Exists(v) /\ Becomes(v, Fresh(owned, DefaultCapacity))
    /\ UNCHANGED <<value, given, diverged, corrupted>>

Clear(v) ==
    /\ Call(v) /\ FreeItems(vec[v], vec[v].elems, value)
    /\ Becomes(v, [vec[v] EXCEPT !.elems = <<>>])
    /\ UNCHANGED <<given, diverged>>

Free(v) ==
    /\ Call(v) /\ FreeItems(vec[v], vec[v].elems, value) /\ Becomes(v, Null)
    /\ UNCHANGED <<given, diverged>>

-----------------------------------------------------------------------------
(* Capacity.                                                               *)

\* ucb_vector_reserve, when realloc succeeds.
Reserved(r, n) ==
    IF n <= r.capacity THEN r ELSE [r EXCEPT !.capacity = n, !.bytes = n * Size(r)]

Reserve(v, n) ==
    /\ Call(v) /\ Becomes(v, Reserved(vec[v], n))
    /\ UNCHANGED <<value, given, diverged, corrupted>>

\* ucb_realloc fails: it has freed the array, which the vector keeps.
Lost(r) == [r EXCEPT !.freed = (r.bytes > 0)]
ReserveFails(v, n) ==
    /\ Call(v) /\ n > vec[v].capacity
    /\ Diverges("realloc") /\ Becomes(v, Lost(vec[v]))
    /\ UNCHANGED <<value, given, corrupted>>

Fit(v) ==
    /\ Call(v) /\ vec[v].elems # <<>>
    /\ LET n == Len(vec[v].elems)
       IN  IF n < vec[v].capacity
           THEN Becomes(v, [vec[v] EXCEPT !.capacity = n, !.bytes = n * Size(vec[v])])
           ELSE UNCHANGED vec
    /\ UNCHANGED <<value, given, diverged, corrupted>>

\* ucb_realloc to size 0 frees the array and returns NULL, which fit takes for a
\* failure.
FitEmpty(v) ==
    /\ Call(v) /\ vec[v].elems = <<>> /\ vec[v].capacity > 0
    /\ Diverges("fit") /\ Becomes(v, Lost(vec[v]))
    /\ UNCHANGED <<value, given, corrupted>>

\* A later call uses the array that has been given back, or frees it again.
UseFreed(v) ==
    /\ ~corrupted /\ Exists(v) /\ vec[v].freed /\ corrupted' = TRUE
    /\ UNCHANGED <<vec, value, given, diverged>>

-----------------------------------------------------------------------------
(* Elements.  Positions count from 1.  push_back, push_front, pop_back and *)
(* pop_front are insert and remove at the ends.                            *)

GrownMutant(c) == c
Grown(c)       == 2 * c
WithRoom(r) == IF Full(r) THEN Reserved(r, Grown(r.capacity)) ELSE r

MayInsert(v, i) ==
    /\ Call(v) /\ i \in 1..(Len(vec[v].elems) + 1)
    /\ Full(vec[v]) => Grown(vec[v].capacity) <= MaxCapacity

\* Mutant: the elements are not moved up.
ShiftedMutant(s, i, e) == IF i > Len(s) THEN Append(s, e) ELSE Append(ReplaceAt(s, i, e), Last(s))
Shifted(s, i, e)       == InsertAt(s, i, e)

Insert(v, i, x) ==
    /\ MayInsert(v, i)
    /\ LET r == WithRoom(vec[v])
       IN  IF Holds(r, Len(r.elems) + 1)
           THEN /\ \E e \in Stored(r, x) :
                      /\ Becomes(v, [r EXCEPT !.elems = Shifted(@, i, e)])
                      /\ value' = WithClone(r, e, x)
                /\ UNCHANGED <<diverged, corrupted>>
           ELSE /\ corrupted' = TRUE /\ UNCHANGED <<vec, value>>
                /\ IF vec[v].capacity = 0 THEN Diverges("moved") ELSE UNCHANGED diverged
    /\ UNCHANGED given

InsertGrowFails(v, i) ==
    /\ MayInsert(v, i) /\ Full(vec[v]) /\ vec[v].capacity > 0
    /\ Diverges("realloc") /\ Becomes(v, Lost(vec[v]))
    /\ UNCHANGED <<value, given, corrupted>>

\* The clone fails after the elements have been moved up.
InsertCloneFails(v, i) ==
    /\ MayInsert(v, i) /\ vec[v].owned
    /\ LET r == WithRoom(vec[v])
           n == Len(r.elems)
       IN  /\ Holds(r, n + 1)
           /\ IF i <= n
              THEN /\ Diverges("insert")
                   /\ Becomes(v, [r EXCEPT !.elems = SubSeq(@, 1, i) \o SubSeq(@, i, n - 1)])
              ELSE Becomes(v, r) /\ UNCHANGED diverged
    /\ UNCHANGED <<value, given, corrupted>>

\* The caller gets the removed element if it asks for it.
RemoveElem(v, i, out) ==
    /\ Call(v) /\ i \in DOMAIN vec[v].elems
    /\ LET r == vec[v]
           e == r.elems[i]
       IN  /\ IF out THEN UNCHANGED <<value, corrupted>> ELSE FreeItems(r, <<e>>, value)
           /\ given' = IF out /\ r.owned THEN given \cup {e} ELSE given
           /\ Becomes(v, [r EXCEPT !.elems = RemoveAt(@, i)])
    /\ UNCHANGED diverged

Set(v, i, x) ==
    /\ Call(v) /\ i \in DOMAIN vec[v].elems
    /\ LET r == vec[v]
           old == r.elems[i]
       IN  \E e \in Stored(r, x) :
              /\ FreeItems(r, <<old>>, WithClone(r, e, x))
              /\ Becomes(v, [r EXCEPT !.elems[i] = e])
    /\ UNCHANGED <<given, diverged>>

\* The old element has been freed and stays in the array.
SetCloneFails(v, i) ==
    /\ Call(v) /\ i \in DOMAIN vec[v].elems /\ vec[v].owned
    /\ Diverges("set") /\ FreeItems(vec[v], <<vec[v].elems[i]>>, value)
    /\ UNCHANGED <<vec, given>>

CallerFrees(i) ==
    /\ ~corrupted /\ i \in given /\ given' = given \ {i}
    /\ value' = [value EXCEPT ![i] = Null] /\ UNCHANGED <<vec, diverged, corrupted>>

-----------------------------------------------------------------------------
(* Whole vectors.                                                          *)

\* The first n elements of r, stored once more: values, or new items.
Copies(r, n) ==
    IF ~r.owned THEN {SubSeq(r.elems, 1, n)}
    ELSE {e \in [1..n -> {i \in Items : value[i] = Null}] : IsInjective(e)}
WithCopies(r, e) ==
    [i \in Items |-> IF r.owned /\ i \in Range(e)
                     THEN value[r.elems[CHOOSE k \in DOMAIN e : e[k] = i]] ELSE value[i]]

\* ucb_vector_copy.  If the clone of element n + 1 fails, dst keeps the first n.
Emptied(d, s) == [vec[d] EXCEPT !.elems = <<>>, !.owned = vec[s].owned]
Copy(d, s, n) ==
    /\ d # s /\ Call(d) /\ Call(s)
    /\ n = Len(vec[s].elems) \/ (vec[s].owned /\ n < Len(vec[s].elems))
    /\ LET r == Reserved(Emptied(d, s), vec[s].capacity)
       IN  /\ IF Holds(r, r.capacity) THEN UNCHANGED diverged ELSE Diverges("sizes")
           /\ IF Holds(r, n)
              THEN \E e \in Copies(vec[s], n) :
                      /\ FreeItems(vec[d], vec[d].elems, WithCopies(vec[s], e))
                      /\ Becomes(d, [r EXCEPT !.elems = e])
              ELSE corrupted' = TRUE /\ UNCHANGED <<vec, value>>
    /\ UNCHANGED given

\* The result of reserve is not looked at.
CopyGrowFails(d, s) ==
    /\ d # s /\ Call(d) /\ Call(s) /\ vec[s].capacity > vec[d].capacity
    /\ Diverges("realloc") /\ Becomes(d, Lost(Emptied(d, s)))
    /\ IF vec[s].elems = <<>> THEN FreeItems(vec[d], vec[d].elems, value)
       ELSE corrupted' = TRUE /\ UNCHANGED value
    /\ UNCHANGED given

\* ucb_vector_clone; if it fails, what was cloned is freed again.
Clone(d, s) ==
    /\ ~Exists(d) /\ Call(s)
    /\ LET c == IF vec[s].capacity = 0 THEN DefaultCapacity ELSE vec[s].capacity
       IN  \E e \in Copies(vec[s], Len(vec[s].elems)) :
              /\ value' = WithCopies(vec[s], e)
              /\ Becomes(d, [Fresh(vec[s].owned, c) EXCEPT !.elems = e])
    /\ UNCHANGED <<given, diverged, corrupted>>

LeftInMutant(r) == r
LeftIn(r)       == [r EXCEPT !.bytes = 0, !.capacity = 0, !.elems = <<>>]

\* ucb_vector_move.
Move(d, s) ==
    /\ d # s /\ Call(d) /\ Call(s)
    /\ FreeItems(vec[d], vec[d].elems, value)
    /\ vec' = [vec EXCEPT ![d] = vec[s], ![s] = LeftIn(vec[s])]
    /\ UNCHANGED <<given, diverged>>

Next ==
    \/ \E v \in Vecs :
          \/ \E owned \in BOOLEAN : New(v, owned)
          \/ Clear(v) \/ Free(v) \/ Fit(v) \/ FitEmpty(v) \/ UseFreed(v)
          \/ \E n \in 1..MaxCapacity : Reserve(v, n) \/ ReserveFails(v, n)
          \/ \E i \in 1..(MaxCapacity + 1) :
                \/ \E x \in Values : Insert(v, i, x) \/ Set(v, i, x)
                \/ InsertGrowFails(v, i) \/ InsertCloneFails(v, i) \/ SetCloneFails(v, i)
                \/ \E out \in BOOLEAN : RemoveElem(v, i, out)
    \/ \E i \in Items : CallerFrees(i)
    \/ \E d, s \in Vecs :
          \/ \E n \in 0..MaxCapacity : Copy(d, s, n)
          \/ CopyGrowFails(d, s) \/ Clone(d, s) \/ Move(d, s)

Spec == Init /\ [][Next]_vars

-----------------------------------------------------------------------------
(* Properties.                                                             *)

Owners(i) == {v \in Vecs : Exists(v) /\ vec[v].owned /\ i \in Range(vec[v].elems)}

\* "data_free is called on remove/clear/free unless the caller takes ownership":
\* every item that is allocated is an element of one vector, once, or the caller's,
\* and nothing else is an element or the caller's, through copies, moves and failures.
ItemsOwnedOnce ==
    ~diverged =>
        \A i \in Items :
            LET n == Cardinality(Owners(i)) + Cardinality({i} \cap given)
            IN  /\ n = IF value[i] = Null THEN 0 ELSE 1
                /\ \A v \in Owners(i) : \A j, k \in DOMAIN vec[v].elems :
                      vec[v].elems[j] = i /\ vec[v].elems[k] = i => j = k

\* The array has room for the capacity and the capacity for the elements, and no
\* call has written outside it or freed an item twice.
NoBadAccess ==
    ~diverged =>
        /\ ~corrupted
        /\ \A v \in Vecs : Exists(v) =>
              Len(vec[v].elems) <= vec[v].capacity /\ Holds(vec[v], vec[v].capacity)

NotCorrupted == ~corrupted

\* The values of the elements.
Contents ==
    [v \in Vecs |->
        IF ~Exists(v) THEN Null
        ELSE IF vec[v].owned THEN [k \in DOMAIN vec[v].elems |-> value[vec[v].elems[k]]]
        ELSE vec[v].elems]
VS == INSTANCE VectorSpec WITH seq <- Contents

\* Every call does to the values what the header says, until one diverges.
ImplementsVectorSpec ==
    VS!Init /\ [][diverged' \/ VS!Next \/ UNCHANGED Contents]_vars

\* Until a call diverges, every item has one owner, and no memory is misused.
MemorySound == ItemsOwnedOnce /\ NoBadAccess

-----------------------------------------------------------------------------
(* For TLC.                                                                *)

\* Nothing is promised after a divergence: what follows one is explored only as far
\* as the call that uses a freed array.
UntilUsed == diverged => \E v \in Vecs : Exists(v) /\ vec[v].freed /\ \A u \in Vecs \ {v} : ~Exists(u)

Symmetric == Permutations(Items) \cup Permutations(Vecs) \cup Permutations(Values)
=============================================================================
