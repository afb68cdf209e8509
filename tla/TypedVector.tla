----------------------------- MODULE TypedVector -----------------------------
(***************************************************************************)
(* The vectors that include/ucb/container/templates/vector_template.h      *)
(* generates, as the one for strings: an array of pointers to items that   *)
(* the caller makes, and that the vector frees only in free_full and       *)
(* clear_full.  Items are compared by a key.  The array is modelled slot   *)
(* by slot, with what memmove and memcpy do to it; `want` says what the    *)
(* calls were to leave in each vector.                                     *)
(***************************************************************************)
EXTENDS Integers, SequencesExt

CONSTANTS
    Vecs, Items, Keys,  \* Keys[i]: what the comparison sees of item i
    DefaultCapacity,    \* UCB_VECTOR_T_DEFAULT_CAPACITY
    MaxCapacity,        \* bounds growth
    None,
    Known               \* the divergences explored

ASSUME VectorAssumption ==
    /\ Keys \in [Items -> Int] /\ DefaultCapacity \in Nat \ {0} /\ MaxCapacity \in Nat
    /\ None \notin [data : Seq(Items \cup {None}), size : Nat, freed : BOOLEAN]

\* "realloc": the array cannot grow; "fit": fit of an empty vector.
Divergences == {"realloc", "fit"}

VARIABLES
    vec,        \* vec[v]: None, or data (the slots), size, and whether data was freed
    heap,       \* the items that are allocated
    want        \* history: the elements that v must have

vars == <<vec, heap, want>>

Capacity(r) == Len(r.data)
Elems(r)    == SubSeq(r.data, 1, r.size)
Empty       == [data |-> <<>>, size |-> 0, freed |-> FALSE]

Init ==
    /\ vec = [v \in Vecs |-> None] /\ heap = {} /\ want = [v \in Vecs |-> <<>>]

-----------------------------------------------------------------------------
(* A definition named ...Mutant above another one is a faulty variant of   *)
(* it, used to show that a property depends on the definition.             *)

\* memmove of n slots within an array; slots count from 1.
MovedMutant(a, dst, src, n) ==
    [k \in DOMAIN a |-> IF k \in dst..(dst + n - 2) THEN a[k - dst + src] ELSE a[k]]
Moved(a, dst, src, n) ==
    [k \in DOMAIN a |-> IF k \in dst..(dst + n - 1) THEN a[k - dst + src] ELSE a[k]]

\* realloc: the slots that stay keep what they hold.
Resized(r, n) ==
    [r EXCEPT !.data = [k \in 1..n |-> IF k <= Capacity(r) THEN r.data[k] ELSE None]]

Exists(v) == vec[v] # None
Usable    == \A v \in Vecs : Exists(v) => ~vec[v].freed
Call(v)   == Usable /\ Exists(v)
Held(i)   == \E v \in Vecs : Exists(v) /\ Contains(Elems(vec[v]), i)
Loose     == {i \in heap : ~Held(i)}
Alone(v)  == \A i \in Range(Elems(vec[v])) :
                \A u \in Vecs \ {v} : Exists(u) => ~Contains(Elems(vec[u]), i)

Becomes(v, r, s) == vec' = [vec EXCEPT ![v] = r] /\ want' = [want EXCEPT ![v] = s]

\* The caller allocates and frees items that no vector holds.
MakeItem(i) == i \notin heap /\ heap' = heap \cup {i} /\ UNCHANGED <<vec, want>>
FreeItem(i) == i \in Loose /\ heap' = heap \ {i} /\ UNCHANGED <<vec, want>>

New(v) == Usable /\ ~Exists(v) /\ Becomes(v, Empty, <<>>) /\ UNCHANGED heap

\* free and clear leave the items alone.
Free(v)  == Call(v) /\ Becomes(v, None, <<>>) /\ UNCHANGED heap
Clear(v) == Call(v) /\ Becomes(v, [vec[v] EXCEPT !.size = 0], <<>>) /\ UNCHANGED heap

\* free_full and clear_full free them: the caller uses these on one of the vectors
\* that share items.
FreeElems(v) == heap' = heap \ Range(Elems(vec[v]))
FreeFull(v)  == Call(v) /\ Alone(v) /\ Becomes(v, None, <<>>) /\ FreeElems(v)
ClearFull(v) ==
    Call(v) /\ Alone(v) /\ Becomes(v, [vec[v] EXCEPT !.size = 0], <<>>) /\ FreeElems(v)

-----------------------------------------------------------------------------
(* Capacity.                                                               *)

Asked(n) == IF n = 0 THEN DefaultCapacity ELSE n
Reserved(r, n) == IF Asked(n) <= Capacity(r) THEN r ELSE Resized(r, Asked(n))

Reserve(v, n) ==
    /\ Call(v) /\ Becomes(v, Reserved(vec[v], n), want[v]) /\ UNCHANGED heap

\* ucb_realloc fails, or is asked for no bytes: it has freed the array.
Lost(r) == [r EXCEPT !.freed = (Capacity(r) > 0)]
CannotGrow(v, n) ==
    /\ Call(v) /\ Asked(n) > Capacity(vec[v]) /\ "realloc" \in Known
    /\ Becomes(v, Lost(vec[v]), want[v]) /\ UNCHANGED heap

Fit(v) ==
    /\ Call(v) /\ Capacity(vec[v]) > vec[v].size
    /\ IF vec[v].size > 0 THEN Becomes(v, Resized(vec[v], vec[v].size), want[v])
       ELSE "fit" \in Known /\ Becomes(v, Lost(vec[v]), want[v])
    /\ UNCHANGED heap

-----------------------------------------------------------------------------
(* Elements.                                                               *)

Full(r) == r.size = Capacity(r)
Room(r) == IF Full(r) THEN Reserved(r, 2 * Capacity(r)) ELSE r
MayGrow(r) == Full(r) => Asked(2 * Capacity(r)) <= MaxCapacity

Inserted(r, i, e) ==
    LET open == Moved(r.data, i + 1, i, r.size - i + 1)
    IN  [r EXCEPT !.data = [open EXCEPT ![i] = e], !.size = @ + 1]

\* insert, push_back and push_front of an item that the caller has.
Insert(v, i, e) ==
    /\ Call(v) /\ e \in Loose /\ i \in 1..(vec[v].size + 1) /\ MayGrow(vec[v])
    /\ Becomes(v, Inserted(Room(vec[v]), i, e), InsertAt(want[v], i, e))
    /\ UNCHANGED heap

\* The insert of insert_sorted returns without a word; the position is returned still.
InsertLost(v, i) ==
    /\ Call(v) /\ i \in 1..(vec[v].size + 1) /\ Full(vec[v])
    /\ CannotGrow(v, 2 * Capacity(vec[v]))

\* remove, pop_back and pop_front: the caller has the item.
Removed(r, i) ==
    [r EXCEPT !.data = Moved(r.data, i, i + 1, r.size - i), !.size = @ - 1]
RemoveElem(v, i) ==
    /\ Call(v) /\ i \in 1..vec[v].size
    /\ Becomes(v, Removed(vec[v], i), RemoveAt(want[v], i)) /\ UNCHANGED heap

\* set: the caller has the old item.
Set(v, i, e) ==
    /\ Call(v) /\ i \in 1..vec[v].size /\ e \in Loose
    /\ Becomes(v, [vec[v] EXCEPT !.data[i] = e], ReplaceAt(want[v], i, e))
    /\ UNCHANGED heap

Swap(v, i, j) ==
    /\ Call(v) /\ i \in 1..vec[v].size /\ j \in 1..vec[v].size /\ i # j
    /\ LET d == vec[v].data
       IN  Becomes(v, [vec[v] EXCEPT !.data = [d EXCEPT ![i] = d[j], ![j] = d[i]]],
                   [want[v] EXCEPT ![i] = want[v][j], ![j] = want[v][i]])
    /\ UNCHANGED heap

-----------------------------------------------------------------------------
(* Sorting; up is 1 for the comparison of the vector and -1 for one that   *)
(* turns it around.                                                        *)

Cmp(up, k, e) == up * (k - Keys[e])
Sorted(s, up) == \A j \in 1..(Len(s) - 1) : Cmp(up, Keys[s[j]], s[j + 1]) <= 0

\* qsort leaves equal items in any order.
Sort(v, up) ==
    /\ Call(v) /\ vec[v].size > 1
    /\ \E p \in {q \in [1..vec[v].size -> 1..vec[v].size] : IsInjective(q)} :
          LET s == [k \in DOMAIN p |-> vec[v].data[p[k]]]
          IN  /\ Sorted(s, up)
              /\ Becomes(v, [vec[v] EXCEPT !.data = s \o SubSeq(@, vec[v].size + 1, Len(@))], s)
    /\ UNCHANGED heap

\* find_with: the search among the slots low..high, counted from 0 as in the code.
Rightmost(a, high, mid, k, up) ==
    CHOOSE m \in mid..high :
        /\ \A j \in mid..m : Cmp(up, k, a[j + 1]) = 0
        /\ m = high \/ Cmp(up, k, a[m + 2]) # 0
NotFoundMutant(low) == -low
NotFound(low)       == -(low + 1)
Find(r, k, up) ==
    LET search[range \in (0..r.size) \X (-1..(r.size - 1))] ==
            LET low  == range[1]
                high == range[2]
                mid  == low + (high - low) \div 2
                c    == Cmp(up, k, r.data[mid + 1])
            IN  IF low > high THEN NotFound(low)
                ELSE IF c = 0 THEN Rightmost(r.data, high, mid, k, up)
                ELSE IF c < 0 THEN search[<<low, mid - 1>>] ELSE search[<<mid + 1, high>>]
    IN  search[<<0, r.size - 1>>]

\* insert_sorted and insert_sorted_with, into a vector in that order.
InsPos(pos) == IF pos >= 0 THEN pos + 1 ELSE -pos - 1
After(s, k, up) == Cardinality({j \in DOMAIN s : Cmp(up, k, s[j]) >= 0})
InsertSorted(v, e, up) ==
    /\ Call(v) /\ e \in Loose /\ MayGrow(vec[v]) /\ Sorted(want[v], up)
    /\ LET i == InsPos(Find(vec[v], Keys[e], up)) + 1
       IN  Becomes(v, Inserted(Room(vec[v]), i, e),
                   InsertAt(want[v], After(want[v], Keys[e], up) + 1, e))
    /\ UNCHANGED heap

-----------------------------------------------------------------------------
(* Whole vectors.                                                          *)

\* copy: into an empty vector, by memcpy.
Copied(d, s) ==
    LET r == Reserved([d EXCEPT !.size = 0], Capacity(s))
    IN  [r EXCEPT !.data = [k \in DOMAIN @ |-> IF k <= s.size THEN s.data[k] ELSE @[k]],
                  !.size = s.size]
Copy(d, s) ==
    /\ d # s /\ Call(d) /\ Call(s) /\ vec[d].size = 0
    /\ Becomes(d, Copied(vec[d], vec[s]), want[s]) /\ UNCHANGED heap

Clone(d, s) ==
    /\ Call(s) /\ ~Exists(d) /\ Becomes(d, Copied(Empty, vec[s]), want[s])
    /\ UNCHANGED heap

\* move: what dst held is the caller's.
Move(d, s) ==
    /\ d # s /\ Call(d) /\ Call(s)
    /\ vec' = [vec EXCEPT ![d] = vec[s], ![s] = Empty]
    /\ want' = [want EXCEPT ![d] = want[s], ![s] = <<>>] /\ UNCHANGED heap

Next ==
    \/ \E i \in Items : MakeItem(i) \/ FreeItem(i)
    \/ \E v \in Vecs :
          \/ New(v) \/ Free(v) \/ Clear(v) \/ FreeFull(v) \/ ClearFull(v) \/ Fit(v)
          \/ \E n \in 0..MaxCapacity : Reserve(v, n) \/ CannotGrow(v, n)
          \/ \E i \in 1..(MaxCapacity + 1) :
                \/ \E e \in Items : Insert(v, i, e) \/ Set(v, i, e)
                \/ InsertLost(v, i) \/ RemoveElem(v, i) \/ \E j \in 1..MaxCapacity : Swap(v, i, j)
          \/ \E up \in {-1, 1} : Sort(v, up) \/ \E e \in Items : InsertSorted(v, e, up)
    \/ \E d, s \in Vecs : Copy(d, s) \/ Clone(d, s) \/ Move(d, s)

Spec == Init /\ [][Next]_vars

-----------------------------------------------------------------------------
(* Properties.                                                             *)

\* Through growth, moves, copies and slots left over from before, the vector holds
\* what the calls were to leave in it and has the room it says it has; no element is
\* an item that free_full or clear_full has freed.
Holds ==
    \A v \in Vecs : Exists(v) /\ ~vec[v].freed =>
        /\ vec[v].size <= Capacity(vec[v]) /\ Elems(vec[v]) = want[v]
        /\ Range(Elems(vec[v])) \subseteq heap

\* "the returned position will be the right-most position of all matching items", or
\* "-(insert_pos + 1)" if none matches, for every sorted vector, key and comparison,
\* so that insert_sorted keeps the order and puts an item after those equal to it.
FindIsExact ==
    \A v \in Vecs, up \in {-1, 1} :
        Exists(v) /\ ~vec[v].freed /\ Sorted(want[v], up) =>
            \A k \in 0..3 :
                LET pos == Find(vec[v], k, up)
                    n   == After(want[v], k, up)
                IN  IF \E i \in Range(want[v]) : Keys[i] = k THEN pos = n - 1 ELSE pos = -(n + 1)

\* A typed vector holds what the calls were to leave in it, and finds what it holds.
TypedVectorsHold == Holds /\ FindIsExact

\* "return true if the reservation was successful, false if the allocation failed":
\* the vector can still be used.  It cannot if realloc fails or fit is called when it
\* is empty.
StaysUsable == Usable

-----------------------------------------------------------------------------
(* Why it holds what it should: the inductive invariant.                   *)

Records == [data : Seq(Items \cup {None}), size : Nat, freed : BOOLEAN]

TypeOK ==
    /\ vec \in [Vecs -> Records \cup {None}] /\ heap \in SUBSET Items
    /\ want \in [Vecs -> Seq(Items)]

\* The slots in use are the elements s, and the others are anything.
Shows(r, s) ==
    /\ r.size = Len(s) /\ r.size <= Capacity(r)
    /\ \A k \in 1..Len(s) : r.data[k] = s[k]

VectorInv ==
    /\ TypeOK
    /\ \A v \in Vecs : Exists(v) =>
          Shows(vec[v], want[v]) /\ \A k \in 1..Len(want[v]) : want[v][k] \in heap
=============================================================================
