----------------------------- MODULE TypedVectorProofs -----------------------------
(***************************************************************************)
(* Proofs about TypedVector, for any vectors, items, keys and capacities.  *)
(*                                                                         *)
(* VectorInv says that the slots in use of a vector show the elements that *)
(* the calls were to leave in it, and that each of these is allocated; the *)
(* slots behind them hold anything.  Every operation on the slots has a    *)
(* lemma that says which elements it shows, and every call one that builds *)
(* on it.  The bisection is a recursive function: Recursion shows that it  *)
(* exists, and SearchFinds, by the least range for which it would fail,    *)
(* what it computes.                                                       *)
(***************************************************************************)
EXTENDS TypedVector, TLAPS, FiniteSetTheorems, SequenceTheorems, WellFoundedInduction

-----------------------------------------------------------------------------
(* Numbers, and recursive functions.                                       *)

\* A set of numbers that is not empty has a least one: what follows is proved from this
\* where a proof on paper would be by induction.
LEMMA LeastNumber ==
    ASSUME NEW T \in SUBSET Nat, T # {}
    PROVE  \E m \in T : \A k \in T : ~(k < m)
  <1> DEFINE R == {ss \in Nat \X Nat : ss[1] < ss[2]}
  <1>1. OpToRel(<, Nat) = R
    BY Zenon DEF OpToRel
  <1>2. IsWellFoundedOn(R, Nat)
    BY <1>1, NatLessThanWellFounded, Zenon
  <1>3. \E x \in T : \A y \in T : <<y, x>> \notin R
    <2> HIDE DEF R
    <2> QED
      BY <1>2, WFMin
  <1> QED
    BY <1>3

\* D[f] is the right-hand side of the definition of a function f from S to T, and at x
\* it depends on f only at smaller arguments.
Definable(S, T, D, size, bound) ==
    /\ T # {} /\ D \in [[S -> T] -> [S -> T]]
    /\ size \in [S -> Nat] /\ bound \in Nat /\ \A x \in S : size[x] < bound
    /\ \A g, h \in [S -> T], x \in S :
          (\A y \in S : size[y] < size[x] => g[y] = h[y]) => D[g][x] = D[h][x]

\* There is such a function.
LEMMA Recursion ==
    ASSUME NEW S, NEW T, NEW D, NEW size, NEW bound, Definable(S, T, D, size, bound)
    PROVE  \E f \in [S -> T] : f = D[f]
  <1> USE DEF Definable
  <1> DEFINE UpTo(n) == \E g \in [S -> T] : \A x \in S : size[x] < n => g[x] = D[g][x]
             Wrong == {n \in Nat : ~UpTo(n)}
  <1>1. UpTo(0)
    <2>1. PICK e \in T : TRUE
      OBVIOUS
    <2>2. [x \in S |-> e] \in [S -> T]
      OBVIOUS
    <2>3. \A x \in S : ~(size[x] < 0)
      OBVIOUS
    <2> QED
      BY <2>2, <2>3
  <1>2. ASSUME NEW n \in Nat, UpTo(n)
        PROVE  UpTo(n + 1)
    <2>1. PICK g \in [S -> T] : \A x \in S : size[x] < n => g[x] = D[g][x]
      BY <1>2
    <2>2. D[g] \in [S -> T]
      OBVIOUS
    <2>3. ASSUME NEW x \in S, size[x] < n + 1
          PROVE  D[g][x] = D[D[g]][x]
      <3>1. \A y \in S : size[y] < size[x] => g[y] = D[g][y]
        BY <2>1, <2>3
      <3> QED
        BY <3>1, <2>2
    <2> QED
      BY <2>2, <2>3
  <1>3. Wrong = {}
    <2> SUFFICES ASSUME Wrong # {} PROVE FALSE
      OBVIOUS
    <2> HIDE DEF UpTo
    <2>1. PICK m \in Wrong : \A k \in Wrong : ~(k < m)
      BY LeastNumber
    <2>2. m # 0 /\ m \in Nat /\ ~UpTo(m)
      BY <2>1, <1>1
    <2>3. m - 1 \in Nat /\ m - 1 < m /\ (m - 1) + 1 = m
      BY <2>2
    <2>4. UpTo(m - 1)
      BY <2>1, <2>3
    <2> QED
      BY <2>2, <2>3, <2>4, <1>2
  <1>4. UpTo(bound)
    BY <1>3
  <1>5. PICK g \in [S -> T] : \A x \in S : g[x] = D[g][x]
    BY <1>4
  <1> QED
    BY <1>5

-----------------------------------------------------------------------------
(* Sequences.                                                              *)

\* memmove up by one, and the new element in the gap.
LEMMA InsertAtIs ==
    ASSUME NEW S, NEW s \in Seq(S), NEW i \in 1..(Len(s) + 1), NEW e \in S
    PROVE  /\ InsertAt(s, i, e) \in Seq(S)
           /\ Len(InsertAt(s, i, e)) = Len(s) + 1
           /\ \A k \in 1..(Len(s) + 1) :
                 InsertAt(s, i, e)[k] = IF k < i THEN s[k] ELSE IF k = i THEN e ELSE s[k - 1]
  <1> DEFINE a == SubSeq(s, 1, i - 1)
             b == SubSeq(s, i, Len(s))
             c == a \o <<e>>
  <1>1. Len(s) \in Nat /\ \A k \in 1..Len(s) : s[k] \in S
    BY LenProperties
  <1>2. a \in Seq(S) /\ Len(a) = i - 1 /\ \A k \in 1..(i - 1) : a[k] = s[k]
    <2>1. i - 1 \in Int /\ \A k \in 1..(i - 1) : s[k] \in S
      BY <1>1
    <2> QED
      BY <1>1, <2>1, SubSeqProperties
  <1>3. b \in Seq(S) /\ Len(b) = Len(s) + 1 - i /\ \A k \in 1..(Len(s) + 1 - i) : b[k] = s[i + k - 1]
    <2>1. i \in Int /\ Len(s) \in Int /\ \A k \in i..Len(s) : s[k] \in S
      BY <1>1
    <2>2. /\ b \in Seq(S) /\ Len(b) = IF i <= Len(s) THEN Len(s) - i + 1 ELSE 0
          /\ \A k \in 1..(Len(s) - i + 1) : b[k] = s[i + k - 1]
      BY <2>1, SubSeqProperties
    <2> QED
      BY <1>1, <2>2
  <1>4. <<e>> \in Seq(S) /\ Len(<<e>>) = 1 /\ <<e>>[1] = e
    OBVIOUS
  <1> HIDE DEF a, b
  <1>5. c \in Seq(S) /\ Len(c) = i /\ \A k \in 1..i : c[k] = IF k < i THEN s[k] ELSE e
    <2>1. /\ c \in Seq(S) /\ Len(c) = Len(a) + 1
          /\ \A k \in 1..(Len(a) + 1) : c[k] = IF k <= Len(a) THEN a[k] ELSE <<e>>[k - Len(a)]
      BY <1>2, <1>4, ConcatProperties
    <2> QED
      BY <1>1, <1>2, <1>4, <2>1
  <1> HIDE DEF c
  <1>6. /\ c \o b \in Seq(S) /\ Len(c \o b) = Len(c) + Len(b)
        /\ \A k \in 1..(Len(c) + Len(b)) : (c \o b)[k] = IF k <= Len(c) THEN c[k] ELSE b[k - Len(c)]
    BY <1>3, <1>5, ConcatProperties
  <1>7. ASSUME NEW k \in 1..(Len(s) + 1)
        PROVE  (c \o b)[k] = IF k < i THEN s[k] ELSE IF k = i THEN e ELSE s[k - 1]
    <2>1. CASE k <= i
      BY <1>1, <1>3, <1>5, <1>6, <2>1
    <2>2. CASE k > i
      <3>1. k - i \in 1..(Len(s) + 1 - i) /\ i + (k - i) - 1 = k - 1
        BY <1>1, <2>2
      <3>2. (c \o b)[k] = b[k - i]
        BY <1>1, <1>3, <1>5, <1>6, <2>2
      <3> QED
        BY <1>3, <2>2, <3>1, <3>2
    <2>3. k <= i \/ k > i
      BY <1>1
    <2> QED
      BY <2>1, <2>2, <2>3, Zenon
  <1>8. InsertAt(s, i, e) = c \o b
    BY DEF InsertAt, a, b, c
  <1> QED
    BY <1>1, <1>3, <1>5, <1>6, <1>7, <1>8

\* memmove down by one.
LEMMA RemoveAtIs ==
    ASSUME NEW S, NEW s \in Seq(S), NEW i \in 1..Len(s)
    PROVE  /\ RemoveAt(s, i) \in Seq(S)
           /\ Len(RemoveAt(s, i)) = Len(s) - 1
           /\ \A k \in 1..(Len(s) - 1) : RemoveAt(s, i)[k] = IF k < i THEN s[k] ELSE s[k + 1]
  <1> DEFINE a == SubSeq(s, 1, i - 1)
             b == SubSeq(s, i + 1, Len(s))
  <1>1. Len(s) \in Nat /\ \A k \in 1..Len(s) : s[k] \in S
    BY LenProperties
  <1>2. a \in Seq(S) /\ Len(a) = i - 1 /\ \A k \in 1..(i - 1) : a[k] = s[k]
    <2>1. i - 1 \in Int /\ \A k \in 1..(i - 1) : s[k] \in S
      BY <1>1
    <2> QED
      BY <1>1, <2>1, SubSeqProperties
  <1>3. b \in Seq(S) /\ Len(b) = Len(s) - i /\ \A k \in 1..(Len(s) - i) : b[k] = s[i + k]
    <2>1. i + 1 \in Int
      OBVIOUS
    <2>2. PICK l \in Int : l = i + 1
      BY <2>1
    <2>3. PICK n \in Int : n = Len(s)
      BY <1>1
    <2>8. (\A k \in l..n : s[k] \in S) /\ b = SubSeq(s, l, n)
      BY <1>1, <2>2, <2>3
    <2> HIDE DEF b
    <2>9. /\ SubSeq(s, l, n) \in Seq(S) /\ Len(SubSeq(s, l, n)) = IF l <= n THEN n - l + 1 ELSE 0
          /\ \A k \in 1..(n - l + 1) : SubSeq(s, l, n)[k] = s[l + k - 1]
      BY <2>8, SubSeqProperties
    <2>4. /\ b \in Seq(S) /\ Len(b) = IF l <= Len(s) THEN Len(s) - l + 1 ELSE 0
          /\ \A k \in 1..(Len(s) - l + 1) : b[k] = s[l + k - 1]
      BY <2>3, <2>8, <2>9
    <2>5. Len(s) - l + 1 = Len(s) - i /\ \A k \in 1..(Len(s) - i) : l + k - 1 = i + k
      BY <1>1, <2>2
    <2>6. Len(b) = Len(s) - i
      BY <1>1, <2>2, <2>4
    <2>7. \A k \in 1..(Len(s) - i) : b[k] = s[i + k]
      BY <2>4, <2>5
    <2> QED
      BY <2>4, <2>6, <2>7
  <1> HIDE DEF a, b
  <1>4. /\ a \o b \in Seq(S) /\ Len(a \o b) = Len(a) + Len(b)
        /\ \A k \in 1..(Len(a) + Len(b)) : (a \o b)[k] = IF k <= Len(a) THEN a[k] ELSE b[k - Len(a)]
    BY <1>2, <1>3, ConcatProperties
  <1>5. ASSUME NEW k \in 1..(Len(s) - 1)
        PROVE  (a \o b)[k] = IF k < i THEN s[k] ELSE s[k + 1]
    <2>1. CASE k < i
      BY <1>1, <1>2, <1>3, <1>4, <2>1
    <2>2. CASE k >= i
      <3>1. k - (i - 1) \in 1..(Len(s) - i) /\ i + (k - (i - 1)) = k + 1
        BY <1>1, <2>2
      <3>2. (a \o b)[k] = b[k - (i - 1)]
        BY <1>1, <1>2, <1>3, <1>4, <2>2
      <3> QED
        BY <1>3, <2>2, <3>1, <3>2
    <2>3. k < i \/ k >= i
      BY <1>1
    <2> QED
      BY <2>1, <2>2, <2>3, Zenon
  <1>6. RemoveAt(s, i) = a \o b
    BY DEF RemoveAt, a, b
  <1> QED
    BY <1>1, <1>2, <1>3, <1>4, <1>5, <1>6

\* The first n elements.
LEMMA FirstAre ==
    ASSUME NEW S, NEW s \in Seq(S), NEW n \in 0..Len(s)
    PROVE  /\ SubSeq(s, 1, n) \in Seq(S)
           /\ Len(SubSeq(s, 1, n)) = n
           /\ \A k \in 1..n : SubSeq(s, 1, n)[k] = s[k]
  <1>1. Len(s) \in Nat /\ \A k \in 1..Len(s) : s[k] \in S
    BY LenProperties
  <1>2. n \in Int /\ 1 \in Int /\ \A k \in 1..n : s[k] \in S
    BY <1>1
  <1>3. /\ SubSeq(s, 1, n) \in Seq(S) /\ Len(SubSeq(s, 1, n)) = IF 1 <= n THEN n - 1 + 1 ELSE 0
        /\ \A k \in 1..(n - 1 + 1) : SubSeq(s, 1, n)[k] = s[1 + k - 1]
    BY <1>2, SubSeqProperties
  <1> QED
    BY <1>1, <1>3

-----------------------------------------------------------------------------
(* The slots of a vector, after each operation on it.                      *)

\* What a slot may hold, and a vector by its fields.
Slots == Items \cup {None}
Rec(d, n, f) == [data |-> d, size |-> n, freed |-> f]

\* What a record of a vector is made of.
LEMMA RecordIs ==
    ASSUME NEW r \in Records
    PROVE  /\ r.data \in Seq(Slots) /\ r.size \in Nat /\ r.freed \in BOOLEAN /\ Len(r.data) \in Nat
           /\ \A k \in 1..Len(r.data) : r.data[k] \in Slots
           /\ r = Rec(r.data, r.size, r.freed)
  BY DEF Records, Slots, Rec

\* A record of slots, a size and a mark is one of a vector.
LEMMA RecordOf ==
    ASSUME NEW d \in Seq(Slots), NEW n \in Nat, NEW f \in BOOLEAN
    PROVE  /\ Rec(d, n, f) \in Records
           /\ Rec(d, n, f).data = d /\ Rec(d, n, f).size = n /\ Rec(d, n, f).freed = f
           /\ Capacity(Rec(d, n, f)) = Len(d)
  BY DEF Records, Slots, Rec, Capacity

\* What an update of a field, or of two, leaves.
LEMMA RecordExcept ==
    ASSUME NEW r \in Records, NEW d, NEW n, NEW f
    PROVE  /\ [r EXCEPT !.data = d] = Rec(d, r.size, r.freed)
           /\ [r EXCEPT !.size = n] = Rec(r.data, n, r.freed)
           /\ [r EXCEPT !.freed = f] = Rec(r.data, r.size, f)
           /\ [r EXCEPT !.data = d, !.size = n] = Rec(d, n, r.freed)
  <1>1. r = [data |-> r.data, size |-> r.size, freed |-> r.freed]
    BY RecordIs DEF Rec
  <1>2. [r EXCEPT !.data = d] = Rec(d, r.size, r.freed)
    BY <1>1 DEF Rec
  <1>3. [r EXCEPT !.size = n] = Rec(r.data, n, r.freed)
    BY <1>1 DEF Rec
  <1>4. [r EXCEPT !.freed = f] = Rec(r.data, r.size, f)
    BY <1>1 DEF Rec
  <1>5. [r EXCEPT !.data = d, !.size = n] = Rec(d, n, r.freed)
    <2>1. PICK q : q = [r EXCEPT !.data = d, !.size = n]
      OBVIOUS
    <2>2. /\ q = [x \in {"data", "size", "freed"} |-> q[x]]
          /\ q["data"] = d /\ q["size"] = n /\ q["freed"] = r.freed
      BY <1>1, <2>1
    <2>3. q = [data |-> d, size |-> n, freed |-> r.freed]
      BY <2>2
    <2> QED
      BY <2>1, <2>3 DEF Rec
  <1> QED
    BY <1>2, <1>3, <1>4, <1>5

\* realloc keeps the elements, in an array that is large enough for them.
LEMMA ResizedShows ==
    ASSUME NEW r \in Records, NEW s \in Seq(Items), Shows(r, s), NEW n \in Nat, Len(s) <= n
    PROVE  /\ Resized(r, n) \in Records /\ Shows(Resized(r, n), s)
           /\ Capacity(Resized(r, n)) = n /\ Resized(r, n).freed = r.freed
  <1> DEFINE d == [k \in 1..n |-> IF k <= Len(r.data) THEN r.data[k] ELSE None]
  <1>1. d \in Seq(Slots) /\ Len(d) = n
    BY RecordIs DEF Slots
  <1>2. Len(s) \in Nat /\ \A k \in 1..Len(s) : d[k] = s[k]
    BY RecordIs DEF Shows, Capacity
  <1>3. Resized(r, n) = Rec(d, r.size, r.freed)
    BY RecordExcept, Zenon DEF Resized, Capacity
  <1> HIDE DEF d
  <1>4. r.size \in Nat /\ r.freed \in BOOLEAN /\ r.size = Len(s)
    BY RecordIs DEF Shows
  <1> QED
    BY <1>1, <1>2, <1>3, <1>4, RecordOf DEF Shows

\* reserve keeps the elements, and there is the room that was asked for.
LEMMA ReservedShows ==
    ASSUME NEW r \in Records, NEW s \in Seq(Items), Shows(r, s), NEW n \in Nat
    PROVE  /\ Reserved(r, n) \in Records /\ Shows(Reserved(r, n), s)
           /\ Reserved(r, n).freed = r.freed
           /\ Asked(n) <= Capacity(Reserved(r, n))
           /\ Capacity(r) <= Capacity(Reserved(r, n))
  <1>1. Asked(n) \in Nat /\ Capacity(r) \in Nat /\ Len(s) \in Nat /\ Len(s) <= Capacity(r)
    BY VectorAssumption, RecordIs DEF Asked, Capacity, Shows
  <1>2. CASE Asked(n) <= Capacity(r)
    BY <1>1, <1>2 DEF Reserved
  <1>3. CASE ~(Asked(n) <= Capacity(r))
    BY <1>1, <1>3, ResizedShows DEF Reserved
  <1> QED
    BY <1>2, <1>3

\* After the growth of a full array there is room for one more.
LEMMA RoomShows ==
    ASSUME NEW r \in Records, NEW s \in Seq(Items), Shows(r, s)
    PROVE  /\ Room(r) \in Records /\ Shows(Room(r), s) /\ Room(r).freed = r.freed
           /\ Len(s) < Capacity(Room(r))
  <1> DEFINE n == 2 * Capacity(r)
  <1>1. Capacity(r) \in Nat /\ Len(s) \in Nat /\ Len(s) <= Capacity(r) /\ r.size = Len(s)
    BY RecordIs DEF Capacity, Shows
  <1>2. n \in Nat /\ Asked(n) \in Nat /\ Asked(n) > Capacity(r)
    BY <1>1, VectorAssumption DEF Asked
  <1>3. CASE Full(r)
    <2> HIDE DEF n
    <2>1. /\ Reserved(r, n) \in Records /\ Shows(Reserved(r, n), s)
          /\ Reserved(r, n).freed = r.freed /\ Asked(n) <= Capacity(Reserved(r, n))
      BY <1>2, ReservedShows
    <2>2. Capacity(Reserved(r, n)) \in Nat
      BY <2>1, RecordIs DEF Capacity
    <2>3. Room(r) = Reserved(r, n)
      BY <1>3 DEF Room, n
    <2> QED
      BY <1>1, <1>2, <2>1, <2>2, <2>3
  <1>4. CASE ~Full(r)
    BY <1>1, <1>4 DEF Room, Full
  <1> QED
    BY <1>3, <1>4

\* Slots that begin with the elements show them.
LEMMA RecShows ==
    ASSUME NEW d \in Seq(Slots), NEW s \in Seq(Items), NEW f \in BOOLEAN, NEW n \in Nat,
           n = Len(s), n <= Len(d), \A k \in 1..n : d[k] = s[k]
    PROVE  Rec(d, n, f) \in Records /\ Shows(Rec(d, n, f), s) /\ Rec(d, n, f).freed = f
  BY RecordOf DEF Shows

\* memmove within an array that source and destination are in.
LEMMA MovedIs ==
    ASSUME NEW a \in Seq(Slots), NEW n \in Int, NEW i \in Int, NEW j \in Int,
           \A k \in 1..Len(a) : k \in i..(i + n - 1) => k - i + j \in 1..Len(a)
    PROVE  /\ Moved(a, i, j, n) \in Seq(Slots) /\ Len(Moved(a, i, j, n)) = Len(a)
           /\ \A k \in 1..Len(a) :
                 Moved(a, i, j, n)[k] = IF k \in i..(i + n - 1) THEN a[k - i + j] ELSE a[k]
  <1> DEFINE e(k) == IF k \in i..(i + n - 1) THEN a[k - i + j] ELSE a[k]
  <1>1. Len(a) \in Nat /\ DOMAIN a = 1..Len(a) /\ \A k \in 1..Len(a) : a[k] \in Slots
    BY LenProperties
  <1>2. \A k \in 1..Len(a) : e(k) \in Slots
    BY <1>1
  <1>3. Moved(a, i, j, n) = [k \in 1..Len(a) |-> e(k)]
    BY <1>1 DEF Moved
  <1> HIDE DEF e
  <1>4. /\ [k \in 1..Len(a) |-> e(k)] \in Seq(Slots) /\ Len([k \in 1..Len(a) |-> e(k)]) = Len(a)
        /\ \A k \in 1..Len(a) : [l \in 1..Len(a) |-> e(l)][k] = e(k)
    BY <1>1, <1>2
  <1> QED
    BY <1>3, <1>4 DEF e

\* insert moves the slots behind the position up, and shows the element in the gap.
LEMMA InsertedShows ==
    ASSUME NEW r \in Records, NEW s \in Seq(Items), Shows(r, s), Len(s) < Capacity(r),
           NEW i \in 1..(Len(s) + 1), NEW x \in Items
    PROVE  /\ Inserted(r, i, x) \in Records /\ Shows(Inserted(r, i, x), InsertAt(s, i, x))
           /\ Inserted(r, i, x).freed = r.freed
  <1> DEFINE n == Len(s)
             open == Moved(r.data, i + 1, i, r.size - i + 1)
             d == [open EXCEPT ![i] = x]
             t == InsertAt(s, i, x)
  <1>1. /\ r.data \in Seq(Slots) /\ r.freed \in BOOLEAN /\ n \in Nat /\ r.size = n
        /\ Len(r.data) \in Nat /\ n < Len(r.data) /\ \A k \in 1..n : r.data[k] = s[k]
    BY RecordIs DEF Shows, Capacity
  <1>2. /\ open \in Seq(Slots) /\ Len(open) = Len(r.data)
        /\ \A k \in 1..Len(r.data) : open[k] = IF k \in (i + 1)..(n + 1) THEN r.data[k - 1] ELSE r.data[k]
    <2>0. r.size - i + 1 \in Int /\ i + 1 \in Int /\ i \in Int
      BY <1>1
    <2>1. PICK m \in Int, to \in Int, from \in Int : m = r.size - i + 1 /\ to = i + 1 /\ from = i
      BY <2>0
    <2>2. PICK a \in Seq(Slots) : a = r.data
      BY <1>1
    <2>3. open = Moved(a, to, from, m)
      BY <2>1, <2>2
    <2> HIDE DEF open, d, t
    <2>4. to + m - 1 = n + 1 /\ \A k \in Int : k - to + from = k - 1
      BY <1>1, <2>1
    <2>5. \A k \in 1..Len(a) : k \in to..(to + m - 1) => k - to + from \in 1..Len(a)
      BY <1>1, <2>1, <2>2, <2>4
    <2>6. /\ open \in Seq(Slots) /\ Len(open) = Len(a)
          /\ \A k \in 1..Len(a) :
                open[k] = IF k \in to..(to + m - 1) THEN a[k - to + from] ELSE a[k]
      BY <2>3, <2>5, MovedIs
    <2> QED
      BY <1>1, <2>1, <2>2, <2>4, <2>6
  <1>3. /\ t \in Seq(Items) /\ Len(t) = n + 1
        /\ \A k \in 1..(n + 1) : t[k] = IF k < i THEN s[k] ELSE IF k = i THEN x ELSE s[k - 1]
    <2> HIDE DEF open, d
    <2>1. /\ InsertAt(s, i, x) \in Seq(Items) /\ Len(InsertAt(s, i, x)) = Len(s) + 1
          /\ \A k \in 1..(Len(s) + 1) :
                InsertAt(s, i, x)[k] = IF k < i THEN s[k] ELSE IF k = i THEN x ELSE s[k - 1]
      BY InsertAtIs
    <2> QED
      BY <2>1
  <1>4. Inserted(r, i, x) = Rec(d, n + 1, r.freed)
    <2>1. Inserted(r, i, x) = [r EXCEPT !.data = d, !.size = r.size + 1]
      BY DEF Inserted
    <2> HIDE DEF d
    <2>2. [r EXCEPT !.data = d, !.size = r.size + 1] = Rec(d, r.size + 1, r.freed)
      BY RecordExcept
    <2> QED
      BY <1>1, <2>1, <2>2
  <1> HIDE DEF open, t, n
  <1>5. /\ d \in Seq(Slots) /\ Len(d) = Len(open)
        /\ \A k \in 1..Len(open) : d[k] = IF k = i THEN x ELSE open[k]
    BY <1>1, <1>2 DEF Slots, n
  <1> HIDE DEF d
  <1>6. \A k \in 1..(n + 1) : d[k] = t[k]
    <2>1. ASSUME NEW k \in 1..(n + 1) PROVE d[k] = t[k]
      <3>1. k \in 1..Len(open) /\ k \in 1..Len(r.data)
        BY <1>1, <1>2
      <3>2. CASE k < i
        <4>1. k \in 1..n /\ k \notin (i + 1)..(n + 1) /\ k # i
          BY <1>1, <3>2 DEF n
        <4>2. d[k] = open[k] /\ open[k] = r.data[k]
          BY <1>2, <1>5, <3>1, <4>1
        <4>3. t[k] = s[k] /\ r.data[k] = s[k]
          BY <1>1, <1>3, <3>2, <4>1
        <4> QED
          BY <4>2, <4>3
      <3>3. CASE k = i
        BY <1>3, <1>5, <3>1, <3>3
      <3>4. CASE k > i
        <4>1. k \in (i + 1)..(n + 1) /\ k - 1 \in 1..n
          BY <3>4, <1>1
        <4>2. d[k] = open[k] /\ open[k] = r.data[k - 1]
          BY <1>2, <1>5, <3>1, <3>4, <4>1
        <4>3. t[k] = s[k - 1] /\ r.data[k - 1] = s[k - 1]
          BY <1>1, <1>3, <3>4, <4>1
        <4> QED
          BY <4>2, <4>3
      <3> QED
        BY <1>1, <3>2, <3>3, <3>4
    <2> QED
      BY <2>1
  <1>7. n + 1 \in Nat /\ n + 1 = Len(t) /\ n + 1 <= Len(d)
    BY <1>1, <1>2, <1>3, <1>5
  <1> QED
    BY <1>1, <1>3, <1>4, <1>5, <1>6, <1>7, RecShows DEF t

\* remove moves the slots behind the position down.
LEMMA RemovedShows ==
    ASSUME NEW r \in Records, NEW s \in Seq(Items), Shows(r, s), NEW i \in 1..Len(s)
    PROVE  /\ Removed(r, i) \in Records /\ Shows(Removed(r, i), RemoveAt(s, i))
           /\ Removed(r, i).freed = r.freed
  <1> DEFINE n == Len(s)
             d == Moved(r.data, i, i + 1, r.size - i)
             t == RemoveAt(s, i)
  <1>1. /\ r.data \in Seq(Slots) /\ r.freed \in BOOLEAN /\ n \in Nat /\ r.size = n /\ i \in 1..n
        /\ Len(r.data) \in Nat /\ n <= Len(r.data) /\ \A k \in 1..n : r.data[k] = s[k]
    BY RecordIs DEF Shows, Capacity
  <1>2. /\ d \in Seq(Slots) /\ Len(d) = Len(r.data)
        /\ \A k \in 1..Len(r.data) : d[k] = IF k \in i..(n - 1) THEN r.data[k + 1] ELSE r.data[k]
    <2>1. PICK m \in Int, from \in Int : m = r.size - i /\ from = i + 1
      BY <1>1
    <2>2. i \in Int /\ i + m - 1 = n - 1 /\ \A k \in Int : k - i + from = k + 1
      BY <1>1, <2>1
    <2>3. \A k \in 1..Len(r.data) : k \in i..(i + m - 1) => k - i + from \in 1..Len(r.data)
      BY <1>1, <2>1, <2>2
    <2>4. /\ Moved(r.data, i, from, m) \in Seq(Slots) /\ Len(Moved(r.data, i, from, m)) = Len(r.data)
          /\ \A k \in 1..Len(r.data) :
                Moved(r.data, i, from, m)[k] = IF k \in i..(i + m - 1) THEN r.data[k - i + from] ELSE r.data[k]
      BY <1>1, <2>2, <2>3, MovedIs
    <2>5. d = Moved(r.data, i, from, m)
      BY <2>1
    <2> HIDE DEF d
    <2> QED
      BY <1>1, <2>1, <2>2, <2>4, <2>5
  <1>3. /\ t \in Seq(Items) /\ Len(t) = n - 1
        /\ \A k \in 1..(n - 1) : t[k] = IF k < i THEN s[k] ELSE s[k + 1]
    BY RemoveAtIs
  <1>4. Removed(r, i) = Rec(d, n - 1, r.freed)
    <2>1. Removed(r, i) = [r EXCEPT !.data = d, !.size = r.size - 1]
      BY DEF Removed
    <2> HIDE DEF d
    <2>2. [r EXCEPT !.data = d, !.size = r.size - 1] = Rec(d, r.size - 1, r.freed)
      BY RecordExcept
    <2> QED
      BY <1>1, <2>1, <2>2
  <1> HIDE DEF d, t, n
  <1>5. \A k \in 1..(n - 1) : d[k] = t[k]
    <2>1. ASSUME NEW k \in 1..(n - 1) PROVE d[k] = t[k]
      <3>1. k \in 1..Len(r.data) /\ k \in 1..n /\ k + 1 \in 1..n
        BY <1>1
      <3>2. CASE k < i
        <4>1. k \notin i..(n - 1)
          BY <1>1, <3>2
        <4>2. d[k] = r.data[k] /\ r.data[k] = s[k] /\ t[k] = s[k]
          BY <1>1, <1>2, <1>3, <3>1, <3>2, <4>1
        <4> QED
          BY <4>2
      <3>3. CASE k >= i
        <4>1. d[k] = r.data[k + 1] /\ r.data[k + 1] = s[k + 1] /\ t[k] = s[k + 1]
          BY <1>1, <1>2, <1>3, <3>1, <3>3
        <4> QED
          BY <4>1
      <3> QED
        BY <1>1, <3>2, <3>3
    <2> QED
      BY <2>1
  <1>6. n - 1 \in Nat /\ n - 1 = Len(t) /\ n - 1 <= Len(d)
    BY <1>1, <1>2, <1>3
  <1>7. /\ Rec(d, n - 1, r.freed) \in Records /\ Shows(Rec(d, n - 1, r.freed), t)
        /\ Rec(d, n - 1, r.freed).freed = r.freed
    <2>1. PICK m \in Nat, f \in BOOLEAN : m = n - 1 /\ f = r.freed
      BY <1>1, <1>6
    <2>2. m = Len(t) /\ m <= Len(d) /\ \A k \in 1..m : d[k] = t[k]
      BY <1>5, <1>6, <2>1
    <2>3. Rec(d, m, f) \in Records /\ Shows(Rec(d, m, f), t) /\ Rec(d, m, f).freed = f
      BY <1>2, <1>3, <2>2, RecShows
    <2> QED
      BY <2>1, <2>3
  <1> QED
    BY <1>4, <1>7 DEF t

\* set puts an element in the place of another.
LEMMA SetShows ==
    ASSUME NEW r \in Records, NEW s \in Seq(Items), Shows(r, s), NEW i \in 1..Len(s),
           NEW x \in Items
    PROVE  LET q == [r EXCEPT !.data[i] = x]
           IN  q \in Records /\ Shows(q, ReplaceAt(s, i, x)) /\ q.freed = r.freed
  <1> DEFINE d == [r.data EXCEPT ![i] = x]
             t == [s EXCEPT ![i] = x]
  <1>1. /\ r.data \in Seq(Slots) /\ r.freed \in BOOLEAN /\ Len(s) \in Nat /\ r.size = Len(s)
        /\ Len(r.data) \in Nat /\ Len(s) <= Len(r.data) /\ \A k \in 1..Len(s) : r.data[k] = s[k]
    BY RecordIs DEF Shows, Capacity
  <1>2. d \in Seq(Slots) /\ Len(d) = Len(r.data) /\ t \in Seq(Items) /\ Len(t) = Len(s)
    BY <1>1 DEF Slots
  <1>3. \A k \in 1..Len(t) : d[k] = t[k]
    BY <1>1
  <1>4. [r EXCEPT !.data[i] = x] = Rec(d, r.size, r.freed)
    <2>1. PICK e : e = d
      OBVIOUS
    <2>2. [r EXCEPT !.data[i] = x] = [r EXCEPT !.data = e]
      BY <2>1
    <2>3. [r EXCEPT !.data = e] = Rec(e, r.size, r.freed)
      BY RecordExcept
    <2> QED
      BY <2>1, <2>2, <2>3
  <1> HIDE DEF d, t
  <1>5. Shows(Rec(d, r.size, r.freed), t) /\ Rec(d, r.size, r.freed) \in Records
        /\ Rec(d, r.size, r.freed).freed = r.freed
    BY <1>1, <1>2, <1>3, RecShows
  <1> QED
    BY <1>4, <1>5 DEF t, ReplaceAt

\* Two places of a sequence exchanged.
Swapped(a, i, j) == [a EXCEPT ![i] = a[j], ![j] = a[i]]

\* swap exchanges two elements, and nothing else is in a slot in use.
LEMMA SwappedShows ==
    ASSUME NEW r \in Records, NEW s \in Seq(Items), Shows(r, s),
           NEW i \in 1..Len(s), NEW j \in 1..Len(s)
    PROVE  LET q == [r EXCEPT !.data = Swapped(r.data, i, j)]
               t == Swapped(s, i, j)
           IN  q \in Records /\ t \in Seq(Items) /\ Shows(q, t) /\ q.freed = r.freed
               /\ Len(t) = Len(s) /\ \A k \in 1..Len(t) : \E l \in 1..Len(s) : t[k] = s[l]
  <1> DEFINE d == Swapped(r.data, i, j)
             t == Swapped(s, i, j)
  <1>1. /\ r.data \in Seq(Slots) /\ r.freed \in BOOLEAN /\ Len(s) \in Nat /\ r.size = Len(s)
        /\ Len(r.data) \in Nat /\ Len(s) <= Len(r.data) /\ \A k \in 1..Len(s) : r.data[k] = s[k]
        /\ i \in 1..Len(r.data) /\ j \in 1..Len(r.data)
    BY RecordIs DEF Shows, Capacity
  <1>2. d \in Seq(Slots) /\ Len(d) = Len(r.data) /\ t \in Seq(Items) /\ Len(t) = Len(s)
    BY <1>1 DEF Slots, Swapped
  <1>3. \A k \in 1..Len(t) : d[k] = t[k]
    BY <1>1 DEF Swapped
  <1>4. \A k \in 1..Len(t) : \E l \in 1..Len(s) : t[k] = s[l]
    BY <1>1 DEF Swapped
  <1> HIDE DEF d
  <1>5. [r EXCEPT !.data = d] = Rec(d, r.size, r.freed)
    BY RecordExcept
  <1> HIDE DEF t
  <1>6. Shows(Rec(d, r.size, r.freed), t) /\ Rec(d, r.size, r.freed) \in Records
        /\ Rec(d, r.size, r.freed).freed = r.freed
    BY <1>1, <1>2, <1>3, RecShows
  <1>7. Shows([r EXCEPT !.data = d], t) /\ [r EXCEPT !.data = d] \in Records
        /\ [r EXCEPT !.data = d].freed = r.freed
    BY <1>5, <1>6
  <1> QED
    BY <1>2, <1>4, <1>7 DEF d, t

\* clear leaves no slot in use.
LEMMA ClearedShows ==
    ASSUME NEW r \in Records
    PROVE  /\ [r EXCEPT !.size = 0] \in Records /\ Shows([r EXCEPT !.size = 0], <<>>)
           /\ [r EXCEPT !.size = 0].freed = r.freed /\ [r EXCEPT !.size = 0].data = r.data
  <1>1. /\ r.data \in Seq(Slots) /\ r.freed \in BOOLEAN /\ Len(r.data) \in Nat
    BY RecordIs
  <1>2. [r EXCEPT !.size = 0] = Rec(r.data, 0, r.freed)
    BY RecordExcept
  <1>3. <<>> \in Seq(Items) /\ Len(<<>>) = 0
    OBVIOUS
  <1>4. Shows(Rec(r.data, 0, r.freed), <<>>) /\ Rec(r.data, 0, r.freed) \in Records
        /\ Rec(r.data, 0, r.freed).freed = r.freed
    <2>1. PICK s \in Seq(Items), n \in Nat : s = <<>> /\ n = 0
      BY <1>3
    <2>2. n = Len(s) /\ n <= Len(r.data) /\ \A k \in 1..n : r.data[k] = s[k]
      BY <1>1, <2>1
    <2>3. Rec(r.data, n, r.freed) \in Records /\ Shows(Rec(r.data, n, r.freed), s)
          /\ Rec(r.data, n, r.freed).freed = r.freed
      BY <1>1, <2>2, RecShows
    <2> QED
      BY <2>1, <2>3
  <1> QED
    BY <1>2, <1>4 DEF Rec

\* A failed growth changes neither the slots nor the size.
LEMMA LostShows ==
    ASSUME NEW r \in Records, NEW s \in Seq(Items), Shows(r, s)
    PROVE  Lost(r) \in Records /\ Shows(Lost(r), s)
  <1>1. (Capacity(r) > 0) \in BOOLEAN
    OBVIOUS
  <1>2. PICK f \in BOOLEAN : f = (Capacity(r) > 0)
    BY <1>1, Zenon
  <1>3. Lost(r) = [r EXCEPT !.freed = f]
    BY <1>2 DEF Lost
  <1>4. PICK d \in Seq(Slots), n \in Nat : d = r.data /\ n = r.size
    BY RecordIs
  <1>5. [r EXCEPT !.freed = f] = Rec(d, n, f)
    BY <1>4, RecordExcept
  <1>6. n = Len(s) /\ n <= Len(d) /\ \A k \in 1..n : d[k] = s[k]
    BY <1>4 DEF Shows, Capacity
  <1>7. Rec(d, n, f) \in Records /\ Shows(Rec(d, n, f), s)
    BY <1>6, RecShows
  <1> QED
    BY <1>3, <1>5, <1>7

\* sort leaves the elements in another order, and the slots behind them alone.
LEMMA SortedShows ==
    ASSUME NEW r \in Records, NEW s \in Seq(Items), Shows(r, s),
           NEW p \in [1..Len(s) -> 1..Len(s)]
    PROVE  LET t == [k \in DOMAIN p |-> r.data[p[k]]]
               q == [r EXCEPT !.data = t \o SubSeq(r.data, r.size + 1, Len(r.data))]
           IN  q \in Records /\ t \in Seq(Items) /\ Shows(q, t) /\ q.freed = r.freed
               /\ Len(t) = Len(s) /\ \A k \in 1..Len(t) : \E l \in 1..Len(s) : t[k] = s[l]
  <1> DEFINE t == [k \in DOMAIN p |-> r.data[p[k]]]
             rest == SubSeq(r.data, r.size + 1, Len(r.data))
             d == t \o rest
  <1>1. /\ r.data \in Seq(Slots) /\ r.freed \in BOOLEAN /\ Len(s) \in Nat /\ r.size = Len(s)
        /\ Len(r.data) \in Nat /\ Len(s) <= Len(r.data) /\ \A k \in 1..Len(s) : r.data[k] = s[k]
        /\ \A k \in 1..Len(r.data) : r.data[k] \in Slots
    BY RecordIs DEF Shows, Capacity
  <1>2. \A k \in 1..Len(s) : p[k] \in 1..Len(s) /\ r.data[p[k]] = s[p[k]] /\ s[p[k]] \in Items
    BY <1>1
  <1>3. t = [k \in 1..Len(s) |-> r.data[p[k]]]
    OBVIOUS
  <1>4. t \in Seq(Items) /\ Len(t) = Len(s) /\ \A k \in 1..Len(s) : t[k] = s[p[k]]
    BY <1>1, <1>2, <1>3
  <1>5. rest \in Seq(Slots) /\ Len(rest) = Len(r.data) - Len(s)
    <2>1. PICK m \in Int : m = r.size + 1
      BY <1>1
    <2>2. Len(r.data) \in Int /\ \A k \in m..Len(r.data) : r.data[k] \in Slots
      BY <1>1, <2>1
    <2>3. /\ SubSeq(r.data, m, Len(r.data)) \in Seq(Slots)
          /\ Len(SubSeq(r.data, m, Len(r.data))) = IF m <= Len(r.data) THEN Len(r.data) - m + 1 ELSE 0
      BY <2>2, SubSeqProperties
    <2> QED
      BY <1>1, <2>1, <2>3
  <1> HIDE DEF t, rest
  <1>6. t \in Seq(Slots)
    BY <1>4 DEF Slots
  <1>7. /\ d \in Seq(Slots) /\ Len(d) = Len(t) + Len(rest)
        /\ \A k \in 1..(Len(t) + Len(rest)) : d[k] = IF k <= Len(t) THEN t[k] ELSE rest[k - Len(t)]
    BY <1>5, <1>6, ConcatProperties
  <1> HIDE DEF d
  <1>8. Len(t) <= Len(d) /\ \A k \in 1..Len(t) : d[k] = t[k]
    BY <1>1, <1>4, <1>5, <1>7
  <1>9. [r EXCEPT !.data = d] = Rec(d, r.size, r.freed)
    BY RecordExcept
  <1>10. Shows(Rec(d, r.size, r.freed), t) /\ Rec(d, r.size, r.freed) \in Records
        /\ Rec(d, r.size, r.freed).freed = r.freed
    BY <1>1, <1>4, <1>7, <1>8, RecShows
  <1>11. \A k \in 1..Len(t) : \E l \in 1..Len(s) : t[k] = s[l]
    BY <1>2, <1>4
  <1> QED
    BY <1>4, <1>9, <1>10, <1>11 DEF d, t, rest

\* copy shows the elements of the other vector, in an array of its capacity.
LEMMA CopiedShows ==
    ASSUME NEW r \in Records, NEW q \in Records, NEW s \in Seq(Items), Shows(q, s)
    PROVE  /\ Copied(r, q) \in Records /\ Shows(Copied(r, q), s)
           /\ Copied(r, q).freed = r.freed
  <1> DEFINE e == [r EXCEPT !.size = 0]
             g == Reserved(e, Capacity(q))
             d == [k \in DOMAIN g.data |-> IF k <= q.size THEN q.data[k] ELSE g.data[k]]
  <1>1. /\ q.data \in Seq(Slots) /\ Len(s) \in Nat /\ q.size = Len(s)
        /\ Len(q.data) \in Nat /\ Len(s) <= Len(q.data) /\ \A k \in 1..Len(s) : q.data[k] = s[k]
        /\ \A k \in 1..Len(q.data) : q.data[k] \in Slots
    BY RecordIs DEF Shows, Capacity
  <1>2. e \in Records /\ Shows(e, <<>>) /\ e.freed = r.freed /\ <<>> \in Seq(Items)
    BY ClearedShows
  <1> HIDE DEF e
  <1>3. g \in Records /\ g.freed = r.freed /\ Asked(Capacity(q)) <= Capacity(g)
    BY <1>1, <1>2, ReservedShows DEF Capacity
  <1>4. Capacity(q) <= Asked(Capacity(q)) /\ Asked(Capacity(q)) \in Nat
    BY <1>1, VectorAssumption DEF Asked, Capacity
  <1> HIDE DEF g
  <1>5. /\ g.data \in Seq(Slots) /\ g.freed \in BOOLEAN /\ Len(g.data) \in Nat /\ DOMAIN g.data = 1..Len(g.data)
        /\ \A k \in 1..Len(g.data) : g.data[k] \in Slots
    BY <1>3, RecordIs
  <1>6. Len(s) <= Len(g.data)
    BY <1>1, <1>3, <1>4, <1>5 DEF Capacity
  <1>7. d \in Seq(Slots) /\ Len(d) = Len(g.data) /\ \A k \in 1..Len(s) : d[k] = s[k]
    <2>1. d = [k \in 1..Len(g.data) |-> IF k <= q.size THEN q.data[k] ELSE g.data[k]]
      BY <1>5
    <2>2. \A k \in 1..Len(g.data) : (IF k <= q.size THEN q.data[k] ELSE g.data[k]) \in Slots
      BY <1>1, <1>5
    <2> QED
      BY <1>1, <1>5, <1>6, <2>1, <2>2
  <1> HIDE DEF d
  <1>8. Copied(r, q) = Rec(d, q.size, g.freed)
    <2>1. Copied(r, q) = [g EXCEPT !.data = d, !.size = q.size]
      BY DEF Copied, d, g, e
    <2>2. [g EXCEPT !.data = d, !.size = q.size] = Rec(d, q.size, g.freed)
      BY <1>3, RecordExcept
    <2> QED
      BY <2>1, <2>2
  <1>9. /\ Rec(d, q.size, g.freed) \in Records /\ Shows(Rec(d, q.size, g.freed), s)
        /\ Rec(d, q.size, g.freed).freed = g.freed
    <2>1. PICK n \in Nat, f \in BOOLEAN : n = q.size /\ f = g.freed
      BY <1>1, <1>5
    <2>2. n = Len(s) /\ n <= Len(d) /\ \A k \in 1..n : d[k] = s[k]
      BY <1>1, <1>6, <1>7, <2>1
    <2>3. Rec(d, n, f) \in Records /\ Shows(Rec(d, n, f), s) /\ Rec(d, n, f).freed = f
      BY <1>7, <2>2, RecShows
    <2> QED
      BY <2>1, <2>3
  <1> QED
    BY <1>3, <1>8, <1>9

\* The slots in use are the elements, and what is held is one of them.
LEMMA ElemsAre ==
    ASSUME NEW r \in Records, NEW s \in Seq(Items), Shows(r, s)
    PROVE  /\ Elems(r) = s /\ Range(s) = {s[k] : k \in 1..Len(s)}
           /\ \A i : Contains(s, i) <=> \E k \in 1..Len(s) : s[k] = i
  <1>1. /\ r.data \in Seq(Slots) /\ Len(s) \in Nat /\ r.size = Len(s) /\ Len(r.data) \in Nat
        /\ Len(s) <= Len(r.data) /\ \A k \in 1..Len(s) : r.data[k] = s[k]
    BY RecordIs DEF Shows, Capacity
  <1>2. Len(s) \in 0..Len(r.data)
    BY <1>1
  <1>3. /\ SubSeq(r.data, 1, Len(s)) \in Seq(Slots) /\ Len(SubSeq(r.data, 1, Len(s))) = Len(s)
        /\ \A k \in 1..Len(s) : SubSeq(r.data, 1, Len(s))[k] = r.data[k]
    BY <1>1, <1>2, FirstAre
  <1>4. SubSeq(r.data, 1, Len(s)) = s
    BY <1>1, <1>3, SeqEqual
  <1>5. DOMAIN s = 1..Len(s)
    BY LenProperties
  <1> QED
    BY <1>1, <1>4, <1>5 DEF Elems, Range, Contains

-----------------------------------------------------------------------------
(* Every call keeps what the vectors show.                                 *)

\* A call on one vector keeps the invariant if it leaves that vector sound and no
\* other one with a freed item.
LEMMA BecomesKeeps ==
    ASSUME VectorInv, NEW v \in Vecs, NEW r, NEW s \in Seq(Items), Becomes(v, r, s),
           r # None => r \in Records /\ Shows(r, s) /\ \A k \in 1..Len(s) : s[k] \in heap',
           heap' \in SUBSET Items, r \in Records \cup {None},
           \A u \in Vecs \ {v} : Exists(u) => \A k \in 1..Len(want[u]) : want[u][k] \in heap'
    PROVE  VectorInv'
  <1>1. /\ vec \in [Vecs -> Records \cup {None}] /\ want \in [Vecs -> Seq(Items)]
        /\ \A u \in Vecs : vec[u] # None =>
              Shows(vec[u], want[u]) /\ \A k \in 1..Len(want[u]) : want[u][k] \in heap
    BY DEF VectorInv, TypeOK, Exists
  <1>2. /\ vec' \in [Vecs -> Records \cup {None}] /\ want' \in [Vecs -> Seq(Items)]
        /\ vec'[v] = r /\ want'[v] = s
        /\ \A u \in Vecs \ {v} : vec'[u] = vec[u] /\ want'[u] = want[u]
    BY <1>1 DEF Becomes
  <1>3. \A u \in Vecs \ {v} : vec[u] # None => \A k \in 1..Len(want[u]) : want[u][k] \in heap'
    BY DEF Exists
  <1>4. ASSUME NEW u \in Vecs, vec'[u] # None
        PROVE  Shows(vec'[u], want'[u]) /\ \A k \in 1..Len(want'[u]) : want'[u][k] \in heap'
    BY <1>1, <1>2, <1>3, <1>4
  <1> QED
    BY <1>2, <1>4 DEF VectorInv, TypeOK, Exists, Shows, Capacity

\* So does one that frees nothing.
LEMMA KeepsElems ==
    ASSUME VectorInv, NEW v \in Vecs, NEW r \in Records, NEW s \in Seq(Items),
           Becomes(v, r, s), Shows(r, s), \A k \in 1..Len(s) : s[k] \in heap, UNCHANGED heap
    PROVE  VectorInv'
  <1>1. heap' \in SUBSET Items /\ \A k \in 1..Len(s) : s[k] \in heap'
    BY DEF VectorInv, TypeOK
  <1>2. \A u \in Vecs \ {v} : Exists(u) => \A k \in 1..Len(want[u]) : want[u][k] \in heap'
    BY DEF VectorInv
  <1> QED
    BY <1>1, <1>2, BecomesKeeps

\* What the invariant says of one vector.
LEMMA Existing ==
    ASSUME VectorInv, NEW v \in Vecs, Exists(v)
    PROVE  /\ vec[v] \in Records /\ want[v] \in Seq(Items) /\ Shows(vec[v], want[v])
           /\ vec[v].size = Len(want[v]) /\ vec[v] # None /\ Len(want[v]) \in Nat
           /\ \A k \in 1..Len(want[v]) : want[v][k] \in heap /\ want[v][k] \in Items
           /\ Elems(vec[v]) = want[v]
           /\ \A i : i \in Range(want[v]) <=> \E k \in 1..Len(want[v]) : want[v][k] = i
           /\ \A i : Contains(want[v], i) <=> \E k \in 1..Len(want[v]) : want[v][k] = i
  <1>1. /\ vec[v] \in Records /\ want[v] \in Seq(Items) /\ Shows(vec[v], want[v]) /\ vec[v] # None
        /\ \A k \in 1..Len(want[v]) : want[v][k] \in heap
    BY DEF VectorInv, TypeOK, Exists
  <1>2. Len(want[v]) \in Nat /\ \A k \in 1..Len(want[v]) : want[v][k] \in Items
    BY <1>1
  <1>3. /\ Elems(vec[v]) = want[v] /\ Range(want[v]) = {want[v][k] : k \in 1..Len(want[v])}
        /\ \A i : Contains(want[v], i) <=> \E k \in 1..Len(want[v]) : want[v][k] = i
    BY <1>1, ElemsAre
  <1> QED
    BY <1>1, <1>2, <1>3 DEF Shows

\* The caller frees only what no vector holds.
LEMMA ItemsStep ==
    ASSUME VectorInv, NEW i \in Items, MakeItem(i) \/ FreeItem(i)
    PROVE  VectorInv'
  <1>1. UNCHANGED <<vec, want>> /\ heap' \in SUBSET Items
    BY DEF MakeItem, FreeItem, VectorInv, TypeOK
  <1>2. ASSUME NEW v \in Vecs, Exists(v), NEW k \in 1..Len(want[v]) PROVE want[v][k] \in heap'
    <2>1. CASE MakeItem(i)
      BY <1>2, <2>1 DEF MakeItem, VectorInv
    <2>2. CASE FreeItem(i)
      <3>1. ~Contains(Elems(vec[v]), i)
        BY <1>2, <2>2 DEF FreeItem, Loose, Held
      <3>2. want[v][k] \in heap /\ want[v][k] # i
        BY <1>2, <3>1, Existing
      <3> QED
        BY <2>2, <3>2 DEF FreeItem
    <2> QED
      BY <2>1, <2>2
  <1> QED
    BY <1>1, <1>2 DEF VectorInv, TypeOK, Exists, Shows, Capacity

\* new, free, clear, free_full and clear_full: what the last two free is in no
\* other vector.
LEMMA WholeStep ==
    ASSUME VectorInv, NEW v \in Vecs,
           New(v) \/ Free(v) \/ Clear(v) \/ FreeFull(v) \/ ClearFull(v)
    PROVE  VectorInv'
  <1>0. <<>> \in Seq(Items) /\ \A S : \A k \in 1..Len(<<>>) : <<>>[k] \in S
    OBVIOUS
  <1>1. heap \in SUBSET Items /\ \A u \in Vecs : Exists(u) => \A k \in 1..Len(want[u]) : want[u][k] \in heap
    BY DEF VectorInv, TypeOK
  <1>2. CASE New(v)
    <2>1. Empty \in Records /\ Shows(Empty, <<>>)
      BY DEF Empty, Records, Shows, Capacity
    <2>2. Becomes(v, Empty, <<>>) /\ UNCHANGED heap
      BY <1>2 DEF New
    <2> QED
      BY <1>0, <2>1, <2>2, KeepsElems
  <1>3. CASE Free(v)
    <2>1. Becomes(v, None, <<>>) /\ UNCHANGED heap
      BY <1>3 DEF Free
    <2> QED
      BY <1>0, <1>1, <2>1, BecomesKeeps
  <1>4. CASE Clear(v)
    <2>1. Becomes(v, [vec[v] EXCEPT !.size = 0], <<>>) /\ UNCHANGED heap /\ Exists(v)
      BY <1>4 DEF Clear, Call
    <2>2. [vec[v] EXCEPT !.size = 0] \in Records /\ Shows([vec[v] EXCEPT !.size = 0], <<>>)
      BY <2>1, Existing, ClearedShows
    <2> QED
      BY <1>0, <2>1, <2>2, KeepsElems
  <1>5. ASSUME Alone(v), FreeElems(v), Exists(v)
        PROVE  /\ heap' \in SUBSET Items
               /\ \A u \in Vecs \ {v} : Exists(u) => \A k \in 1..Len(want[u]) : want[u][k] \in heap'
    <2>1. heap' \in SUBSET Items
      BY <1>1, <1>5 DEF FreeElems
    <2>2. ASSUME NEW u \in Vecs \ {v}, Exists(u), NEW k \in 1..Len(want[u]) PROVE want[u][k] \in heap'
      <3>0. /\ want[u][k] \in heap /\ Elems(vec[u]) = want[u]
            /\ \A i : Contains(want[u], i) <=> \E l \in 1..Len(want[u]) : want[u][l] = i
        BY <2>2, Existing
      <3>1. want[u][k] \in heap /\ Contains(Elems(vec[u]), want[u][k])
        BY <3>0
      <3>2. want[u][k] \notin Range(Elems(vec[v]))
        BY <1>5, <2>2, <3>1 DEF Alone
      <3> QED
        BY <1>5, <3>1, <3>2 DEF FreeElems
    <2> QED
      BY <2>1, <2>2
  <1>6. CASE FreeFull(v)
    <2>1. Becomes(v, None, <<>>) /\ Alone(v) /\ FreeElems(v) /\ Exists(v)
      BY <1>6 DEF FreeFull, Call
    <2> QED
      BY <1>0, <1>5, <2>1, BecomesKeeps
  <1>7. CASE ClearFull(v)
    <2> DEFINE r == [vec[v] EXCEPT !.size = 0]
    <2>1. Becomes(v, r, <<>>) /\ Alone(v) /\ FreeElems(v) /\ Exists(v)
      BY <1>7 DEF ClearFull, Call
    <2>2. r \in Records /\ Shows(r, <<>>)
      BY <2>1, Existing, ClearedShows
    <2> HIDE DEF r
    <2> QED
      BY <1>0, <1>5, <2>1, <2>2, BecomesKeeps
  <1> QED
    BY <1>2, <1>3, <1>4, <1>6, <1>7

\* fit and reserve, also when they fail.
LEMMA CapacityStep ==
    ASSUME VectorInv, NEW v \in Vecs,
           Fit(v) \/ \E n \in 0..MaxCapacity : Reserve(v, n) \/ CannotGrow(v, n)
    PROVE  VectorInv'
  <1>1. Exists(v)
    BY DEF Fit, Reserve, CannotGrow, Call
  <1> DEFINE r == vec[v]
             s == want[v]
  <1>2. /\ r \in Records /\ s \in Seq(Items) /\ Shows(r, s) /\ \A k \in 1..Len(s) : s[k] \in heap
        /\ Len(s) \in Nat /\ r.size = Len(s)
    BY <1>1, Existing
  <1>3. Lost(r) \in Records /\ Shows(Lost(r), s)
    BY <1>2, LostShows
  <1>4. ASSUME NEW n \in Nat PROVE Reserved(r, n) \in Records /\ Shows(Reserved(r, n), s)
    BY <1>2, ReservedShows
  <1>5. Resized(r, r.size) \in Records /\ Shows(Resized(r, r.size), s)
    BY <1>2, ResizedShows
  <1>6. PICK q : /\ Becomes(v, q, s) /\ UNCHANGED heap
                 /\ q = Lost(r) \/ q = Resized(r, r.size) \/ \E n \in Nat : q = Reserved(r, n)
    <2>1. CASE Fit(v)
      BY <2>1 DEF Fit
    <2>2. CASE \E n \in 0..MaxCapacity : Reserve(v, n) \/ CannotGrow(v, n)
      <3>1. 0..MaxCapacity \subseteq Nat
        BY VectorAssumption
      <3> QED
        BY <2>2, <3>1 DEF Reserve, CannotGrow
    <2> QED
      BY <2>1, <2>2
  <1>7. q \in Records /\ Shows(q, s)
    BY <1>3, <1>4, <1>5, <1>6
  <1> HIDE DEF r, s
  <1> QED
    BY <1>2, <1>6, <1>7, KeepsElems

-----------------------------------------------------------------------------
(* Bisection.                                                              *)

\* How the slots compare with a key, none of them greater than one before it.
Falls(a, n) ==
    /\ n \in Nat /\ a \in [1..n -> Int]
    /\ \A i, j \in 1..n : i <= j => a[j] <= a[i]

\* The result says that the first c slots are not after the key: it is the last of
\* these if that one matches, and says where the key belongs if none does.
Finds(a, n, pos, c) ==
    /\ c \in 0..n /\ \A j \in 1..n : j <= c <=> a[j] >= 0
    /\ \/ c \in 1..n /\ a[c] = 0 /\ pos = c - 1
       \/ (\A j \in 1..n : a[j] # 0) /\ pos = -(c + 1)

\* Among equal slots the search stops at the last.
LEMMA RightmostIs ==
    ASSUME NEW d, NEW n \in Nat, NEW k, NEW up, NEW a, Falls(a, n),
           \A j \in 1..n : Cmp(up, k, d[j]) = a[j],
           NEW high \in Int, NEW mid \in 0..high, high < n, a[mid + 1] = 0
    PROVE  LET m == Rightmost(d, high, mid, k, up)
           IN  m \in mid..high /\ a[m + 1] = 0 /\ (m = high \/ a[m + 2] < 0)
  <1> DEFINE Stop(m) == m = high \/ Cmp(up, k, d[m + 2]) # 0
             Same(m) == \A j \in mid..m : Cmp(up, k, d[j + 1]) = 0
             T0 == {m \in Nat : m \in mid..high /\ Stop(m)}
  <1>1. a \in [1..n -> Int] /\ mid + 1 \in 1..n /\ \A m \in mid..high : m + 1 \in 1..n
    BY DEF Falls
  <1>2. high \in T0
    OBVIOUS
  <1>3. PICK m \in T0 : \A l \in T0 : ~(l < m)
    BY <1>2, LeastNumber
  <1>4. ASSUME NEW j \in mid..m PROVE Cmp(up, k, d[j + 1]) = 0
    <2>1. CASE j = mid
      BY <1>1, <2>1
    <2>2. CASE j # mid
      <3>1. j - 1 \in Nat /\ j - 1 \in mid..high /\ j - 1 < m /\ j - 1 # high /\ (j - 1) + 2 = j + 1
        BY <1>3, <2>2
      <3>2. ~Stop(j - 1)
        BY <1>3, <3>1
      <3> QED
        BY <3>1, <3>2
    <2> QED
      BY <2>1, <2>2
  <1>5. Stop(m) /\ Same(m) /\ m \in mid..high
    BY <1>3, <1>4
  <1> HIDE DEF Stop, Same
  <1>6. Rightmost(d, high, mid, k, up) = CHOOSE l \in mid..high : Same(l) /\ Stop(l)
    BY DEF Rightmost, Same, Stop
  <1>7. PICK l : l = Rightmost(d, high, mid, k, up)
    OBVIOUS
  <1>8. l \in mid..high /\ Same(l) /\ Stop(l)
    BY <1>5, <1>6, <1>7
  <1>9. a[l + 1] = 0 /\ l + 1 \in 1..n
    BY <1>1, <1>8 DEF Same
  <1>10. l = high \/ a[l + 2] < 0
    <2> SUFFICES ASSUME l # high PROVE a[l + 2] < 0
      OBVIOUS
    <2>1. l + 2 \in 1..n /\ l + 1 <= l + 2
      BY <1>8
    <2>2. a[l + 2] # 0
      BY <1>8, <2>1 DEF Stop
    <2>3. a[l + 2] <= a[l + 1] /\ a[l + 2] \in Int
      BY <1>9, <2>1 DEF Falls
    <2> QED
      BY <1>9, <2>2, <2>3
  <1> QED
    BY <1>7, <1>8, <1>9, <1>10

\* Bisection: what is in front of the range is greater than the slots it leaves out,
\* and it is shorter at every step.
LEMMA SearchFinds ==
    ASSUME NEW r, NEW k, NEW up, NEW n, NEW a, NEW c, Falls(a, n), r.size = n,
           \A j \in 1..n : Cmp(up, k, r.data[j]) = a[j],
           c \in 0..n, \A j \in 1..n : j <= c <=> a[j] >= 0
    PROVE  Finds(a, n, Find(r, k, up), c)
  <1> DEFINE A == 0..n
             B == -1..(n - 1)
             S == A \X B
             Mid(low, high) == low + (high - low) \div 2
             Right(mid, high) == Rightmost(r.data, high, mid, k, up)
             Def(f, b) ==
                LET low  == b[1]
                    high == b[2]
                    mid  == Mid(low, high)
                    e    == Cmp(up, k, r.data[mid + 1])
                IN  IF low > high THEN -(low + 1)
                    ELSE IF e = 0 THEN Right(mid, high)
                    ELSE IF e < 0 THEN f[<<low, mid - 1>>] ELSE f[<<mid + 1, high>>]
             search == CHOOSE f : f = [b \in S |-> Def(f, b)]
             D == [g \in [S -> Int] |-> [b \in S |-> Def(g, b)]]
             size == [b \in S |-> (b[2] - b[1]) + (n + 1)]
             bound == 2 * n + 2
  <1>0. n \in Nat /\ c \in Nat /\ a \in [1..n -> Int] /\ \A j \in 1..n : a[j] \in Int
    BY DEF Falls
  <1>10. ASSUME NEW low \in A, NEW high \in B, ~(low > high)
        PROVE  /\ Mid(low, high) \in low..high /\ Mid(low, high) + 1 \in 1..n
               /\ Mid(low, high) + 1 \in A /\ Mid(low, high) - 1 \in B
    BY <1>0, <1>10
  <1>11. ASSUME NEW low \in A, NEW high \in B, NEW mid \in low..high, a[mid + 1] = 0
        PROVE  /\ Right(mid, high) \in mid..high /\ a[Right(mid, high) + 1] = 0
               /\ Right(mid, high) = high \/ a[Right(mid, high) + 2] < 0
    <2>1. high \in Int /\ mid \in 0..high /\ high < n
      BY <1>0
    <2> QED
      BY <1>0, <1>11, <2>1, RightmostIs
  <1>5. Find(r, k, up) = search[<<0, n - 1>>]
    BY DEF Find, NotFound
  <1> HIDE DEF Mid, Right
  <1>1. D \in [[S -> Int] -> [S -> Int]]
    <2>1. ASSUME NEW g \in [S -> Int], NEW b \in S PROVE Def(g, b) \in Int
      <3>0. b[1] \in A /\ b[2] \in B
        OBVIOUS
      <3>1. CASE b[1] > b[2]
        BY <3>0, <3>1, <1>0
      <3>2. CASE ~(b[1] > b[2])
        <4> DEFINE mid == Mid(b[1], b[2])
        <4>1. mid \in b[1]..b[2] /\ mid + 1 \in 1..n /\ mid + 1 \in A /\ mid - 1 \in B
          BY <3>0, <3>2, <1>10
        <4>2. g[<<mid + 1, b[2]>>] \in Int /\ g[<<b[1], mid - 1>>] \in Int
          BY <3>0, <4>1
        <4>3. Cmp(up, k, r.data[mid + 1]) = a[mid + 1]
          BY <4>1
        <4>4. a[mid + 1] = 0 => Right(mid, b[2]) \in Int
          BY <3>0, <4>1, <1>11
        <4> QED
          BY <3>2, <4>2, <4>3, <4>4
      <3> QED
        BY <3>1, <3>2
    <2> HIDE DEF Def, S
    <2> QED
      BY <2>1
  <1>2. \E f \in [S -> Int] : f = D[f]
    <2>1. size \in [S -> Nat] /\ bound \in Nat /\ \A x \in S : size[x] < bound
      BY <1>0
    <2>2. ASSUME NEW g \in [S -> Int], NEW h \in [S -> Int], NEW b \in S,
                 \A y \in S : size[y] < size[b] => g[y] = h[y]
          PROVE  Def(g, b) = Def(h, b)
      <3> DEFINE mid == Mid(b[1], b[2])
      <3>1. CASE b[1] > b[2]
        BY <3>1
      <3>2. CASE ~(b[1] > b[2])
        <4>1. b[1] \in A /\ b[2] \in B /\ mid \in b[1]..b[2] /\ mid + 1 \in A /\ mid - 1 \in B
          BY <3>2, <1>10
        <4> HIDE DEF mid
        <4>2. /\ <<mid + 1, b[2]>> \in S /\ size[<<mid + 1, b[2]>>] < size[b]
              /\ <<b[1], mid - 1>> \in S /\ size[<<b[1], mid - 1>>] < size[b]
          BY <1>0, <4>1, SMTT(30)
        <4>3. g[<<mid + 1, b[2]>>] = h[<<mid + 1, b[2]>>] /\ g[<<b[1], mid - 1>>] = h[<<b[1], mid - 1>>]
          BY <2>2, <4>2
        <4> QED
          BY <4>3 DEF mid
      <3> QED
        BY <3>1, <3>2
    <2>3. Int # {}
      OBVIOUS
    <2>6. \A g \in [S -> Int], x \in S : D[g][x] = Def(g, x)
      OBVIOUS
    <2>4. \A g, h \in [S -> Int], x \in S :
             (\A y \in S : size[y] < size[x] => g[y] = h[y]) => D[g][x] = D[h][x]
      <3> HIDE DEF D, Def, size, S
      <3> SUFFICES ASSUME NEW g \in [S -> Int], NEW h \in [S -> Int], NEW x \in S,
                          \A y \in S : size[y] < size[x] => g[y] = h[y]
                   PROVE  D[g][x] = D[h][x]
        OBVIOUS
      <3>1. Def(g, x) = Def(h, x)
        BY <2>2
      <3> QED
        BY <3>1, <2>6
    <2> HIDE DEF D, size, S, bound
    <2>5. Definable(S, Int, D, size, bound)
      BY <1>1, <2>1, <2>3, <2>4 DEF Definable
    <2> QED
      BY <2>5, Recursion
  <1>3. \E f : f = [b \in S |-> Def(f, b)]
    <2>1. PICK f \in [S -> Int] : f = D[f]
      BY <1>2
    <2> QED
      BY <2>1
  <1>4. search = [b \in S |-> Def(search, b)]
    BY <1>3
  <1> HIDE DEF search
  <1>6. \A low \in A, high \in B : search[<<low, high>>] = Def(search, <<low, high>>)
    BY <1>4
  <1> DEFINE Between(low, high) ==
                /\ low <= high + 1
                /\ \A i \in 1..n : i <= low => a[i] > 0
                /\ \A i \in 1..n : i > high + 1 => a[i] < 0
             Wrong == {w \in Nat : \E low \in A, high \in B :
                          Between(low, high) /\ w = (high - low) + 1 /\ ~Finds(a, n, search[<<low, high>>], c)}
  <1>7. Wrong = {}
    <2> SUFFICES ASSUME Wrong # {} PROVE FALSE
      OBVIOUS
    <2>1. PICK m \in Wrong : \A w \in Wrong : ~(w < m)
      BY LeastNumber
    <2>2. PICK low \in A, high \in B :
             Between(low, high) /\ m = (high - low) + 1 /\ ~Finds(a, n, search[<<low, high>>], c)
      BY <2>1
    <2>3. CASE low > high
      <3>1. low = high + 1
        BY <2>2, <2>3, <1>0, SMTT(30)
      <3>2. Def(search, <<low, high>>) = -(low + 1)
        BY <2>3
      <3>3. search[<<low, high>>] = -(low + 1)
        BY <3>2, <1>6
      <3>4. \A j \in 1..n : a[j] \in Int /\ a[j] # 0 /\ (j <= low <=> a[j] >= 0)
        BY <2>2, <3>1, <1>0
      <3>5. c = low
        <4>1. \A j \in 1..n : j <= c <=> j <= low
          BY <3>4
        <4>2. low \in Nat /\ low <= n /\ c <= n
          BY <1>0
        <4>3. ~(low + 1 <= c)
          <5> SUFFICES ASSUME low + 1 <= c PROVE FALSE
            OBVIOUS
          <5>1. low + 1 \in 1..n /\ ~(low + 1 <= low)
            BY <4>2, <1>0
          <5> QED
            BY <4>1, <5>1
        <4>4. ~(c + 1 <= low)
          <5> SUFFICES ASSUME c + 1 <= low PROVE FALSE
            OBVIOUS
          <5>1. c + 1 \in 1..n /\ ~(c + 1 <= c)
            BY <4>2, <1>0
          <5> QED
            BY <4>1, <5>1
        <4> QED
          BY <4>2, <4>3, <4>4, <1>0
      <3> QED
        BY <2>2, <3>3, <3>4, <3>5 DEF Finds
    <2>4. CASE ~(low > high)
      <3> DEFINE mid == Mid(low, high)
      <3>1. mid \in low..high /\ mid + 1 \in 1..n /\ mid + 1 \in A /\ mid - 1 \in B
        BY <2>4, <1>10
      <3> HIDE DEF mid
      <3>2. /\ a[mid + 1] = 0 => search[<<low, high>>] = Right(mid, high)
            /\ a[mid + 1] > 0 => search[<<low, high>>] = search[<<mid + 1, high>>]
            /\ a[mid + 1] < 0 => search[<<low, high>>] = search[<<low, mid - 1>>]
        <4>1. search[<<low, high>>] = Def(search, <<low, high>>)
          BY <1>6
        <4>2. a[mid + 1] \in Int /\ Cmp(up, k, r.data[mid + 1]) = a[mid + 1]
          BY <3>1, <1>0
        <4> QED
          BY <2>4, <4>1, <4>2 DEF mid
      <3>3. CASE a[mid + 1] = 0
        <4>1. PICK m2 : m2 = Right(mid, high)
          OBVIOUS
        <4>2. m2 \in mid..high /\ a[m2 + 1] = 0 /\ (m2 = high \/ a[m2 + 2] < 0)
          BY <3>1, <3>3, <4>1, <1>11
        <4>3. m2 + 1 \in 1..n
          BY <3>1, <4>2, <1>0
        <4>4. c = m2 + 1
          <5>1. m2 + 1 <= c
            BY <4>2, <4>3
          <5>2. ~(m2 + 2 <= c)
            <6>1. SUFFICES ASSUME m2 + 2 <= c PROVE FALSE
              OBVIOUS
            <6>2. m2 + 2 \in 1..n
              BY <3>1, <4>2, <6>1, <1>0
            <6>3. a[m2 + 2] < 0
              BY <4>2, <6>2, <2>2
            <6>4. a[m2 + 2] >= 0
              BY <6>1, <6>2
            <6> QED
              BY <6>2, <6>3, <6>4, <1>0
          <5> QED
            BY <4>2, <5>1, <5>2, <1>0
        <4>5. c \in 1..n /\ a[c] = 0 /\ m2 = c - 1
          BY <4>2, <4>3, <4>4
        <4> QED
          BY <2>2, <3>2, <3>3, <4>1, <4>5 DEF Finds
      <3>4. CASE a[mid + 1] > 0
        <4>1. \A i \in 1..n : i <= mid + 1 => a[i] > 0
          <5> TAKE i \in 1..n
          <5>1. i <= mid + 1 => a[i] >= a[mid + 1]
            BY <3>1, <1>0 DEF Falls
          <5> QED
            BY <5>1, <3>1, <3>4, <1>0
        <4>2. Between(mid + 1, high)
          BY <4>1, <2>2, <3>1
        <4>3. (high - (mid + 1)) + 1 \in Nat /\ (high - (mid + 1)) + 1 < m
          BY <2>2, <3>1, SMTT(30)
        <4>4. Finds(a, n, search[<<mid + 1, high>>], c)
          BY <2>1, <4>2, <4>3, <3>1
        <4> QED
          BY <2>2, <3>2, <3>4, <4>4
      <3>5. CASE a[mid + 1] < 0
        <4>1. \A i \in 1..n : i > (mid - 1) + 1 => a[i] < 0
          <5> TAKE i \in 1..n
          <5>1. mid + 1 <= i => a[i] <= a[mid + 1]
            BY <3>1, <1>0 DEF Falls
          <5>2. i > (mid - 1) + 1 => mid + 1 <= i
            BY <3>1, SMTT(30)
          <5> QED
            BY <5>1, <5>2, <3>1, <3>5, <1>0
        <4>2. Between(low, mid - 1)
          BY <4>1, <2>2, <3>1
        <4>3. ((mid - 1) - low) + 1 \in Nat /\ ((mid - 1) - low) + 1 < m
          BY <2>2, <3>1, SMTT(30)
        <4>4. Finds(a, n, search[<<low, mid - 1>>], c)
          BY <2>1, <4>2, <4>3, <3>1
        <4> QED
          BY <2>2, <3>2, <3>5, <4>4
      <3> QED
        BY <3>1, <3>3, <3>4, <3>5, <1>0
    <2> QED
      BY <2>3, <2>4
  <1>8. Between(0, n - 1) /\ 0 \in A /\ n - 1 \in B
    BY <1>0
  <1>9. ((n - 1) - 0) + 1 \in Nat
    BY <1>0
  <1> QED
    BY <1>5, <1>7, <1>8, <1>9

\* The comparison, and the one that turns it around.
LEMMA CmpIs ==
    ASSUME NEW up \in {-1, 1}, NEW k \in Int, NEW e \in Items
    PROVE  /\ Keys[e] \in Int /\ Cmp(up, k, e) \in Int
           /\ Cmp(up, k, e) = (IF up = 1 THEN k - Keys[e] ELSE Keys[e] - k)
  <1>1. Keys[e] \in Int
    BY VectorAssumption
  <1>2. CASE up = 1
    BY <1>1, <1>2 DEF Cmp
  <1>3. CASE up = -1
    BY <1>1, <1>3 DEF Cmp
  <1> QED
    BY <1>1, <1>2, <1>3

\* How the elements compare with a key.
Compared(s, k, up) == [j \in 1..Len(s) |-> Cmp(up, k, s[j])]

\* In a sorted vector the comparison with a key falls from slot to slot.
LEMMA ComparedFalls ==
    ASSUME NEW s \in Seq(Items), NEW up \in {-1, 1}, Sorted(s, up), NEW k \in Int
    PROVE  Falls(Compared(s, k, up), Len(s))
  <1> DEFINE a == Compared(s, k, up)
             n == Len(s)
  <1>1. n \in Nat /\ \A j \in 1..n : s[j] \in Items
    OBVIOUS
  <1>2. a \in [1..n -> Int] /\ \A j \in 1..n : a[j] = Cmp(up, k, s[j])
    BY <1>1, CmpIs DEF Compared
  <1>3. ASSUME NEW j \in 1..(n - 1) PROVE a[j + 1] <= a[j]
    <2>1. j \in 1..n /\ j + 1 \in 1..n
      BY <1>1
    <2>2. PICK e \in Items, g \in Items : e = s[j] /\ g = s[j + 1]
      BY <1>1, <2>1
    <2>3. Cmp(up, Keys[e], g) <= 0
      BY <1>3, <2>2 DEF Sorted
    <2>4. Keys[e] \in Int /\ Keys[g] \in Int
      BY CmpIs
    <2>5. /\ Cmp(up, Keys[e], g)
             = (IF up = 1 THEN Keys[e] - Keys[g] ELSE Keys[g] - Keys[e])
          /\ Cmp(up, k, e) = (IF up = 1 THEN k - Keys[e] ELSE Keys[e] - k)
          /\ Cmp(up, k, g) = (IF up = 1 THEN k - Keys[g] ELSE Keys[g] - k)
      BY <2>4, CmpIs
    <2>6. a[j] = Cmp(up, k, e) /\ a[j + 1] = Cmp(up, k, g)
      BY <1>2, <2>1, <2>2
    <2> QED
      BY <2>3, <2>4, <2>5, <2>6
  <1> HIDE DEF a, n
  <1>4. ASSUME NEW i \in 1..n PROVE \A j \in 1..n : i <= j => a[j] <= a[i]
    <2> DEFINE Wrong == {j \in Nat : j \in 1..n /\ i <= j /\ ~(a[j] <= a[i])}
    <2> SUFFICES ASSUME Wrong # {} PROVE FALSE
      BY <1>1
    <2>1. PICK m \in Wrong : \A j \in Wrong : ~(j < m)
      BY LeastNumber
    <2>2. m \in Nat /\ m \in 1..n /\ i <= m /\ ~(a[m] <= a[i]) /\ m # i
      BY <1>2, <2>1
    <2>3. m - 1 \in Nat /\ m - 1 \in 1..n /\ i <= m - 1 /\ m - 1 < m /\ m - 1 \in 1..(n - 1) /\ (m - 1) + 1 = m
      BY <1>1, <2>2
    <2>4. a[m - 1] <= a[i]
      BY <2>1, <2>3
    <2>5. a[m] <= a[m - 1]
      BY <1>3, <2>3
    <2> QED
      BY <1>2, <2>2, <2>3, <2>4, <2>5
  <1> QED
    BY <1>1, <1>2, <1>4 DEF Falls, a, n

\* The position of the last element that matches or, if none does, where one would go.
FoundRight(r, s, k, up) ==
    LET pos == Find(r, k, up)
        c   == After(s, k, up)
    IN  /\ c \in 0..Len(s)
        /\ IF \E i \in Range(s) : Keys[i] = k THEN c # 0 /\ pos = c - 1 ELSE pos = -(c + 1)

\* find and find_with are exact in a sorted vector, for any key: the position of the last
\* match, or "-(insert_pos + 1)".
THEOREM FindIs ==
    ASSUME NEW r \in Records, NEW s \in Seq(Items), Shows(r, s),
           NEW up \in {-1, 1}, Sorted(s, up), NEW k \in Int
    PROVE  FoundRight(r, s, k, up)
  <1> DEFINE n == Len(s)
             a == Compared(s, k, up)
             T0 == {c \in Nat : c \in 0..n /\ \A j \in 1..n : j > c => a[j] < 0}
  <1>1. n \in Nat /\ DOMAIN s = 1..n /\ (\A j \in 1..n : s[j] \in Items) /\ r.size = n
    BY DEF Shows
  <1>2. /\ \A j \in 1..n : a[j] = Cmp(up, k, s[j])
        /\ \A j \in 1..n : r.data[j] = s[j]
    BY DEF Compared, Shows
  <1>3. Falls(a, n) /\ a \in [1..n -> Int] /\ \A i, j \in 1..n : i <= j => a[j] <= a[i]
    BY ComparedFalls DEF Falls
  <1> HIDE DEF a, n
  <1>4. n \in T0
    BY <1>1
  <1>5. PICK c \in T0 : \A l \in T0 : ~(l < c)
    BY <1>4, LeastNumber
  <1>6. c \in 0..n /\ c \in Nat
    BY <1>5
  <1>7. \A j \in 1..n : j <= c <=> a[j] >= 0
    <2>1. ASSUME c # 0 PROVE a[c] >= 0
      <3>1. c - 1 \in Nat /\ c - 1 \in 0..n /\ c - 1 < c /\ c \in 1..n
        BY <1>1, <1>6, <2>1
      <3>2. PICK j \in 1..n : j > c - 1 /\ ~(a[j] < 0)
        BY <1>5, <3>1
      <3>3. c <= j
        BY <1>6, <3>2
      <3>4. a[j] <= a[c] /\ a[j] \in Int /\ a[c] \in Int
        BY <1>3, <3>1, <3>3
      <3> QED
        BY <3>2, <3>4
    <2>2. ASSUME NEW j \in 1..n, j <= c PROVE a[j] >= 0
      <3>1. c \in 1..n /\ c # 0
        BY <1>1, <1>6, <2>2
      <3>2. a[c] <= a[j] /\ a[j] \in Int /\ a[c] \in Int
        BY <1>3, <2>2, <3>1
      <3> QED
        BY <2>1, <3>1, <3>2
    <2>3. ASSUME NEW j \in 1..n, ~(j <= c) PROVE ~(a[j] >= 0)
      <3>1. j > c
        BY <1>6, <2>3
      <3>2. a[j] < 0 /\ a[j] \in Int
        BY <1>3, <1>5, <3>1
      <3> QED
        BY <3>2
    <2> QED
      BY <2>2, <2>3
  <1>8. After(s, k, up) = c
    <2>1. {j \in DOMAIN s : Cmp(up, k, s[j]) >= 0} = 1..c
      BY <1>1, <1>2, <1>6, <1>7
    <2>2. Cardinality(1..c) = c
      BY <1>6, FS_Interval
    <2> QED
      BY <2>1, <2>2 DEF After
  <1>9. \A j \in 1..n : Cmp(up, k, r.data[j]) = a[j]
    BY <1>2
  <1>10. Finds(a, n, Find(r, k, up), c)
    BY <1>1, <1>3, <1>6, <1>7, <1>9, SearchFinds
  <1>11. \A j \in 1..n : a[j] = 0 <=> Keys[s[j]] = k
    <2> TAKE j \in 1..n
    <2>1. PICK e \in Items : e = s[j]
      BY <1>1
    <2>2. Keys[e] \in Int /\ Cmp(up, k, e) = (IF up = 1 THEN k - Keys[e] ELSE Keys[e] - k)
      BY CmpIs
    <2> QED
      BY <1>2, <2>1, <2>2
  <1>12. (\E i \in Range(s) : Keys[i] = k) <=> \E j \in 1..n : Keys[s[j]] = k
    BY <1>1 DEF Range
  <1>13. c \in 1..n /\ a[c] = 0 => c # 0 /\ \E j \in 1..n : Keys[s[j]] = k
    BY <1>11
  <1>14. (\A j \in 1..n : a[j] # 0) => ~\E j \in 1..n : Keys[s[j]] = k
    BY <1>11
  <1> QED
    BY <1>6, <1>8, <1>10, <1>12, <1>13, <1>14 DEF Finds, FoundRight, n

-----------------------------------------------------------------------------
(* Every call that puts in, takes out or moves an element.                 *)

\* An item that the caller has is put into a vector.
LEMMA InsertingKeeps ==
    ASSUME VectorInv, NEW v \in Vecs, Exists(v), NEW i \in 1..(Len(want[v]) + 1), NEW e \in Items,
           e \in Loose, UNCHANGED heap,
           Becomes(v, Inserted(Room(vec[v]), i, e), InsertAt(want[v], i, e))
    PROVE  VectorInv'
  <1> DEFINE r == Room(vec[v])
             s == want[v]
  <1>1. /\ vec[v] \in Records /\ s \in Seq(Items) /\ Shows(vec[v], s) /\ Len(s) \in Nat
        /\ \A k \in 1..Len(s) : s[k] \in heap
    BY Existing
  <1>2. r \in Records /\ Shows(r, s) /\ Len(s) < Capacity(r)
    BY <1>1, RoomShows
  <1>3. i \in 1..(Len(s) + 1) /\ e \in heap /\ Becomes(v, Inserted(r, i, e), InsertAt(s, i, e))
    BY DEF Loose
  <1> HIDE DEF r, s
  <1>4. Inserted(r, i, e) \in Records /\ Shows(Inserted(r, i, e), InsertAt(s, i, e))
    BY <1>1, <1>2, <1>3, InsertedShows
  <1>5. /\ InsertAt(s, i, e) \in Seq(Items) /\ Len(InsertAt(s, i, e)) = Len(s) + 1
        /\ \A k \in 1..(Len(s) + 1) :
              InsertAt(s, i, e)[k] = IF k < i THEN s[k] ELSE IF k = i THEN e ELSE s[k - 1]
    <2>0. PICK w \in Seq(Items) : w = s
      BY <1>1
    <2>1. PICK j \in 1..(Len(w) + 1) : w = s /\ j = i
      BY <1>3, <2>0
    <2>2. /\ InsertAt(w, j, e) \in Seq(Items) /\ Len(InsertAt(w, j, e)) = Len(w) + 1
          /\ \A k \in 1..(Len(w) + 1) :
                InsertAt(w, j, e)[k] = IF k < j THEN w[k] ELSE IF k = j THEN e ELSE w[k - 1]
      BY InsertAtIs
    <2> QED
      BY <2>1, <2>2
  <1>6. \A k \in 1..Len(InsertAt(s, i, e)) : InsertAt(s, i, e)[k] \in heap
    BY <1>1, <1>3, <1>5
  <1> QED
    BY <1>3, <1>4, <1>5, <1>6, KeepsElems

\* insert, push_back and push_front.
LEMMA InsertStep ==
    ASSUME VectorInv, NEW v \in Vecs, NEW i \in Int, NEW e \in Items, Insert(v, i, e)
    PROVE  VectorInv'
  <1>1. Exists(v)
    BY DEF Insert, Call
  <1>2. i \in 1..(Len(want[v]) + 1)
    BY <1>1, Existing DEF Insert
  <1> QED
    BY <1>1, <1>2, InsertingKeeps DEF Insert

\* insert_sorted puts the item where the bisection says, behind its equals.
LEMMA InsertSortedStep ==
    ASSUME VectorInv, NEW v \in Vecs, NEW e \in Items, NEW up \in {-1, 1}, InsertSorted(v, e, up)
    PROVE  VectorInv'
  <1> DEFINE s == want[v]
             pos == Find(vec[v], Keys[e], up)
             c == After(s, Keys[e], up)
  <1>1. Exists(v) /\ Sorted(s, up) /\ e \in Loose /\ UNCHANGED heap
    BY DEF InsertSorted, Call
  <1>2. vec[v] \in Records /\ s \in Seq(Items) /\ Shows(vec[v], s) /\ Len(s) \in Nat
    BY <1>1, Existing
  <1>3. Keys[e] \in Int
    BY CmpIs
  <1>4. Becomes(v, Inserted(Room(vec[v]), InsPos(pos) + 1, e), InsertAt(s, c + 1, e))
    BY DEF InsertSorted
  <1>5. c \in 0..Len(s) /\ IF \E i \in Range(s) : Keys[i] = Keys[e]
                           THEN c # 0 /\ pos = c - 1 ELSE pos = -(c + 1)
    <2> HIDE DEF s
    <2>1. PICK k \in Int : k = Keys[e]
      BY <1>3
    <2>2. PICK r \in Records : r = vec[v]
      BY <1>2
    <2> HIDE DEF pos, c
    <2>3. Sorted(s, up) /\ Shows(r, s)
      BY <1>1, <1>2, <2>2
    <2>4. FoundRight(r, s, k, up)
      BY <1>2, <2>3, FindIs
    <2> QED
      BY <2>1, <2>2, <2>4 DEF pos, c, FoundRight
  <1> HIDE DEF pos, c
  <1>6. InsPos(pos) + 1 = c + 1
    BY <1>2, <1>5 DEF InsPos
  <1>7. PICK i : i = c + 1
    OBVIOUS
  <1>8. i \in 1..(Len(s) + 1)
    BY <1>2, <1>5, <1>7
  <1> QED
    BY <1>1, <1>4, <1>6, <1>7, <1>8, InsertingKeeps

\* remove, pop_back and pop_front.
LEMMA RemoveStep ==
    ASSUME VectorInv, NEW v \in Vecs, NEW i \in Int, RemoveElem(v, i)
    PROVE  VectorInv'
  <1> DEFINE r == vec[v]
             s == want[v]
  <1>1. /\ Exists(v) /\ i \in 1..r.size /\ UNCHANGED heap
        /\ Becomes(v, Removed(r, i), RemoveAt(s, i))
    BY DEF RemoveElem, Call
  <1>2. /\ r \in Records /\ s \in Seq(Items) /\ Shows(r, s) /\ Len(s) \in Nat
        /\ \A k \in 1..Len(s) : s[k] \in heap
    BY <1>1, Existing
  <1>3. i \in 1..Len(s)
    BY <1>1, <1>2 DEF Shows
  <1> HIDE DEF r, s
  <1>4. Removed(r, i) \in Records /\ Shows(Removed(r, i), RemoveAt(s, i))
    BY <1>2, <1>3, RemovedShows
  <1>5. /\ RemoveAt(s, i) \in Seq(Items) /\ Len(RemoveAt(s, i)) = Len(s) - 1
        /\ \A k \in 1..(Len(s) - 1) : RemoveAt(s, i)[k] = IF k < i THEN s[k] ELSE s[k + 1]
    BY <1>2, <1>3, RemoveAtIs
  <1>6. \A k \in 1..Len(RemoveAt(s, i)) : RemoveAt(s, i)[k] \in heap
    BY <1>2, <1>5
  <1> QED
    BY <1>1, <1>4, <1>5, <1>6, KeepsElems

\* set, with an item that the caller has.
LEMMA SetStep ==
    ASSUME VectorInv, NEW v \in Vecs, NEW i \in Int, NEW e \in Items, Set(v, i, e)
    PROVE  VectorInv'
  <1> DEFINE r == vec[v]
             s == want[v]
             q == [r EXCEPT !.data[i] = e]
  <1>1. Exists(v) /\ i \in 1..r.size /\ UNCHANGED heap /\ e \in heap /\ Becomes(v, q, ReplaceAt(s, i, e))
    BY DEF Set, Call, Loose
  <1>2. /\ r \in Records /\ s \in Seq(Items) /\ Shows(r, s) /\ Len(s) \in Nat
        /\ \A k \in 1..Len(s) : s[k] \in heap
    BY <1>1, Existing
  <1>3. i \in 1..Len(s)
    BY <1>1, <1>2 DEF Shows
  <1> HIDE DEF r, s
  <1>4. q \in Records /\ Shows(q, ReplaceAt(s, i, e))
    BY <1>2, <1>3, SetShows
  <1> HIDE DEF q
  <1>5. /\ ReplaceAt(s, i, e) \in Seq(Items)
        /\ \A k \in 1..Len(ReplaceAt(s, i, e)) : ReplaceAt(s, i, e)[k] \in heap
    BY <1>1, <1>2, <1>3 DEF ReplaceAt
  <1> QED
    BY <1>1, <1>4, <1>5, KeepsElems

\* swap.
LEMMA SwapStep ==
    ASSUME VectorInv, NEW v \in Vecs, NEW i \in Int, NEW j \in Int, Swap(v, i, j)
    PROVE  VectorInv'
  <1> DEFINE r == vec[v]
             s == want[v]
             q == [r EXCEPT !.data = Swapped(r.data, i, j)]
             t == Swapped(s, i, j)
  <1>1. Exists(v) /\ i \in 1..r.size /\ j \in 1..r.size /\ UNCHANGED heap /\ Becomes(v, q, t)
    BY DEF Swap, Call, Swapped
  <1>2. /\ r \in Records /\ s \in Seq(Items) /\ Shows(r, s) /\ Len(s) \in Nat
        /\ \A k \in 1..Len(s) : s[k] \in heap
    BY <1>1, Existing
  <1>3. i \in 1..Len(s) /\ j \in 1..Len(s)
    BY <1>1, <1>2 DEF Shows
  <1> HIDE DEF r, s
  <1>4. /\ q \in Records /\ t \in Seq(Items) /\ Shows(q, t)
        /\ Len(t) = Len(s) /\ \A k \in 1..Len(t) : \E l \in 1..Len(s) : t[k] = s[l]
    BY <1>2, <1>3, SwappedShows
  <1> HIDE DEF q, t
  <1>5. \A k \in 1..Len(t) : t[k] \in heap
    BY <1>2, <1>4
  <1> QED
    BY <1>1, <1>4, <1>5, KeepsElems

\* sort, whatever order qsort leaves equal items in.
LEMMA SortStep ==
    ASSUME VectorInv, NEW v \in Vecs, NEW up, Sort(v, up)
    PROVE  VectorInv'
  <1> DEFINE r == vec[v]
             s == want[v]
  <1>1. Exists(v) /\ UNCHANGED heap
    BY DEF Sort, Call
  <1>2. /\ r \in Records /\ s \in Seq(Items) /\ Shows(r, s) /\ Len(s) \in Nat /\ r.size = Len(s)
        /\ \A k \in 1..Len(s) : s[k] \in heap
    BY <1>1, Existing
  <1>3. PICK p \in [1..r.size -> 1..r.size] :
           LET t == [k \in DOMAIN p |-> r.data[p[k]]]
           IN  Becomes(v, [r EXCEPT !.data = t \o SubSeq(@, r.size + 1, Len(@))], t)
    BY DEF Sort
  <1> DEFINE t == [k \in DOMAIN p |-> r.data[p[k]]]
             q == [r EXCEPT !.data = t \o SubSeq(r.data, r.size + 1, Len(r.data))]
  <1>4. Becomes(v, q, t) /\ p \in [1..Len(s) -> 1..Len(s)]
    BY <1>2, <1>3
  <1> HIDE DEF r, s
  <1>5. /\ q \in Records /\ t \in Seq(Items) /\ Shows(q, t)
        /\ Len(t) = Len(s) /\ \A k \in 1..Len(t) : \E l \in 1..Len(s) : t[k] = s[l]
    BY <1>2, <1>4, SortedShows
  <1> HIDE DEF q, t
  <1>6. \A k \in 1..Len(t) : t[k] \in heap
    BY <1>2, <1>5
  <1> QED
    BY <1>1, <1>4, <1>5, <1>6, KeepsElems

\* copy and clone.
LEMMA CopyStep ==
    ASSUME VectorInv, NEW d \in Vecs, NEW s \in Vecs, Copy(d, s) \/ Clone(d, s)
    PROVE  VectorInv'
  <1>1. Exists(s) /\ UNCHANGED heap
    BY DEF Copy, Clone, Call
  <1>2. /\ vec[s] \in Records /\ want[s] \in Seq(Items) /\ Shows(vec[s], want[s])
        /\ \A k \in 1..Len(want[s]) : want[s][k] \in heap
    BY <1>1, Existing
  <1>3. PICK r \in Records : Becomes(d, Copied(r, vec[s]), want[s])
    <2>1. CASE Copy(d, s)
      <3>1. Exists(d)
        BY <2>1 DEF Copy, Call
      <3>2. vec[d] \in Records
        BY <3>1, Existing
      <3> QED
        BY <2>1, <3>2 DEF Copy
    <2>2. CASE Clone(d, s)
      <3>1. Empty \in Records
        BY DEF Empty, Records
      <3> QED
        BY <2>2, <3>1 DEF Clone
    <2> QED
      BY <2>1, <2>2
  <1>4. Copied(r, vec[s]) \in Records /\ Shows(Copied(r, vec[s]), want[s])
    BY <1>2, CopiedShows
  <1> QED
    BY <1>1, <1>2, <1>3, <1>4, KeepsElems

\* move: the source is left empty.
LEMMA MoveStep ==
    ASSUME VectorInv, NEW d \in Vecs, NEW s \in Vecs, Move(d, s)
    PROVE  VectorInv'
  <1>1. Exists(s) /\ UNCHANGED heap /\ d # s
    BY DEF Move, Call
  <1>2. /\ vec[s] \in Records /\ want[s] \in Seq(Items) /\ Shows(vec[s], want[s]) /\ vec[s] # None
        /\ \A k \in 1..Len(want[s]) : want[s][k] \in heap
    BY <1>1, Existing
  <1>3. Empty \in Records /\ Shows(Empty, <<>>) /\ <<>> \in Seq(Items) /\ Len(<<>>) = 0
    BY DEF Empty, Records, Shows, Capacity
  <1>4. /\ vec \in [Vecs -> Records \cup {None}] /\ want \in [Vecs -> Seq(Items)] /\ heap \in SUBSET Items
        /\ \A u \in Vecs : vec[u] # None =>
              Shows(vec[u], want[u]) /\ \A k \in 1..Len(want[u]) : want[u][k] \in heap
    BY DEF VectorInv, TypeOK, Exists
  <1>5. /\ vec' = [vec EXCEPT ![d] = vec[s], ![s] = Empty]
        /\ want' = [want EXCEPT ![d] = want[s], ![s] = <<>>]
    BY DEF Move
  <1>6. /\ vec' \in [Vecs -> Records \cup {None}] /\ want' \in [Vecs -> Seq(Items)]
        /\ vec'[d] = vec[s] /\ want'[d] = want[s] /\ vec'[s] = Empty /\ want'[s] = <<>>
        /\ \A u \in Vecs \ {d, s} : vec'[u] = vec[u] /\ want'[u] = want[u]
    BY <1>1, <1>2, <1>3, <1>4, <1>5
  <1>7. ASSUME NEW u \in Vecs, vec'[u] # None
        PROVE  Shows(vec'[u], want'[u]) /\ \A k \in 1..Len(want'[u]) : want'[u][k] \in heap'
    <2>1. CASE u = d
      BY <1>1, <1>2, <1>6, <2>1
    <2>2. CASE u = s
      BY <1>3, <1>6, <2>2
    <2>3. CASE u \notin {d, s}
      BY <1>1, <1>4, <1>6, <1>7, <2>3
    <2> QED
      BY <2>1, <2>2, <2>3
  <1> QED
    BY <1>1, <1>4, <1>6, <1>7 DEF VectorInv, TypeOK, Exists, Shows, Capacity

\* An insert that is lost.
LEMMA LostStep ==
    ASSUME VectorInv, NEW v \in Vecs, NEW i \in Int, InsertLost(v, i)
    PROVE  VectorInv'
  <1>1. Exists(v) /\ UNCHANGED heap /\ Becomes(v, Lost(vec[v]), want[v])
    BY DEF InsertLost, CannotGrow, Call
  <1>2. /\ vec[v] \in Records /\ want[v] \in Seq(Items) /\ Shows(vec[v], want[v])
        /\ \A k \in 1..Len(want[v]) : want[v][k] \in heap
    BY <1>1, Existing
  <1>3. Lost(vec[v]) \in Records /\ Shows(Lost(vec[v]), want[v])
    BY <1>2, LostShows
  <1> QED
    BY <1>1, <1>2, <1>3, KeepsElems

-----------------------------------------------------------------------------
(* What they hold, and what they find.                                     *)

\* There are no vectors yet.
LEMMA VectorInit == Init => VectorInv
  <1> SUFFICES ASSUME Init PROVE VectorInv
    OBVIOUS
  <1>1. /\ vec \in [Vecs -> Records \cup {None}] /\ heap \in SUBSET Items
        /\ want \in [Vecs -> Seq(Items)] /\ \A v \in Vecs : vec[v] = None
    BY DEF Init
  <1> QED
    BY <1>1 DEF VectorInv, TypeOK, Exists

\* Every call keeps the invariant.
LEMMA VectorStep ==
    ASSUME VectorInv, Next
    PROVE  VectorInv'
  <1>0. 1..(MaxCapacity + 1) \subseteq Int /\ 1..MaxCapacity \subseteq Int
    BY VectorAssumption
  <1>1. CASE \E i \in Items : MakeItem(i) \/ FreeItem(i)
    BY <1>1, ItemsStep
  <1>2. CASE \E d, s \in Vecs : Copy(d, s) \/ Clone(d, s) \/ Move(d, s)
    BY <1>2, CopyStep, MoveStep
  <1>3. CASE \E v \in Vecs :
               New(v) \/ Free(v) \/ Clear(v) \/ FreeFull(v) \/ ClearFull(v)
    BY <1>3, WholeStep
  <1>4. CASE \E v \in Vecs : Fit(v) \/ \E n \in 0..MaxCapacity : Reserve(v, n) \/ CannotGrow(v, n)
    BY <1>4, CapacityStep
  <1>5. CASE \E v \in Vecs : \E i \in Int : \E e \in Items : Insert(v, i, e) \/ Set(v, i, e)
    BY <1>5, InsertStep, SetStep
  <1>6. CASE \E v \in Vecs : \E i \in Int : InsertLost(v, i) \/ RemoveElem(v, i)
    BY <1>6, LostStep, RemoveStep
  <1>7. CASE \E v \in Vecs : \E i \in Int : \E j \in Int : Swap(v, i, j)
    BY <1>7, SwapStep
  <1>8. CASE \E v \in Vecs : \E up \in {-1, 1} : Sort(v, up)
    BY <1>8, SortStep
  <1>9. CASE \E v \in Vecs : \E up \in {-1, 1} : \E e \in Items : InsertSorted(v, e, up)
    BY <1>9, InsertSortedStep
  <1> QED
    BY <1>0, <1>1, <1>2, <1>3, <1>4, <1>5, <1>6, <1>7, <1>8, <1>9, Zenon DEF Next

\* The slots in use of every vector are the elements that the calls were to leave in it,
\* and each of these is an item that is allocated.
THEOREM VectorInvariant == Spec => []VectorInv
  <1>1. VectorInv /\ [Next]_vars => VectorInv'
    <2> SUFFICES ASSUME VectorInv, [Next]_vars PROVE VectorInv'
      OBVIOUS
    <2>1. CASE Next
      BY <2>1, VectorStep
    <2>2. CASE UNCHANGED vars
      BY <2>2 DEF vars, VectorInv, TypeOK, Exists, Shows, Capacity
    <2> QED
      BY <2>1, <2>2
  <1> QED
    BY <1>1, VectorInit, PTL DEF Spec

\* The invariant is strong enough, and bisection is exact in what it shows.
LEMMA VectorInvHolds ==
    ASSUME VectorInv
    PROVE  Holds /\ FindIsExact
  <1>1. ASSUME NEW v \in Vecs, Exists(v)
        PROVE  /\ vec[v].size <= Capacity(vec[v]) /\ Elems(vec[v]) = want[v]
               /\ Range(Elems(vec[v])) \subseteq heap
    <2>1. Shows(vec[v], want[v]) /\ Elems(vec[v]) = want[v] /\ \A k \in 1..Len(want[v]) : want[v][k] \in heap
      BY <1>1, Existing
    <2>2. \A i : i \in Range(want[v]) <=> \E k \in 1..Len(want[v]) : want[v][k] = i
      BY <1>1, Existing
    <2>3. Range(want[v]) \subseteq heap
      BY <2>1, <2>2, Zenon
    <2> QED
      BY <2>1, <2>3 DEF Shows
  <1>2. ASSUME NEW v \in Vecs, NEW up \in {-1, 1}, Exists(v), Sorted(want[v], up), NEW k \in Int
        PROVE  LET pos == Find(vec[v], k, up)
                   n   == After(want[v], k, up)
               IN  IF \E i \in Range(want[v]) : Keys[i] = k THEN pos = n - 1 ELSE pos = -(n + 1)
    <2>1. vec[v] \in Records /\ want[v] \in Seq(Items) /\ Shows(vec[v], want[v])
      BY <1>2, Existing
    <2>2. FoundRight(vec[v], want[v], k, up)
      BY <1>2, <2>1, FindIs
    <2> QED
      BY <2>2 DEF FoundRight
  <1>3. Holds
    BY <1>1 DEF Holds
  <1>4. FindIsExact
    BY <1>2 DEF FindIsExact
  <1> QED
    BY <1>3, <1>4

\* A typed vector, through growth, moves and copies, with slots left over from before,
\* holds what the calls were to leave in it, and bisection finds what it holds, for
\* any vectors, items, keys and capacities.
THEOREM TypedVectorsCorrect == Spec => []TypedVectorsHold
  <1>1. VectorInv => TypedVectorsHold
    BY VectorInvHolds DEF TypedVectorsHold
  <1> QED
    BY <1>1, VectorInvariant, PTL
=============================================================================
