---------------------------- MODULE PQueueProofs ----------------------------
(***************************************************************************)
(* Proofs about PQueue, for every number of threads and items, every       *)
(* assignment of priorities and every initial size of the array.           *)
(*                                                                         *)
(* Bisection, the sum of the bucket lengths and the concatenation of the   *)
(* buckets are recursive functions.  LeastNumber stands in for induction:  *)
(* a statement that fails for some number fails for a least one.  With it  *)
(* Recursion shows that such a function exists, and the lemmas after it    *)
(* what the function computes.  Inv then says that the concatenation of    *)
(* the buckets, Flat, holds every item in the queue once, and every call   *)
(* does to Flat what PQueueSpec does to its queue.                         *)
(***************************************************************************)
EXTENDS PQueue, TLAPS, FiniteSetTheorems, SequenceTheorems, WellFoundedInduction

-----------------------------------------------------------------------------
(* Numbers, and recursive functions.                                       *)

\* A set of numbers that is not empty has a least one: what follows is proved from this
\* where a proof on paper would be by induction.
LEMMA LeastNumber ==
    ASSUME NEW T \in SUBSET Nat, T # {}
    PROVE  \E m \in T : \A k \in T : ~(k < m)
  <1> DEFINE R == {ss \in Nat \X Nat : ss[1] < ss[2]}
  <1>1. OpToRel(<, Nat) = R
    BY Zenon DEF OpToRel
  <1>2. IsWellFoundedOn(R, Nat)
    BY <1>1, NatLessThanWellFounded, Zenon
  <1>3. \E x \in T : \A y \in T : <<y, x>> \notin R
    <2> HIDE DEF R
    <2> QED
      BY <1>2, WFMin
  <1> QED
    BY <1>3

\* D[f] is the right-hand side of the definition of a function f from S to T, and at x
\* it depends on f only at smaller arguments.
Definable(S, T, D, size, bound) ==
    /\ T # {} /\ D \in [[S -> T] -> [S -> T]]
    /\ size \in [S -> Nat] /\ bound \in Nat /\ \A x \in S : size[x] < bound
    /\ \A g, h \in [S -> T], x \in S :
          (\A y \in S : size[y] < size[x] => g[y] = h[y]) => D[g][x] = D[h][x]

\* There is such a function.
LEMMA Recursion ==
    ASSUME NEW S, NEW T, NEW D, NEW size, NEW bound, Definable(S, T, D, size, bound)
    PROVE  \E f \in [S -> T] : f = D[f]
  <1> USE DEF Definable
  <1> DEFINE UpTo(n) == \E g \in [S -> T] : \A x \in S : size[x] < n => g[x] = D[g][x]
             Wrong == {n \in Nat : ~UpTo(n)}
  <1>1. UpTo(0)
    <2>1. PICK e \in T : TRUE
      OBVIOUS
    <2>2. [x \in S |-> e] \in [S -> T]
      OBVIOUS
    <2>3. \A x \in S : ~(size[x] < 0)
      OBVIOUS
    <2> QED
      BY <2>2, <2>3
  <1>2. ASSUME NEW n \in Nat, UpTo(n)
        PROVE  UpTo(n + 1)
    <2>1. PICK g \in [S -> T] : \A x \in S : size[x] < n => g[x] = D[g][x]
      BY <1>2
    <2>2. D[g] \in [S -> T]
      OBVIOUS
    <2>3. ASSUME NEW x \in S, size[x] < n + 1
          PROVE  D[g][x] = D[D[g]][x]
      <3>1. \A y \in S : size[y] < size[x] => g[y] = D[g][y]
        BY <2>1, <2>3
      <3> QED
        BY <3>1, <2>2
    <2> QED
      BY <2>2, <2>3
  <1>3. Wrong = {}
    <2> SUFFICES ASSUME Wrong # {} PROVE FALSE
      OBVIOUS
    <2> HIDE DEF UpTo
    <2>1. PICK m \in Wrong : \A k \in Wrong : ~(k < m)
      BY LeastNumber
    <2>2. m # 0 /\ m \in Nat /\ ~UpTo(m)
      BY <2>1, <1>1
    <2>3. m - 1 \in Nat /\ m - 1 < m /\ (m - 1) + 1 = m
      BY <2>2
    <2>4. UpTo(m - 1)
      BY <2>1, <2>3
    <2> QED
      BY <2>2, <2>3, <2>4, <1>2
  <1>4. UpTo(bound)
    BY <1>3
  <1>5. PICK g \in [S -> T] : \A x \in S : g[x] = D[g][x]
    BY <1>4
  <1> QED
    BY <1>5

-----------------------------------------------------------------------------
(* Positions: the items in front of a bucket.                              *)

LEMMA ItemsAreSeqs ==
    ASSUME NEW bs \in Seq(Bucket), NEW i \in 1..Len(bs)
    PROVE  /\ bs[i].items \in Seq(Items) /\ Len(bs[i].items) \in Nat
           /\ bs[i].priority \in Priorities
  <1>1. bs[i] \in Bucket
    OBVIOUS
  <1> QED
    BY <1>1 DEF Bucket

\* What ItemsBefore adds up.
LEMMA SumIs ==
    ASSUME NEW bs \in Seq(Bucket)
    PROVE  /\ ItemsBefore(bs, 0) = 0
           /\ \A i \in 1..Len(bs) : ItemsBefore(bs, i) = ItemsBefore(bs, i - 1) + Len(bs[i].items)
           /\ \A i \in 0..Len(bs) : ItemsBefore(bs, i) \in Nat
  <1> DEFINE S == 0..Len(bs)
             Def(f, i) == IF i = 0 THEN 0 ELSE f[i - 1] + Len(bs[i].items)
             sum == CHOOSE f : f = [i \in S |-> Def(f, i)]
             D == [g \in [S -> Nat] |-> [i \in S |-> Def(g, i)]]
             size == [i \in S |-> i]
  <1>0. Len(bs) \in Nat
    OBVIOUS
  <1>a. \A i \in 1..Len(bs) : Len(bs[i].items) \in Nat
    BY ItemsAreSeqs
  <1>b. \A i \in S : i # 0 => i \in 1..Len(bs) /\ i - 1 \in S
    BY <1>0
  <1>1. D \in [[S -> Nat] -> [S -> Nat]]
    <2> SUFFICES ASSUME NEW g \in [S -> Nat], NEW i \in S PROVE Def(g, i) \in Nat
      OBVIOUS
    <2>1. CASE i = 0
      BY <2>1
    <2>2. CASE i # 0
      <3>1. i \in 1..Len(bs) /\ i - 1 \in S
        BY <2>2, <1>b
      <3>2. g[i - 1] \in Nat /\ Len(bs[i].items) \in Nat
        BY <3>1, <1>a
      <3> QED
        BY <2>2, <3>2
    <2> QED
      BY <2>1, <2>2
  <1>2. \E f \in [S -> Nat] : f = D[f]
    <2> DEFINE bound == Len(bs) + 1
    <2>1. size \in [S -> Nat] /\ bound \in Nat /\ \A x \in S : size[x] < bound
      BY <1>0
    <2>2. ASSUME NEW g \in [S -> Nat], NEW h \in [S -> Nat], NEW x \in S,
                 \A y \in S : size[y] < size[x] => g[y] = h[y]
          PROVE  D[g][x] = D[h][x]
      <3>1. x # 0 => g[x - 1] = h[x - 1]
        BY <2>2, <1>b
      <3> QED
        BY <3>1
    <2> HIDE DEF D, size, S, bound
    <2>3. \A g, h \in [S -> Nat], x \in S :
             (\A y \in S : size[y] < size[x] => g[y] = h[y]) => D[g][x] = D[h][x]
      BY <2>2
    <2>4. Definable(S, Nat, D, size, bound)
      BY <1>1, <2>1, <2>3 DEF Definable
    <2> QED
      BY <2>4, Recursion
  <1>3. \E f : f = [i \in S |-> Def(f, i)]
    <2>1. PICK f \in [S -> Nat] : f = D[f]
      BY <1>2
    <2> QED
      BY <2>1
  <1>4. sum = [i \in S |-> Def(sum, i)]
    BY <1>3
  <1>5. \A i : ItemsBefore(bs, i) = sum[i]
    BY DEF ItemsBefore
  <1> HIDE DEF sum
  <1>6. sum[0] = 0 /\ \A i \in 1..Len(bs) : sum[i] = sum[i - 1] + Len(bs[i].items)
    BY <1>4, <1>0
  <1>7. \A i \in 0..Len(bs) : sum[i] \in Nat
    <2> DEFINE T0 == {n \in Nat : n \in S /\ sum[n] \notin Nat}
    <2> SUFFICES ASSUME T0 # {} PROVE FALSE
      BY <1>0
    <2>1. PICK m \in T0 : \A k \in T0 : ~(k < m)
      BY LeastNumber
    <2>2. m # 0 /\ m \in S /\ sum[m] \notin Nat
      BY <2>1, <1>6
    <2>3. m \in 1..Len(bs) /\ m - 1 \in S /\ m - 1 \in Nat /\ m - 1 < m
      BY <2>2, <1>0
    <2>4. sum[m - 1] \in Nat
      BY <2>1, <2>3
    <2> QED
      BY <2>2, <2>3, <2>4, <1>6, <1>a
  <1> QED
    BY <1>5, <1>6, <1>7

\* Later buckets have more in front of them.
LEMMA SumGrows ==
    ASSUME NEW bs \in Seq(Bucket), NEW i \in 0..Len(bs), NEW j \in 0..Len(bs), i <= j
    PROVE  ItemsBefore(bs, i) <= ItemsBefore(bs, j)
  <1> DEFINE Wrong == {n \in Nat : n \in i..Len(bs) /\ ~(ItemsBefore(bs, i) <= ItemsBefore(bs, n))}
  <1>1. Len(bs) \in Nat /\ \A k \in 0..Len(bs) : ItemsBefore(bs, k) \in Nat
    BY SumIs
  <1> SUFFICES ASSUME Wrong # {} PROVE FALSE
    BY <1>1
  <1>2. PICK m \in Wrong : \A k \in Wrong : ~(k < m)
    BY LeastNumber
  <1>3. m \in Nat /\ m \in 0..Len(bs) /\ m > i /\ ~(ItemsBefore(bs, i) <= ItemsBefore(bs, m))
    <2>1. m # i
      BY <1>1, <1>2
    <2> QED
      BY <2>1, <1>1, <1>2
  <1>4. m - 1 \in Nat /\ m - 1 \in i..Len(bs) /\ m - 1 < m /\ m \in 1..Len(bs) /\ m - 1 \in 0..Len(bs)
    BY <1>1, <1>3
  <1>5. ItemsBefore(bs, i) <= ItemsBefore(bs, m - 1)
    BY <1>2, <1>4
  <1>6. ItemsBefore(bs, m) = ItemsBefore(bs, m - 1) + Len(bs[m].items) /\ Len(bs[m].items) \in Nat
    BY <1>4, SumIs, ItemsAreSeqs
  <1> QED
    BY <1>1, <1>3, <1>4, <1>5, <1>6, SMTT(30)

\* Every position is in a bucket.
LEMMA PlaceOf ==
    ASSUME NEW bs \in Seq(Bucket), NEW n \in 1..ItemsBefore(bs, Len(bs))
    PROVE  \E i \in 1..Len(bs) : \E k \in 1..Len(bs[i].items) : n = ItemsBefore(bs, i - 1) + k
  <1> DEFINE T0 == {j \in Nat : j \in 0..Len(bs) /\ n <= ItemsBefore(bs, j)}
  <1>1. Len(bs) \in Nat /\ \A k \in 0..Len(bs) : ItemsBefore(bs, k) \in Nat
    BY SumIs
  <1>2. Len(bs) \in T0
    BY <1>1
  <1>3. PICK i \in T0 : \A j \in T0 : ~(j < i)
    BY <1>2, LeastNumber
  <1>4. i # 0
    BY <1>1, <1>3, SumIs
  <1>5. i \in 1..Len(bs) /\ i - 1 \in 0..Len(bs) /\ i - 1 \in Nat /\ i - 1 < i
    BY <1>1, <1>3, <1>4
  <1>6. ~(n <= ItemsBefore(bs, i - 1))
    BY <1>3, <1>5
  <1>7. ItemsBefore(bs, i) = ItemsBefore(bs, i - 1) + Len(bs[i].items) /\ Len(bs[i].items) \in Nat
    BY <1>5, SumIs, ItemsAreSeqs
  <1>8. n - ItemsBefore(bs, i - 1) \in 1..Len(bs[i].items)
    BY <1>1, <1>3, <1>5, <1>6, <1>7
  <1> QED
    BY <1>1, <1>5, <1>8

\* What the buckets stand for: item k of bucket i comes after those in front of it.
Stands(bs, n, s) ==
    /\ s \in Seq(Items) /\ Len(s) = ItemsBefore(bs, n)
    /\ \A i \in 1..n : \A k \in 1..Len(bs[i].items) : s[ItemsBefore(bs, i - 1) + k] = bs[i].items[k]

LEMMA StandsNext ==
    ASSUME NEW bs \in Seq(Bucket), NEW n \in 1..Len(bs), NEW s, Stands(bs, n - 1, s)
    PROVE  Stands(bs, n, s \o bs[n].items)
  <1> DEFINE u == s \o bs[n].items
  <1>1. /\ bs[n].items \in Seq(Items) /\ Len(bs[n].items) \in Nat
        /\ s \in Seq(Items) /\ Len(s) = ItemsBefore(bs, n - 1)
    BY ItemsAreSeqs DEF Stands
  <1>2. /\ n - 1 \in 0..Len(bs) /\ ItemsBefore(bs, n - 1) \in Nat
        /\ ItemsBefore(bs, n) = ItemsBefore(bs, n - 1) + Len(bs[n].items)
    BY SumIs
  <1>3. /\ u \in Seq(Items) /\ Len(u) = Len(s) + Len(bs[n].items)
        /\ \A k \in 1..Len(s) : u[k] = s[k]
        /\ \A k \in 1..Len(bs[n].items) : u[Len(s) + k] = bs[n].items[k]
    <2>1. /\ u \in Seq(Items) /\ Len(u) = Len(s) + Len(bs[n].items)
          /\ \A k \in 1..(Len(s) + Len(bs[n].items)) :
                u[k] = IF k <= Len(s) THEN s[k] ELSE bs[n].items[k - Len(s)]
      BY <1>1, ConcatProperties
    <2> HIDE DEF u
    <2>2. Len(s) \in Nat
      BY <1>1
    <2>3. \A k \in 1..Len(bs[n].items) :
             /\ Len(s) + k \in 1..(Len(s) + Len(bs[n].items)) /\ ~(Len(s) + k <= Len(s))
             /\ (Len(s) + k) - Len(s) = k
      BY <1>1, <2>2
    <2>4. \A k \in 1..Len(s) : k \in 1..(Len(s) + Len(bs[n].items)) /\ k <= Len(s)
      BY <1>1, <2>2
    <2> QED
      BY <2>1, <2>3, <2>4
  <1> HIDE DEF u
  <1>4. ASSUME NEW i \in 1..n, NEW k \in 1..Len(bs[i].items)
        PROVE  u[ItemsBefore(bs, i - 1) + k] = bs[i].items[k]
    <2>1. CASE i = n
      BY <2>1, <1>1, <1>3
    <2>2. CASE i # n
      <3>1. i \in 1..(n - 1) /\ i \in 0..Len(bs) /\ i \in 1..Len(bs) /\ i <= n - 1 /\ i - 1 \in 0..Len(bs)
        BY <2>2
      <3>2. /\ ItemsBefore(bs, i) = ItemsBefore(bs, i - 1) + Len(bs[i].items)
            /\ ItemsBefore(bs, i - 1) \in Nat /\ Len(bs[i].items) \in Nat
        BY <3>1, SumIs, ItemsAreSeqs
      <3>3. ItemsBefore(bs, i) <= ItemsBefore(bs, n - 1)
        BY <3>1, <1>2, SumGrows
      <3>4. ItemsBefore(bs, i - 1) + k \in 1..Len(s)
        BY <3>2, <3>3, <1>1, <1>2
      <3>5. s[ItemsBefore(bs, i - 1) + k] = bs[i].items[k]
        BY <3>1 DEF Stands
      <3> QED
        BY <3>4, <3>5, <1>3
    <2> QED
      BY <2>1, <2>2
  <1> QED
    BY <1>1, <1>2, <1>3, <1>4 DEF Stands, u

LEMMA FlatIs ==
    ASSUME NEW bs \in Seq(Bucket)
    PROVE  Stands(bs, Len(bs), FlatOf(bs))
  <1> DEFINE S == 0..Len(bs)
             T == Seq(Items)
             Def(f, i) == IF i = 0 THEN <<>> ELSE f[i - 1] \o bs[i].items
             cat == CHOOSE f : f = [i \in S |-> Def(f, i)]
             D == [g \in [S -> T] |-> [i \in S |-> Def(g, i)]]
             size == [i \in S |-> i]
  <1>0. Len(bs) \in Nat
    OBVIOUS
  <1>a. \A i \in 1..Len(bs) : bs[i].items \in Seq(Items)
    BY ItemsAreSeqs
  <1>b. \A i \in S : i # 0 => i \in 1..Len(bs) /\ i - 1 \in S
    BY <1>0
  <1>1. D \in [[S -> T] -> [S -> T]]
    <2> SUFFICES ASSUME NEW g \in [S -> T], NEW i \in S PROVE Def(g, i) \in T
      OBVIOUS
    <2>1. CASE i = 0
      BY <2>1
    <2>2. CASE i # 0
      <3>1. i \in 1..Len(bs) /\ i - 1 \in S
        BY <2>2, <1>b
      <3>2. g[i - 1] \in Seq(Items) /\ bs[i].items \in Seq(Items)
        BY <3>1, <1>a
      <3> QED
        BY <2>2, <3>2
    <2> QED
      BY <2>1, <2>2
  <1>2. \E f \in [S -> T] : f = D[f]
    <2> DEFINE bound == Len(bs) + 1
    <2>1. size \in [S -> Nat] /\ bound \in Nat /\ \A x \in S : size[x] < bound
      BY <1>0
    <2>2. ASSUME NEW g \in [S -> T], NEW h \in [S -> T], NEW x \in S,
                 \A y \in S : size[y] < size[x] => g[y] = h[y]
          PROVE  D[g][x] = D[h][x]
      <3>1. x # 0 => g[x - 1] = h[x - 1]
        BY <2>2, <1>b
      <3> QED
        BY <3>1
    <2>3. T # {}
      <3>1. <<>> \in T
        OBVIOUS
      <3> QED
        BY <3>1
    <2> HIDE DEF D, size, S, T, bound
    <2>4. \A g, h \in [S -> T], x \in S :
             (\A y \in S : size[y] < size[x] => g[y] = h[y]) => D[g][x] = D[h][x]
      BY <2>2
    <2>5. Definable(S, T, D, size, bound)
      BY <1>1, <2>1, <2>3, <2>4 DEF Definable
    <2> QED
      BY <2>5, Recursion
  <1>3. \E f : f = [i \in S |-> Def(f, i)]
    <2>1. PICK f \in [S -> T] : f = D[f]
      BY <1>2
    <2> QED
      BY <2>1
  <1>4. cat = [i \in S |-> Def(cat, i)]
    BY <1>3
  <1>5. FlatOf(bs) = cat[Len(bs)]
    BY DEF FlatOf
  <1> HIDE DEF cat
  <1>6. cat[0] = <<>> /\ \A i \in 1..Len(bs) : cat[i] = cat[i - 1] \o bs[i].items
    BY <1>4, <1>0
  <1>7. \A n \in 0..Len(bs) : Stands(bs, n, cat[n])
    <2> DEFINE Wrong == {n \in Nat : n \in S /\ ~Stands(bs, n, cat[n])}
    <2> SUFFICES ASSUME Wrong # {} PROVE FALSE
      BY <1>0
    <2>1. PICK m \in Wrong : \A k \in Wrong : ~(k < m)
      BY LeastNumber
    <2>2. Stands(bs, 0, cat[0])
      BY <1>6, SumIs DEF Stands
    <2>3. m # 0 /\ m \in S /\ m \in Nat /\ ~Stands(bs, m, cat[m])
      BY <2>1, <2>2
    <2>4. m \in 1..Len(bs) /\ m - 1 \in S /\ m - 1 \in Nat /\ m - 1 < m
      BY <2>3, <1>0
    <2>5. Stands(bs, m - 1, cat[m - 1])
      BY <2>1, <2>4
    <2> QED
      BY <2>3, <2>4, <2>5, <1>6, StandsNext
  <1> QED
    BY <1>0, <1>5, <1>7

\* ... and nothing else does.
LEMMA FlatUnique ==
    ASSUME NEW bs \in Seq(Bucket), NEW s \in Seq(Items), NEW o \in [0..Len(bs) -> Nat],
           o[0] = 0, \A i \in 1..Len(bs) : o[i] = o[i - 1] + Len(bs[i].items),
           Len(s) = o[Len(bs)],
           \A i \in 1..Len(bs) : \A k \in 1..Len(bs[i].items) : s[o[i - 1] + k] = bs[i].items[k]
    PROVE  FlatOf(bs) = s /\ \A i \in 0..Len(bs) : ItemsBefore(bs, i) = o[i]
  <1>0. Len(bs) \in Nat
    OBVIOUS
  <1>1. \A i \in 0..Len(bs) : ItemsBefore(bs, i) = o[i]
    <2> DEFINE Wrong == {n \in Nat : n \in 0..Len(bs) /\ ItemsBefore(bs, n) # o[n]}
    <2> SUFFICES ASSUME Wrong # {} PROVE FALSE
      BY <1>0
    <2>1. PICK m \in Wrong : \A k \in Wrong : ~(k < m)
      BY LeastNumber
    <2>2. m # 0
      BY <2>1, SumIs
    <2>3. m \in 1..Len(bs) /\ m - 1 \in 0..Len(bs) /\ m - 1 \in Nat /\ m - 1 < m
      BY <2>1, <2>2, <1>0
    <2>4. ItemsBefore(bs, m - 1) = o[m - 1]
      BY <2>1, <2>3
    <2>5. ItemsBefore(bs, m) = ItemsBefore(bs, m - 1) + Len(bs[m].items)
      BY <2>3, SumIs
    <2> QED
      BY <2>1, <2>3, <2>4, <2>5
  <1>2. FlatOf(bs) \in Seq(Items) /\ Len(FlatOf(bs)) = ItemsBefore(bs, Len(bs))
    BY FlatIs DEF Stands
  <1>3. ASSUME NEW n \in 1..Len(s)
        PROVE  FlatOf(bs)[n] = s[n]
    <2>1. n \in 1..ItemsBefore(bs, Len(bs))
      BY <1>0, <1>1
    <2>2. PICK i \in 1..Len(bs) : \E k \in 1..Len(bs[i].items) : n = ItemsBefore(bs, i - 1) + k
      BY <2>1, PlaceOf
    <2>3. PICK k \in 1..Len(bs[i].items) : n = ItemsBefore(bs, i - 1) + k
      BY <2>2
    <2>4. FlatOf(bs)[n] = bs[i].items[k]
      BY <2>3, FlatIs DEF Stands
    <2>5. i - 1 \in 0..Len(bs) /\ ItemsBefore(bs, i - 1) = o[i - 1]
      BY <1>0, <1>1
    <2> QED
      BY <2>3, <2>4, <2>5
  <1> QED
    BY <1>0, <1>1, <1>2, <1>3, SeqEqual, SMTT(30)

-----------------------------------------------------------------------------
(* Bisection.                                                              *)

Sorted(bs) == \A i, j \in 1..Len(bs) : i < j => bs[i].priority > bs[j].priority

\* The buckets up to pos have a higher priority than p, the others a lower one.
Divides(bs, pos, p) ==
    /\ \A i \in 1..Len(bs) : i <= pos => bs[i].priority > p
    /\ \A i \in 1..Len(bs) : i > pos => bs[i].priority < p

\* The index of the bucket of priority p, or where it is missing.
Finds(bs, p, idx) ==
    \/ idx \in 0..(Len(bs) - 1) /\ bs[idx + 1].priority = p
    \/ \E pos \in 0..Len(bs) : idx = -(pos + 1) /\ Divides(bs, pos, p)

LEMMA SearchFinds ==
    ASSUME NEW bs \in Seq(Bucket), Sorted(bs), NEW p \in Int
    PROVE  Finds(bs, p, Search(bs, p))
  <1> DEFINE A == 0..Len(bs)
             B == -1..(Len(bs) - 1)
             S == A \X B
             Mid(low, high) == low + (high - low) \div 2
             Def(f, r) ==
                LET low  == r[1]
                    high == r[2]
                    mid  == Mid(low, high)
                IN  IF low > high THEN -(low + 1)
                    ELSE IF bs[mid + 1].priority = p THEN mid
                    ELSE IF GoesRight(bs[mid + 1].priority, p) THEN f[<<mid + 1, high>>]
                    ELSE f[<<low, mid - 1>>]
             step == CHOOSE f : f = [r \in S |-> Def(f, r)]
             D == [g \in [S -> Int] |-> [r \in S |-> Def(g, r)]]
             size == [r \in S |-> (r[2] - r[1]) + (Len(bs) + 1)]
             bound == 2 * Len(bs) + 2
  <1>0. Len(bs) \in Nat
    OBVIOUS
  <1>a. \A i \in 1..Len(bs) : bs[i].priority \in Int
    BY ItemsAreSeqs, PrioAssumption DEF Priorities
  <1>b. ASSUME NEW low \in A, NEW high \in B, ~(low > high)
        PROVE  /\ Mid(low, high) \in low..high /\ Mid(low, high) + 1 \in 1..Len(bs)
               /\ Mid(low, high) + 1 \in A /\ Mid(low, high) - 1 \in B
    BY <1>0, <1>b
  <1>5. Search(bs, p) = step[<<0, Len(bs) - 1>>]
    BY DEF Search
  <1> HIDE DEF Mid
  <1>1. D \in [[S -> Int] -> [S -> Int]]
    <2> SUFFICES ASSUME NEW g \in [S -> Int], NEW r \in S PROVE Def(g, r) \in Int
      OBVIOUS
    <2>0. r[1] \in A /\ r[2] \in B
      OBVIOUS
    <2>1. CASE r[1] > r[2]
      BY <2>0, <2>1, <1>0
    <2>2. CASE ~(r[1] > r[2])
      <3>1. g[<<Mid(r[1], r[2]) + 1, r[2]>>] \in Int /\ g[<<r[1], Mid(r[1], r[2]) - 1>>] \in Int
        BY <2>0, <2>2, <1>b
      <3>2. Mid(r[1], r[2]) \in Int
        BY <2>0, <2>2, <1>b
      <3> QED
        BY <2>2, <3>1, <3>2
    <2> QED
      BY <2>1, <2>2
  <1>2. \E f \in [S -> Int] : f = D[f]
    <2>1. size \in [S -> Nat] /\ bound \in Nat /\ \A x \in S : size[x] < bound
      BY <1>0
    <2>2. ASSUME NEW g \in [S -> Int], NEW h \in [S -> Int], NEW r \in S,
                 \A y \in S : size[y] < size[r] => g[y] = h[y]
          PROVE  Def(g, r) = Def(h, r)
      <3> DEFINE mid == Mid(r[1], r[2])
      <3>1. CASE r[1] > r[2]
        BY <3>1
      <3>2. CASE ~(r[1] > r[2])
        <4>1. r[1] \in A /\ r[2] \in B /\ mid \in r[1]..r[2] /\ mid + 1 \in A /\ mid - 1 \in B
          BY <3>2, <1>b
        <4> HIDE DEF mid
        <4>2. /\ <<mid + 1, r[2]>> \in S /\ size[<<mid + 1, r[2]>>] < size[r]
              /\ <<r[1], mid - 1>> \in S /\ size[<<r[1], mid - 1>>] < size[r]
          BY <1>0, <4>1, SMTT(30)
        <4>3. g[<<mid + 1, r[2]>>] = h[<<mid + 1, r[2]>>] /\ g[<<r[1], mid - 1>>] = h[<<r[1], mid - 1>>]
          BY <2>2, <4>2
        <4> QED
          BY <4>3 DEF mid
      <3> QED
        BY <3>1, <3>2
    <2>3. Int # {}
      OBVIOUS
    <2>a. \A g \in [S -> Int], x \in S : D[g][x] = Def(g, x)
      OBVIOUS
    <2>4. \A g, h \in [S -> Int], x \in S :
             (\A y \in S : size[y] < size[x] => g[y] = h[y]) => D[g][x] = D[h][x]
      <3> HIDE DEF D, Def, size, S
      <3> SUFFICES ASSUME NEW g \in [S -> Int], NEW h \in [S -> Int], NEW x \in S,
                          \A y \in S : size[y] < size[x] => g[y] = h[y]
                   PROVE  D[g][x] = D[h][x]
        OBVIOUS
      <3>1. Def(g, x) = Def(h, x)
        BY <2>2
      <3> QED
        BY <3>1, <2>a
    <2> HIDE DEF D, size, S, bound
    <2>5. Definable(S, Int, D, size, bound)
      BY <1>1, <2>1, <2>3, <2>4 DEF Definable
    <2> QED
      BY <2>5, Recursion
  <1>3. \E f : f = [r \in S |-> Def(f, r)]
    <2>1. PICK f \in [S -> Int] : f = D[f]
      BY <1>2
    <2> QED
      BY <2>1
  <1>4. step = [r \in S |-> Def(step, r)]
    BY <1>3
  <1> HIDE DEF step
  <1>6. \A low \in A, high \in B : step[<<low, high>>] = Def(step, <<low, high>>)
    BY <1>4
  <1> DEFINE Between(low, high) ==
                /\ low <= high + 1
                /\ \A i \in 1..Len(bs) : i <= low => bs[i].priority > p
                /\ \A i \in 1..Len(bs) : i > high + 1 => bs[i].priority < p
             Wrong == {n \in Nat : \E low \in A, high \in B :
                          Between(low, high) /\ n = (high - low) + 1 /\ ~Finds(bs, p, step[<<low, high>>])}
  <1>7. Wrong = {}
    <2> SUFFICES ASSUME Wrong # {} PROVE FALSE
      OBVIOUS
    <2>1. PICK m \in Wrong : \A k \in Wrong : ~(k < m)
      BY LeastNumber
    <2>2. PICK low \in A, high \in B :
             Between(low, high) /\ m = (high - low) + 1 /\ ~Finds(bs, p, step[<<low, high>>])
      BY <2>1
    <2>3. CASE low > high
      <3>a. low = high + 1
        BY <2>2, <2>3, <1>0, SMTT(30)
      <3>b. Def(step, <<low, high>>) = -(low + 1)
        BY <2>3
      <3>1. step[<<low, high>>] = -(low + 1) /\ low = high + 1
        BY <3>a, <3>b, <1>6
      <3>2. Divides(bs, low, p)
        BY <2>2, <3>1 DEF Divides
      <3> QED
        BY <2>2, <3>1, <3>2 DEF Finds
    <2>4. CASE ~(low > high)
      <3> DEFINE mid == Mid(low, high)
      <3>1. mid \in low..high /\ mid + 1 \in 1..Len(bs) /\ mid + 1 \in A /\ mid - 1 \in B
        BY <2>4, <1>b
      <3> HIDE DEF mid
      <3>2. /\ bs[mid + 1].priority = p => step[<<low, high>>] = mid
            /\ bs[mid + 1].priority > p => step[<<low, high>>] = step[<<mid + 1, high>>]
            /\ bs[mid + 1].priority < p => step[<<low, high>>] = step[<<low, mid - 1>>]
        <4>1. step[<<low, high>>] = Def(step, <<low, high>>)
          BY <1>6
        <4>2. bs[mid + 1].priority \in Int
          BY <3>1, <1>a
        <4> QED
          BY <2>4, <4>1, <4>2 DEF mid, GoesRight
      <3>3. CASE bs[mid + 1].priority = p
        BY <2>2, <3>1, <3>2, <3>3, <1>0 DEF Finds
      <3>4. CASE bs[mid + 1].priority > p
        <4>1. \A i \in 1..Len(bs) : i <= mid + 1 => bs[i].priority > p
          <5> TAKE i \in 1..Len(bs)
          <5>1. i < mid + 1 => bs[i].priority > bs[mid + 1].priority
            BY <3>1 DEF Sorted
          <5> QED
            BY <5>1, <3>1, <3>4, <1>a
        <4>2. Between(mid + 1, high)
          BY <4>1, <2>2, <3>1
        <4>3. (high - (mid + 1)) + 1 \in Nat /\ (high - (mid + 1)) + 1 < m
          BY <2>2, <3>1, SMTT(30)
        <4>4. Finds(bs, p, step[<<mid + 1, high>>])
          BY <2>1, <4>2, <4>3, <3>1
        <4> QED
          BY <2>2, <3>2, <3>4, <4>4
      <3>5. CASE bs[mid + 1].priority < p
        <4>1. \A i \in 1..Len(bs) : i > (mid - 1) + 1 => bs[i].priority < p
          <5> TAKE i \in 1..Len(bs)
          <5>1. mid + 1 < i => bs[mid + 1].priority > bs[i].priority
            BY <3>1 DEF Sorted
          <5>2. i > (mid - 1) + 1 => i = mid + 1 \/ mid + 1 < i
            BY <3>1, SMTT(30)
          <5>3. bs[i].priority \in Int /\ bs[mid + 1].priority \in Int
            BY <3>1, <1>a
          <5> QED
            BY <5>1, <5>2, <5>3, <3>5, SMTT(30)
        <4>2. Between(low, mid - 1)
          BY <4>1, <2>2, <3>1
        <4>3. ((mid - 1) - low) + 1 \in Nat /\ ((mid - 1) - low) + 1 < m
          BY <2>2, <3>1, SMTT(30)
        <4>4. Finds(bs, p, step[<<low, mid - 1>>])
          BY <2>1, <4>2, <4>3, <3>1
        <4> QED
          BY <2>2, <3>2, <3>5, <4>4
      <3> QED
        BY <3>1, <3>3, <3>4, <3>5, <1>a
    <2> QED
      BY <2>3, <2>4
  <1>8. Between(0, Len(bs) - 1) /\ 0 \in A /\ Len(bs) - 1 \in B
    BY <1>0
  <1>9. ((Len(bs) - 1) - 0) + 1 \in Nat
    BY <1>0
  <1> QED
    BY <1>5, <1>7, <1>8, <1>9

-----------------------------------------------------------------------------
(* What the calls do to the buckets is what they do to the queue.          *)

\* No bucket is empty, and each holds items of its priority.
Filled(bs) ==
    \A i \in 1..Len(bs) :
        /\ bs[i].items # <<>>
        /\ \A k \in 1..Len(bs[i].items) : Prio[bs[i].items[k]] = bs[i].priority

\* Where PQueueSpec puts an item, and the queue it leaves.
InsertPosition(q, p, prio) == Cardinality({i \in 1..Len(q) : prio[q[i]] >= p})
Insert(q, item, prio) ==
    LET pos == InsertPosition(q, prio[item], prio)
    IN  [i \in 1..(Len(q) + 1) |->
            IF i <= pos THEN q[i] ELSE IF i = pos + 1 THEN item ELSE q[i - 1]]

\* c buckets are not behind an item of priority p.
LEMMA PositionIs ==
    ASSUME NEW bs \in Seq(Bucket), Filled(bs), NEW p \in Int, NEW c \in 0..Len(bs),
           \A i \in 1..Len(bs) : i <= c => bs[i].priority >= p,
           \A i \in 1..Len(bs) : i > c => bs[i].priority < p
    PROVE  InsertPosition(FlatOf(bs), p, Prio) = ItemsBefore(bs, c)
  <1> DEFINE q == FlatOf(bs)
             m == ItemsBefore(bs, c)
             ahead == {n \in 1..Len(q) : Prio[q[n]] >= p}
  <1>0. Len(bs) \in Nat /\ m \in Nat /\ m <= ItemsBefore(bs, Len(bs)) /\ ItemsBefore(bs, Len(bs)) \in Nat
    BY SumIs, SumGrows
  <1>1. Stands(bs, Len(bs), q) /\ Len(q) = ItemsBefore(bs, Len(bs))
    BY FlatIs DEF Stands
  <1> HIDE DEF q, m
  <1>2. ASSUME NEW n \in 1..Len(q)
        PROVE  Prio[q[n]] >= p <=> n <= m
    <2>1. n \in 1..ItemsBefore(bs, Len(bs))
      BY <1>1
    <2>2. PICK i \in 1..Len(bs) : \E k \in 1..Len(bs[i].items) : n = ItemsBefore(bs, i - 1) + k
      BY <2>1, PlaceOf
    <2>3. PICK k \in 1..Len(bs[i].items) : n = ItemsBefore(bs, i - 1) + k
      BY <2>2
    <2>4. Prio[q[n]] = bs[i].priority
      BY <2>3, <1>1 DEF Stands, Filled
    <2>5. bs[i].priority \in Int /\ Len(bs[i].items) \in Nat
      BY ItemsAreSeqs, PrioAssumption DEF Priorities
    <2>6. /\ i - 1 \in 0..Len(bs) /\ ItemsBefore(bs, i - 1) \in Nat /\ ItemsBefore(bs, i) \in Nat
          /\ ItemsBefore(bs, i) = ItemsBefore(bs, i - 1) + Len(bs[i].items)
      BY <1>0, SumIs
    <2>7. CASE i <= c
      <3>1. ItemsBefore(bs, i) <= m
        BY <2>7, <1>0, SumGrows DEF m
      <3>2. n <= m
        BY <3>1, <2>3, <2>5, <2>6, <1>0, SMTT(30)
      <3> QED
        BY <3>2, <2>4, <2>7
    <2>8. CASE ~(i <= c)
      <3>1. c <= i - 1
        BY <2>8, <1>0
      <3>2. m <= ItemsBefore(bs, i - 1)
        BY <3>1, <2>6, SumGrows DEF m
      <3>3. ~(n <= m)
        BY <3>2, <2>3, <2>5, <2>6, <1>0
      <3>4. bs[i].priority < p
        BY <2>8, <1>0
      <3>5. ~(bs[i].priority >= p)
        BY <3>4, <2>5
      <3> QED
        BY <3>3, <3>5, <2>4
    <2> QED
      BY <2>7, <2>8
  <1>3. ahead = 1..m
    BY <1>0, <1>1, <1>2
  <1>4. Cardinality(1..m) = m
    BY <1>0, FS_Interval
  <1> QED
    BY <1>3, <1>4 DEF InsertPosition, q, m

\* A sequence with an item put in behind pos others.
PutIn(q, x, pos) ==
    [i \in 1..(Len(q) + 1) |->
        IF i <= pos THEN q[i] ELSE IF i = pos + 1 THEN x ELSE q[i - 1]]

LEMMA PutInIs ==
    ASSUME NEW q \in Seq(Items), NEW x \in Items, NEW pos \in 0..Len(q)
    PROVE  /\ PutIn(q, x, pos) \in Seq(Items) /\ Len(PutIn(q, x, pos)) = Len(q) + 1
           /\ \A i \in 1..(Len(q) + 1) : PutIn(q, x, pos)[i] =
                 IF i <= pos THEN q[i] ELSE IF i = pos + 1 THEN x ELSE q[i - 1]
  <1>1. ASSUME NEW i \in 1..(Len(q) + 1)
        PROVE  (IF i <= pos THEN q[i] ELSE IF i = pos + 1 THEN x ELSE q[i - 1]) \in Items
    <2>1. i <= pos => i \in 1..Len(q)
      OBVIOUS
    <2>2. ~(i <= pos) /\ i # pos + 1 => i - 1 \in 1..Len(q)
      OBVIOUS
    <2> QED
      BY <2>1, <2>2
  <1> QED
    BY <1>1 DEF PutIn

\* The buckets with an item put last into one of them.
WithLast(bs, b, x) == [bs EXCEPT ![b].items = Append(@, x)]

\* An item put last into a bucket goes in behind all of that bucket.
LEMMA AppendIs ==
    ASSUME NEW bs \in Seq(Bucket), Sorted(bs), Filled(bs),
           NEW x \in Items, NEW b \in 1..Len(bs), bs[b].priority = Prio[x],
           NEW cs, cs = WithLast(bs, b, x)
    PROVE  /\ cs \in Seq(Bucket) /\ Len(cs) = Len(bs) /\ Sorted(cs) /\ Filled(cs)
           /\ FlatOf(cs) = Insert(FlatOf(bs), x, Prio)
           /\ PositionIn(cs, b - 1) = InsertPosition(FlatOf(bs), Prio[x], Prio)
  <1> DEFINE q == FlatOf(bs)
             m == ItemsBefore(bs, b)
             o == [i \in 0..Len(bs) |-> IF i < b THEN ItemsBefore(bs, i) ELSE ItemsBefore(bs, i) + 1]
  <1>0. Len(bs) \in Nat /\ \A i \in 0..Len(bs) : ItemsBefore(bs, i) \in Nat
    BY SumIs
  <1>1. Prio[x] \in Int /\ \A i \in 1..Len(bs) : bs[i].priority \in Int
    BY ItemsAreSeqs, PrioAssumption DEF Priorities
  <1>2. /\ bs[b] \in Bucket /\ Append(bs[b].items, x) \in Seq(Items)
        /\ Len(Append(bs[b].items, x)) = Len(bs[b].items) + 1 /\ Len(bs[b].items) \in Nat
        /\ \A k \in 1..(Len(bs[b].items) + 1) : Append(bs[b].items, x)[k] =
              IF k = Len(bs[b].items) + 1 THEN x ELSE bs[b].items[k]
    BY ItemsAreSeqs
  <1>3. /\ cs \in Seq(Bucket) /\ Len(cs) = Len(bs)
        /\ \A i \in 1..Len(bs) : cs[i].priority = bs[i].priority
        /\ \A i \in 1..Len(bs) : i # b => cs[i] = bs[i]
        /\ cs[b].items = Append(bs[b].items, x)
    <2> DEFINE r == [bs[b] EXCEPT !.items = Append(@, x)]
    <2>1. r \in Bucket /\ r.priority = bs[b].priority /\ r.items = Append(bs[b].items, x)
      BY <1>2 DEF Bucket
    <2>2. cs = [bs EXCEPT ![b] = r]
      BY DEF WithLast
    <2> HIDE DEF r
    <2>3. cs \in Seq(Bucket) /\ Len(cs) = Len(bs)
      BY <2>1, <2>2
    <2>4. cs[b] = r /\ \A i \in 1..Len(bs) : i # b => cs[i] = bs[i]
      BY <2>2
    <2> QED
      BY <2>1, <2>3, <2>4
  <1>4. Sorted(cs)
    BY <1>3 DEF Sorted
  <1>5. Filled(cs)
    <2>1. ASSUME NEW i \in 1..Len(cs), i # b
          PROVE  /\ cs[i].items # <<>>
                 /\ \A k \in 1..Len(cs[i].items) : Prio[cs[i].items[k]] = cs[i].priority
      BY <2>1, <1>3 DEF Filled
    <2>2. cs[b].items # <<>>
      BY <1>2, <1>3
    <2>3. \A k \in 1..Len(cs[b].items) : Prio[cs[b].items[k]] = cs[b].priority
      BY <1>2, <1>3 DEF Filled
    <2> QED
      BY <2>1, <2>2, <2>3 DEF Filled
  <1>6. InsertPosition(q, Prio[x], Prio) = m
    <2>1. \A i \in 1..Len(bs) : i <= b => bs[i].priority >= Prio[x]
      BY <1>1 DEF Sorted
    <2>2. \A i \in 1..Len(bs) : i > b => bs[i].priority < Prio[x]
      BY <1>1 DEF Sorted
    <2>3. b \in 0..Len(bs)
      BY <1>0
    <2> QED
      BY <2>1, <2>2, <2>3, <1>1, PositionIs
  <1>7. /\ m \in Nat /\ m = ItemsBefore(bs, b - 1) + Len(bs[b].items)
        /\ ItemsBefore(bs, b - 1) \in Nat
        /\ q \in Seq(Items) /\ Len(q) = ItemsBefore(bs, Len(bs)) /\ m <= Len(q)
        /\ Len(q) \in Nat /\ m \in 0..Len(q)
    <2>1. b \in 0..Len(bs) /\ b - 1 \in 0..Len(bs) /\ Len(bs) \in 0..Len(bs) /\ b <= Len(bs)
      BY <1>0
    <2>2. q \in Seq(Items) /\ Len(q) = ItemsBefore(bs, Len(bs))
      BY FlatIs DEF Stands
    <2>3. m <= ItemsBefore(bs, Len(bs))
      BY <2>1, SumGrows
    <2>4. m = ItemsBefore(bs, b - 1) + Len(bs[b].items)
      BY SumIs
    <2> QED
      BY <2>1, <2>2, <2>3, <2>4, <1>0
  <1>c. Len(q) \in Nat /\ m \in Nat /\ m <= Len(q)
    BY <1>7
  <1>d. q \in Seq(Items) /\ m \in 0..Len(q)
    BY <1>7
  <1>8. Insert(q, x, Prio) = PutIn(q, x, m)
    BY <1>6 DEF Insert, PutIn
  <1> HIDE DEF q, m
  <1> DEFINE s == PutIn(q, x, m)
  <1>9. /\ s \in Seq(Items) /\ Len(s) = Len(q) + 1
        /\ \A i \in 1..(Len(q) + 1) : s[i] =
              IF i <= m THEN q[i] ELSE IF i = m + 1 THEN x ELSE q[i - 1]
    BY <1>d, PutInIs
  <1> HIDE DEF s
  <1>10. o \in [0..Len(cs) -> Nat] /\ o[0] = 0
    BY <1>0, <1>3, SumIs
  <1>a. /\ \A i \in 0..Len(bs) : i < b => o[i] = ItemsBefore(bs, i)
        /\ \A i \in 0..Len(bs) : i >= b => o[i] = ItemsBefore(bs, i) + 1
    BY <1>0
  <1>b. \A i \in 1..Len(cs) :
           /\ i \in 0..Len(bs) /\ i - 1 \in 0..Len(bs) /\ i \in 1..Len(bs)
           /\ ItemsBefore(bs, i) = ItemsBefore(bs, i - 1) + Len(bs[i].items)
           /\ ItemsBefore(bs, i - 1) \in Nat /\ Len(bs[i].items) \in Nat
    BY <1>0, <1>3, SumIs, ItemsAreSeqs, SMTT(30)
  <1> HIDE DEF o
  <1>11. ASSUME NEW i \in 1..Len(cs)
         PROVE  o[i] = o[i - 1] + Len(cs[i].items)
    <2>3. CASE i = b
      <3>1. o[i] = ItemsBefore(bs, i) + 1 /\ o[i - 1] = ItemsBefore(bs, i - 1)
        BY <2>3, <1>a, <1>b, SMTT(30)
      <3>2. Len(cs[i].items) = Len(bs[i].items) + 1
        BY <2>3, <1>2, <1>3
      <3> QED
        BY <3>1, <3>2, <1>b
    <2>4. CASE i < b
      <3>1. o[i] = ItemsBefore(bs, i) /\ o[i - 1] = ItemsBefore(bs, i - 1)
        BY <2>4, <1>a, <1>b
      <3>2. cs[i] = bs[i]
        BY <2>4, <1>b, <1>3
      <3> QED
        BY <3>1, <3>2, <1>b
    <2>5. CASE i > b
      <3>1. /\ o[i] = ItemsBefore(bs, i) + 1 /\ o[i - 1] = ItemsBefore(bs, i - 1) + 1
            /\ cs[i] = bs[i]
        BY <2>5, <1>a, <1>b, <1>3
      <3> QED
        BY <3>1, <1>b, SMTT(30)
    <2> QED
      BY <2>3, <2>4, <2>5, <1>3
  <1>12. Len(s) = o[Len(cs)]
    BY <1>0, <1>3, <1>7, <1>9, <1>a
  <1>13. ASSUME NEW i \in 1..Len(cs), NEW k \in 1..Len(cs[i].items)
         PROVE  s[o[i - 1] + k] = cs[i].items[k]
    <2>1. /\ i \in 0..Len(bs) /\ i - 1 \in 0..Len(bs) /\ i \in 1..Len(bs)
          /\ ItemsBefore(bs, i) = ItemsBefore(bs, i - 1) + Len(bs[i].items)
      BY <1>b
    <2>2. ItemsBefore(bs, i - 1) \in Nat /\ Len(bs[i].items) \in Nat
      BY <1>b
    <2>3. ItemsBefore(bs, i) <= Len(q)
      <3>1. Len(bs) \in 0..Len(bs) /\ i <= Len(bs)
        BY <2>1, <1>0
      <3> QED
        BY <2>1, <3>1, <1>7, SumGrows
    <2>4. \A j \in 1..Len(bs[i].items) : q[ItemsBefore(bs, i - 1) + j] = bs[i].items[j]
      BY <2>1, FlatIs DEF Stands, q
    <2>5. CASE i < b
      <3>1. ItemsBefore(bs, i) <= m
        <4>1. b \in 0..Len(bs) /\ i <= b
          BY <2>5, <2>1, <1>0
        <4> QED
          BY <4>1, <2>1, SumGrows DEF m
      <3>2. k \in 1..Len(bs[i].items) /\ cs[i].items[k] = bs[i].items[k] /\ o[i - 1] = ItemsBefore(bs, i - 1)
        BY <2>1, <2>5, <1>3, <1>a
      <3>3. o[i - 1] + k \in 1..(Len(q) + 1) /\ o[i - 1] + k <= m
        <4>1. \A a, n, z, y \in Nat : \A j \in 1..n : a + n <= y /\ y <= z => a + j \in 1..(z + 1) /\ a + j <= y
          OBVIOUS
        <4>2. ItemsBefore(bs, i - 1) + Len(bs[i].items) <= m
          BY <2>1, <3>1
        <4>3. k \in 1..Len(bs[i].items)
          BY <3>2
        <4>4. ItemsBefore(bs, i - 1) + k \in 1..(Len(q) + 1) /\ ItemsBefore(bs, i - 1) + k <= m
          BY <4>1, <4>2, <4>3, <2>2, <1>c
        <4> QED
          BY <4>4, <3>2
      <3>4. s[o[i - 1] + k] = q[o[i - 1] + k]
        BY <3>3, <1>9
      <3> QED
        BY <3>2, <3>4, <2>4
    <2>6. CASE i = b
      <3>1. o[i - 1] = ItemsBefore(bs, i - 1) /\ m = ItemsBefore(bs, i - 1) + Len(bs[i].items)
        BY <2>1, <2>6, <1>7, <1>a
      <3>2. /\ k \in 1..(Len(bs[i].items) + 1)
            /\ cs[i].items[k] = IF k = Len(bs[i].items) + 1 THEN x ELSE bs[i].items[k]
        BY <2>6, <1>2, <1>3
      <3>a. k \in 1..(Len(bs[i].items) + 1)
        BY <3>2
      <3>3. o[i - 1] + k \in 1..(Len(q) + 1)
        <4>1. \A a, n, z \in Nat : \A j \in 1..(n + 1) : a + n <= z => a + j \in 1..(z + 1)
          OBVIOUS
        <4>2. ItemsBefore(bs, i - 1) + Len(bs[i].items) <= Len(q)
          BY <3>1, <1>c
        <4> QED
          BY <4>1, <4>2, <2>2, <3>1, <3>a, <1>c
      <3>4. CASE k = Len(bs[i].items) + 1
        <4>1. o[i - 1] + k = m + 1 /\ ~(m + 1 <= m)
          BY <3>1, <3>4, <2>2, <1>c, SMTT(30)
        <4> QED
          BY <4>1, <3>2, <3>3, <3>4, <1>9
      <3>5. CASE k # Len(bs[i].items) + 1
        <4>1. k \in 1..Len(bs[i].items) /\ o[i - 1] + k <= m
          BY <3>1, <3>2, <3>5, <2>2, SMTT(30)
        <4>2. s[o[i - 1] + k] = q[o[i - 1] + k]
          BY <4>1, <3>3, <1>9
        <4> QED
          BY <4>1, <4>2, <3>1, <3>2, <3>5, <2>4
      <3> QED
        BY <3>4, <3>5
    <2>7. CASE i > b
      <3>1. m <= ItemsBefore(bs, i - 1)
        BY <2>1, <2>7, <1>0, SumGrows DEF m
      <3>2. k \in 1..Len(bs[i].items) /\ cs[i].items[k] = bs[i].items[k] /\ o[i - 1] = ItemsBefore(bs, i - 1) + 1
        BY <2>1, <2>7, <1>3, <1>a
      <3>3. /\ o[i - 1] + k \in 1..(Len(q) + 1) /\ ~(o[i - 1] + k <= m) /\ o[i - 1] + k # m + 1
            /\ (o[i - 1] + k) - 1 = ItemsBefore(bs, i - 1) + k
        <4>1. k \in 1..Len(bs[i].items) /\ o[i - 1] = ItemsBefore(bs, i - 1) + 1
          BY <3>2
        <4>2. ItemsBefore(bs, i - 1) + k <= Len(q)
          BY <4>1, <2>1, <2>2, <2>3, <1>c
        <4> QED
          BY <4>1, <4>2, <2>2, <3>1, <1>c, SMTT(30)
      <3>4. s[o[i - 1] + k] = q[(o[i - 1] + k) - 1]
        BY <3>3, <1>9
      <3> QED
        BY <3>2, <3>3, <3>4, <2>4
    <2> QED
      BY <2>5, <2>6, <2>7, <1>3
  <1>14. FlatOf(cs) = s /\ \A i \in 0..Len(cs) : ItemsBefore(cs, i) = o[i]
    <2> QED
      BY <1>3, <1>9, <1>10, <1>11, <1>12, <1>13, FlatUnique
  <1>15. PositionIn(cs, b - 1) = m
    <2>1. ItemsBefore(cs, b - 1) = ItemsBefore(bs, b - 1) /\ (b - 1) + 1 = b
      BY <1>0, <1>3, <1>14, <1>a
    <2> QED
      BY <2>1, <1>2, <1>3, <1>7, SMTT(30) DEF PositionIn
  <1> QED
    BY <1>3, <1>4, <1>5, <1>6, <1>8, <1>14, <1>15 DEF q, s

\* A new bucket goes in behind those of a higher priority, and so does its item.
LEMMA InsertIs ==
    ASSUME NEW bs \in Seq(Bucket), Sorted(bs), Filled(bs),
           NEW x \in Items, NEW c \in 0..Len(bs), Divides(bs, c, Prio[x]),
           NEW cs, cs = InsertBucket(bs, c, x)
    PROVE  /\ cs \in Seq(Bucket) /\ Len(cs) = Len(bs) + 1 /\ Sorted(cs) /\ Filled(cs)
           /\ FlatOf(cs) = Insert(FlatOf(bs), x, Prio)
           /\ PositionIn(cs, c) = InsertPosition(FlatOf(bs), Prio[x], Prio)
  <1> DEFINE q == FlatOf(bs)
             m == ItemsBefore(bs, c)
             new == [priority |-> Prio[x], items |-> <<x>>]
             o == [i \in 0..(Len(bs) + 1) |->
                     IF i <= c THEN ItemsBefore(bs, i) ELSE ItemsBefore(bs, i - 1) + 1]
  <1>1. Len(bs) \in Nat /\ \A i \in 0..Len(bs) : ItemsBefore(bs, i) \in Nat
    BY SumIs
  <1>2. Prio[x] \in Int /\ \A i \in 1..Len(bs) : bs[i].priority \in Int
    BY ItemsAreSeqs, PrioAssumption DEF Priorities
  <1>3. /\ new \in Bucket /\ new.priority = Prio[x] /\ new.items = <<x>> /\ Len(new.items) = 1
        /\ new.items # <<>> /\ new.items[1] = x
    BY <1>2 DEF Bucket, Priorities
  <1> HIDE DEF new
  <1>4. /\ cs \in Seq(Bucket) /\ Len(cs) = Len(bs) + 1
        /\ \A i \in 1..(Len(bs) + 1) : i <= c => cs[i] = bs[i]
        /\ cs[c + 1] = new
        /\ \A i \in 1..(Len(bs) + 1) : i > c + 1 => cs[i] = bs[i - 1]
    <2>1. cs = [i \in 1..(Len(bs) + 1) |-> IF i <= c THEN bs[i] ELSE IF i = c + 1 THEN new ELSE bs[i - 1]]
      BY DEF InsertBucket, new
    <2>2. ASSUME NEW i \in 1..(Len(bs) + 1)
          PROVE  (IF i <= c THEN bs[i] ELSE IF i = c + 1 THEN new ELSE bs[i - 1]) \in Bucket
      <3>1. i <= c => i \in 1..Len(bs)
        BY <1>1
      <3>2. ~(i <= c) /\ i # c + 1 => i - 1 \in 1..Len(bs)
        BY <1>1
      <3> QED
        BY <3>1, <3>2, <1>3
    <2>3. cs \in Seq(Bucket) /\ Len(cs) = Len(bs) + 1
      BY <2>1, <2>2, <1>1
    <2> QED
      BY <2>1, <2>3, <1>1
  <1>5. Sorted(cs)
    <2> SUFFICES ASSUME NEW i \in 1..Len(cs), NEW j \in 1..Len(cs), i < j
                 PROVE  cs[i].priority > cs[j].priority
      BY DEF Sorted
    <2>1. CASE j <= c
      <3>1. /\ i \in 1..(Len(bs) + 1) /\ i \in 1..Len(bs) /\ i <= c
            /\ j \in 1..(Len(bs) + 1) /\ j \in 1..Len(bs)
        <4>1. Len(cs) = Len(bs) + 1 /\ Len(bs) \in Nat
          BY <1>1, <1>4
        <4> QED
          BY <4>1, <2>1
      <3>2. cs[i] = bs[i] /\ cs[j] = bs[j]
        BY <3>1, <2>1, <1>4
      <3> QED
        BY <3>1, <3>2 DEF Sorted
    <2>2. CASE j = c + 1
      <3>1. i \in 1..Len(bs) /\ i <= c /\ cs[i] = bs[i] /\ cs[j] = new
        BY <2>2, <1>1, <1>4
      <3> QED
        BY <3>1, <1>3 DEF Divides
    <2>3. CASE j > c + 1
      <3>1. j - 1 \in 1..Len(bs) /\ j - 1 > c /\ cs[j] = bs[j - 1]
        BY <2>3, <1>1, <1>4
      <3>2. CASE i <= c
        <4>1. i \in 1..Len(bs) /\ cs[i] = bs[i] /\ i < j - 1
          BY <2>3, <3>1, <3>2, <1>1, <1>4
        <4> QED
          BY <3>1, <4>1 DEF Sorted
      <3>3. CASE i = c + 1
        <4>1. bs[j - 1].priority < Prio[x] /\ bs[j - 1].priority \in Int /\ cs[i].priority = Prio[x]
          BY <3>1, <3>3, <1>2, <1>3, <1>4 DEF Divides
        <4> QED
          BY <3>1, <4>1, <1>2
      <3>4. CASE i > c + 1
        <4>1. i - 1 \in 1..Len(bs) /\ i - 1 < j - 1 /\ cs[i] = bs[i - 1]
          BY <3>4, <1>1, <1>4
        <4> QED
          BY <3>1, <4>1 DEF Sorted
      <3> QED
        BY <3>2, <3>3, <3>4
    <2> QED
      BY <2>1, <2>2, <2>3
  <1>6. Filled(cs)
    <2> SUFFICES ASSUME NEW i \in 1..Len(cs)
                 PROVE  /\ cs[i].items # <<>>
                        /\ \A k \in 1..Len(cs[i].items) : Prio[cs[i].items[k]] = cs[i].priority
      BY DEF Filled
    <2>1. CASE i <= c
      <3>1. i \in 1..Len(bs) /\ cs[i] = bs[i]
        BY <2>1, <1>1, <1>4
      <3> QED
        BY <3>1 DEF Filled
    <2>2. CASE i = c + 1
      <3>1. cs[i] = new /\ \A k \in 1..Len(new.items) : k = 1
        BY <2>2, <1>3, <1>4
      <3> QED
        BY <3>1, <1>3
    <2>3. CASE i > c + 1
      <3>1. i - 1 \in 1..Len(bs) /\ cs[i] = bs[i - 1]
        BY <2>3, <1>1, <1>4
      <3> QED
        BY <3>1 DEF Filled
    <2> QED
      BY <2>1, <2>2, <2>3
  <1>7. InsertPosition(q, Prio[x], Prio) = m
    <2>1. \A i \in 1..Len(bs) : i <= c => bs[i].priority >= Prio[x]
      BY <1>2 DEF Divides
    <2>2. \A i \in 1..Len(bs) : i > c => bs[i].priority < Prio[x]
      BY DEF Divides
    <2> QED
      BY <2>1, <2>2, <1>2, PositionIs
  <1>8. /\ q \in Seq(Items) /\ Len(q) = ItemsBefore(bs, Len(bs)) /\ m \in 0..Len(q)
    <2>1. q \in Seq(Items) /\ Len(q) = ItemsBefore(bs, Len(bs))
      BY FlatIs DEF Stands
    <2>2. Len(bs) \in 0..Len(bs) /\ c <= Len(bs)
      BY <1>1
    <2>3. m <= ItemsBefore(bs, Len(bs)) /\ m \in Nat
      BY <2>2, <1>1, SumGrows
    <2> QED
      BY <2>1, <2>2, <2>3, <1>1
  <1>9. Insert(q, x, Prio) = PutIn(q, x, m)
    BY <1>7 DEF Insert, PutIn
  <1>10. Len(q) \in Nat /\ m \in Nat /\ m <= Len(q)
    BY <1>8
  <1> DEFINE s == PutIn(q, x, m)
  <1> HIDE DEF q, m
  <1>11. /\ s \in Seq(Items) /\ Len(s) = Len(q) + 1
         /\ \A i \in 1..(Len(q) + 1) : s[i] =
               IF i <= m THEN q[i] ELSE IF i = m + 1 THEN x ELSE q[i - 1]
    BY <1>8, PutInIs
  <1> HIDE DEF s
  <1>12. o \in [0..Len(cs) -> Nat] /\ o[0] = 0
    <2>1. \A i \in 0..(Len(bs) + 1) :
             (IF i <= c THEN ItemsBefore(bs, i) ELSE ItemsBefore(bs, i - 1) + 1) \in Nat
      <3> TAKE i \in 0..(Len(bs) + 1)
      <3>1. i <= c => i \in 0..Len(bs)
        BY <1>1
      <3>2. ~(i <= c) => i - 1 \in 0..Len(bs)
        BY <1>1
      <3> QED
        BY <3>1, <3>2, <1>1
    <2>2. o[0] = 0
      BY <1>1, SumIs
    <2> QED
      BY <2>1, <2>2, <1>4
  <1>13. /\ \A i \in 0..(Len(bs) + 1) : i <= c => o[i] = ItemsBefore(bs, i)
         /\ \A i \in 0..(Len(bs) + 1) : i > c => o[i] = ItemsBefore(bs, i - 1) + 1
    BY <1>1
  <1> HIDE DEF o
  <1>14. \A i \in 1..Len(bs) :
            /\ i \in 0..Len(bs) /\ i - 1 \in 0..Len(bs)
            /\ ItemsBefore(bs, i) = ItemsBefore(bs, i - 1) + Len(bs[i].items)
            /\ ItemsBefore(bs, i - 1) \in Nat /\ Len(bs[i].items) \in Nat
            /\ ItemsBefore(bs, i) <= Len(q)
    <2> TAKE i \in 1..Len(bs)
    <2>1. i \in 0..Len(bs) /\ i - 1 \in 0..Len(bs) /\ Len(bs) \in 0..Len(bs) /\ i <= Len(bs)
      BY <1>1
    <2>2. ItemsBefore(bs, i) <= Len(q)
      BY <2>1, <1>8, SumGrows
    <2>3. ItemsBefore(bs, i) = ItemsBefore(bs, i - 1) + Len(bs[i].items) /\ Len(bs[i].items) \in Nat
      BY SumIs, ItemsAreSeqs
    <2> QED
      BY <2>1, <2>2, <2>3, <1>1
  <1>15. ASSUME NEW i \in 1..Len(cs)
         PROVE  o[i] = o[i - 1] + Len(cs[i].items)
    <2>1. CASE i <= c
      <3>1. i \in 1..Len(bs) /\ cs[i] = bs[i] /\ i - 1 \in 0..(Len(bs) + 1) /\ i - 1 <= c /\ i \in 0..(Len(bs) + 1)
        BY <2>1, <1>1, <1>4
      <3>2. o[i] = ItemsBefore(bs, i) /\ o[i - 1] = ItemsBefore(bs, i - 1)
        BY <2>1, <3>1, <1>13
      <3> QED
        BY <3>1, <3>2, <1>14
    <2>2. CASE i = c + 1
      <3>1. cs[i] = new /\ i - 1 = c /\ c \in 0..(Len(bs) + 1) /\ i \in 0..(Len(bs) + 1) /\ i > c
        BY <2>2, <1>1, <1>4
      <3>2. o[i] = ItemsBefore(bs, c) + 1 /\ o[i - 1] = ItemsBefore(bs, c)
        BY <3>1, <1>13
      <3> QED
        BY <3>1, <3>2, <1>3
    <2>3. CASE i > c + 1
      <3>1. /\ i - 1 \in 1..Len(bs) /\ cs[i] = bs[i - 1]
            /\ i - 1 \in 0..(Len(bs) + 1) /\ i - 1 > c /\ i \in 0..(Len(bs) + 1) /\ i > c
        BY <2>3, <1>1, <1>4
      <3>2. o[i] = ItemsBefore(bs, i - 1) + 1 /\ o[i - 1] = ItemsBefore(bs, (i - 1) - 1) + 1
        BY <3>1, <1>13
      <3>3. /\ ItemsBefore(bs, i - 1) = ItemsBefore(bs, (i - 1) - 1) + Len(bs[i - 1].items)
            /\ ItemsBefore(bs, (i - 1) - 1) \in Nat /\ Len(bs[i - 1].items) \in Nat
        BY <3>1, <1>14
      <3> QED
        BY <3>1, <3>2, <3>3, SMTT(30)
    <2> QED
      BY <2>1, <2>2, <2>3
  <1>16. Len(s) = o[Len(cs)]
    <2>1. Len(cs) \in 0..(Len(bs) + 1) /\ Len(cs) > c /\ Len(cs) - 1 = Len(bs)
      BY <1>1, <1>4
    <2> QED
      BY <2>1, <1>8, <1>11, <1>13
  <1>17. \A a, n, z \in Nat : \A k \in 1..n : a + n <= z => a + k \in 1..(z + 1) /\ a + k <= a + n
    OBVIOUS
  <1>18. ASSUME NEW i \in 1..Len(cs), NEW k \in 1..Len(cs[i].items)
         PROVE  s[o[i - 1] + k] = cs[i].items[k]
    <2>1. CASE i <= c
      <3>1. i \in 1..Len(bs) /\ cs[i] = bs[i] /\ i - 1 \in 0..(Len(bs) + 1) /\ i - 1 <= c
        BY <2>1, <1>1, <1>4
      <3>2. o[i - 1] = ItemsBefore(bs, i - 1) /\ k \in 1..Len(bs[i].items)
        BY <3>1, <1>13
      <3>3. ItemsBefore(bs, i) <= m
        BY <3>1, <1>14, <2>1, SumGrows DEF m
      <3>4. o[i - 1] + k \in 1..(Len(q) + 1) /\ o[i - 1] + k <= ItemsBefore(bs, i)
        <4>1. k \in 1..Len(bs[i].items)
          BY <3>2
        <4>2. /\ ItemsBefore(bs, i - 1) \in Nat /\ Len(bs[i].items) \in Nat
              /\ ItemsBefore(bs, i) = ItemsBefore(bs, i - 1) + Len(bs[i].items)
              /\ ItemsBefore(bs, i - 1) + Len(bs[i].items) <= Len(q)
          BY <3>1, <1>14
        <4>3. /\ ItemsBefore(bs, i - 1) + k \in 1..(Len(q) + 1)
              /\ ItemsBefore(bs, i - 1) + k <= ItemsBefore(bs, i - 1) + Len(bs[i].items)
          BY <4>1, <4>2, <1>10, <1>17
        <4> QED
          BY <4>2, <4>3, <3>2
      <3>5. o[i - 1] + k <= m
        <4>1. ItemsBefore(bs, i) \in Nat
          <5>1. i \in 0..Len(bs)
            BY <3>1, <1>14
          <5> QED
            BY <5>1, <1>1
        <4>2. \A u \in 1..(Len(q) + 1) : \A v \in Nat : u <= v /\ v <= m => u <= m
          BY <1>10
        <4> QED
          BY <4>1, <4>2, <3>3, <3>4
      <3>6. s[o[i - 1] + k] = q[o[i - 1] + k]
        BY <3>4, <3>5, <1>11
      <3>7. q[ItemsBefore(bs, i - 1) + k] = bs[i].items[k]
        BY <3>1, <3>2, FlatIs DEF Stands, q
      <3> QED
        BY <3>1, <3>2, <3>6, <3>7
    <2>2. CASE i = c + 1
      <3>1. cs[i] = new /\ i - 1 = c /\ c \in 0..(Len(bs) + 1) /\ k = 1
        <4>1. cs[i] = new
          BY <2>2, <1>4
        <4>2. k \in 1..1
          BY <4>1, <1>3
        <4>3. k = 1
          BY <4>2
        <4>4. i - 1 = c /\ c \in 0..(Len(bs) + 1)
          BY <2>2, <1>1
        <4> QED
          BY <4>1, <4>3, <4>4
      <3>2. o[i - 1] + k = m + 1
        BY <3>1, <1>13 DEF m
      <3>3. m + 1 \in 1..(Len(q) + 1) /\ ~(m + 1 <= m)
        BY <1>10
      <3> QED
        BY <3>1, <3>2, <3>3, <1>3, <1>11
    <2>3. CASE i > c + 1
      <3> DEFINE j == i - 1
      <3>1. j \in 1..Len(bs) /\ cs[i] = bs[j] /\ j \in 0..(Len(bs) + 1) /\ j > c /\ c <= j - 1
        BY <2>3, <1>1, <1>4
      <3> HIDE DEF j
      <3>2. o[j] = ItemsBefore(bs, j - 1) + 1 /\ k \in 1..Len(bs[j].items)
        BY <3>1, <1>13
      <3>3. m <= ItemsBefore(bs, j - 1)
        BY <3>1, <1>14, SumGrows DEF m
      <3>4. ItemsBefore(bs, j - 1) + k \in 1..(Len(q) + 1) /\ ItemsBefore(bs, j - 1) + k <= Len(q)
        <4>1. k \in 1..Len(bs[j].items)
          BY <3>2
        <4>2. /\ ItemsBefore(bs, j - 1) \in Nat /\ Len(bs[j].items) \in Nat
              /\ ItemsBefore(bs, j - 1) + Len(bs[j].items) <= Len(q)
          BY <3>1, <1>14
        <4>3. /\ ItemsBefore(bs, j - 1) + k \in 1..(Len(q) + 1)
              /\ ItemsBefore(bs, j - 1) + k <= ItemsBefore(bs, j - 1) + Len(bs[j].items)
          BY <4>1, <4>2, <1>10, <1>17
        <4>4. \A u \in 1..(Len(q) + 1) : \A a, l \in Nat : u <= a + l /\ a + l <= Len(q) => u <= Len(q)
          BY <1>10
        <4> QED
          BY <4>2, <4>3, <4>4
      <3>5. \A a \in Nat : m <= a /\ a + k <= Len(q) =>
               /\ (a + 1) + k \in 1..(Len(q) + 1) /\ ~((a + 1) + k <= m) /\ (a + 1) + k # m + 1
               /\ ((a + 1) + k) - 1 = a + k
        BY <3>2, <1>10
      <3>6. ItemsBefore(bs, j - 1) + k <= Len(q) /\ ItemsBefore(bs, j - 1) \in Nat
        BY <3>1, <3>4, <1>10, <1>14
      <3>7. /\ o[j] + k \in 1..(Len(q) + 1) /\ ~(o[j] + k <= m) /\ o[j] + k # m + 1
            /\ (o[j] + k) - 1 = ItemsBefore(bs, j - 1) + k
        BY <3>2, <3>3, <3>5, <3>6
      <3>8. s[o[j] + k] = q[ItemsBefore(bs, j - 1) + k]
        BY <3>7, <1>11
      <3>9. q[ItemsBefore(bs, j - 1) + k] = bs[j].items[k]
        BY <3>1, <3>2, FlatIs DEF Stands, q
      <3> QED
        BY <3>1, <3>8, <3>9 DEF j
    <2> QED
      BY <2>1, <2>2, <2>3
  <1>19. FlatOf(cs) = s /\ \A i \in 0..Len(cs) : ItemsBefore(cs, i) = o[i]
    BY <1>4, <1>11, <1>12, <1>15, <1>16, <1>18, FlatUnique
  <1>20. PositionIn(cs, c) = m
    <2>1. ItemsBefore(cs, c) = m /\ c \in 0..Len(cs)
      BY <1>1, <1>4, <1>13, <1>19 DEF m
    <2>2. Len(cs[c + 1].items) = 1
      BY <1>3, <1>4
    <2> QED
      BY <2>1, <2>2, <1>10 DEF PositionIn
  <1> QED
    BY <1>4, <1>5, <1>6, <1>7, <1>9, <1>19, <1>20 DEF q, s

\* The first item of the first bucket is the first one of the queue.
LEMMA PopIs ==
    ASSUME NEW bs \in Seq(Bucket), Sorted(bs), Filled(bs), bs # <<>>,
           NEW cs, cs = PopFirst(bs)
    PROVE  /\ cs \in Seq(Bucket) /\ Len(cs) <= Len(bs) /\ Sorted(cs) /\ Filled(cs)
           /\ FlatOf(bs) # <<>> /\ bs[1].items[1] = Head(FlatOf(bs))
           /\ FlatOf(cs) = Tail(FlatOf(bs))
  <1> DEFINE q == FlatOf(bs)
             s == Tail(q)
             n == Len(bs[1].items)
  <1>1. Len(bs) \in Nat /\ 1 \in 1..Len(bs) /\ \A i \in 0..Len(bs) : ItemsBefore(bs, i) \in Nat
    BY SumIs
  <1>2. bs[1] \in Bucket /\ bs[1].items \in Seq(Items) /\ n \in Nat /\ n >= 1
    <2>1. bs[1].items # <<>> /\ bs[1].items \in Seq(Items) /\ bs[1] \in Bucket
      BY <1>1, ItemsAreSeqs DEF Filled
    <2> QED
      BY <2>1
  <1>3. \A i \in 1..Len(bs) :
            /\ i \in 0..Len(bs) /\ i - 1 \in 0..Len(bs)
            /\ ItemsBefore(bs, i) = ItemsBefore(bs, i - 1) + Len(bs[i].items)
            /\ ItemsBefore(bs, i - 1) \in Nat /\ Len(bs[i].items) \in Nat
            /\ ItemsBefore(bs, i) >= n
    <2> TAKE i \in 1..Len(bs)
    <2>1. i \in 0..Len(bs) /\ i - 1 \in 0..Len(bs) /\ 1 \in 0..Len(bs) /\ 1 <= i
      BY <1>1
    <2>2. ItemsBefore(bs, 1) <= ItemsBefore(bs, i)
      BY <2>1, SumGrows
    <2>3. ItemsBefore(bs, 1) = n
      <3>1. ItemsBefore(bs, 1) = ItemsBefore(bs, 1 - 1) + Len(bs[1].items) /\ ItemsBefore(bs, 0) = 0
        BY <1>1, SumIs
      <3> QED
        BY <3>1, <1>2
    <2>4. ItemsBefore(bs, i) = ItemsBefore(bs, i - 1) + Len(bs[i].items) /\ Len(bs[i].items) \in Nat
      BY SumIs, ItemsAreSeqs
    <2> QED
      BY <2>1, <2>2, <2>3, <2>4, <1>1, <1>2
  <1>4. /\ q \in Seq(Items) /\ Len(q) = ItemsBefore(bs, Len(bs)) /\ Len(q) \in Nat /\ Len(q) >= 1
        /\ \A i \in 1..Len(bs) : \A k \in 1..Len(bs[i].items) :
              q[ItemsBefore(bs, i - 1) + k] = bs[i].items[k]
    <2>1. Len(bs) \in 1..Len(bs)
      BY <1>1
    <2>2. ItemsBefore(bs, Len(bs)) \in Nat /\ ItemsBefore(bs, Len(bs)) >= 1
      BY <2>1, <1>1, <1>2, <1>3
    <2> QED
      BY <2>2, FlatIs DEF Stands
  <1>5. q # <<>> /\ bs[1].items[1] = Head(q)
    <2>1. q[ItemsBefore(bs, 1 - 1) + 1] = bs[1].items[1]
      BY <1>1, <1>2, <1>4
    <2>2. ItemsBefore(bs, 1 - 1) + 1 = 1
      BY SumIs
    <2>3. q # <<>> /\ Head(q) = q[1]
      BY <1>4
    <2> QED
      BY <2>1, <2>2, <2>3
  <1>6. s \in Seq(Items) /\ Len(s) = Len(q) - 1 /\ \A i \in 1..(Len(q) - 1) : s[i] = q[i + 1]
    BY <1>4
  <1> HIDE DEF q, s
  <1>7. CASE n = 1
    <2> DEFINE o == [i \in 0..(Len(bs) - 1) |-> ItemsBefore(bs, i + 1) - 1]
    <2>1. cs = Tail(bs)
      BY <1>7 DEF PopFirst
    <2>2. /\ cs \in Seq(Bucket) /\ Len(cs) = Len(bs) - 1
          /\ \A i \in 1..Len(cs) : i + 1 \in 1..Len(bs) /\ cs[i] = bs[i + 1]
      BY <2>1, <1>1
    <2>3. Sorted(cs) /\ Filled(cs)
      <3>1. ASSUME NEW i \in 1..Len(cs), NEW j \in 1..Len(cs), i < j
            PROVE  cs[i].priority > cs[j].priority
        <4>1. i + 1 \in 1..Len(bs) /\ j + 1 \in 1..Len(bs) /\ cs[i] = bs[i + 1] /\ cs[j] = bs[j + 1]
          BY <2>2
        <4>2. i + 1 < j + 1
          BY <3>1, <2>2
        <4> QED
          BY <4>1, <4>2 DEF Sorted
      <3>2. Filled(cs)
        BY <2>2, SMTT(30) DEF Filled
      <3> QED
        BY <3>1, <3>2 DEF Sorted
    <2>4. o \in [0..Len(cs) -> Nat] /\ o[0] = 0
      <3>1. \A i \in 0..(Len(bs) - 1) : ItemsBefore(bs, i + 1) - 1 \in Nat
        <4> TAKE i \in 0..(Len(bs) - 1)
        <4>1. i + 1 \in 1..Len(bs)
          BY <1>1
        <4>2. ItemsBefore(bs, i + 1) \in Nat /\ ItemsBefore(bs, i + 1) >= 1
          BY <4>1, <1>1, <1>2, <1>3
        <4> QED
          BY <4>2
      <3>2. ItemsBefore(bs, 1) = ItemsBefore(bs, 1 - 1) + Len(bs[1].items) /\ ItemsBefore(bs, 0) = 0
        BY <1>1, SumIs
      <3>3. o[0] = 0
        BY <3>2, <1>1, <1>7
      <3> QED
        BY <3>1, <3>3, <2>2
    <2>5. \A i \in 0..Len(cs) : o[i] = ItemsBefore(bs, i + 1) - 1
      BY <2>2
    <2> HIDE DEF o
    <2>6. ASSUME NEW i \in 1..Len(cs)
          PROVE  /\ o[i - 1] = ItemsBefore(bs, i) - 1 /\ o[i] = o[i - 1] + Len(cs[i].items)
                 /\ \A k \in 1..Len(cs[i].items) : s[o[i - 1] + k] = cs[i].items[k]
      <3>1. i + 1 \in 1..Len(bs) /\ i \in 1..Len(bs) /\ i - 1 \in 0..Len(cs) /\ i \in 0..Len(cs) /\ (i - 1) + 1 = i /\ (i + 1) - 1 = i
        BY <2>2, <1>1
      <3>2. o[i - 1] = ItemsBefore(bs, i) - 1 /\ o[i] = ItemsBefore(bs, i + 1) - 1
        BY <3>1, <2>5
      <3>3. /\ ItemsBefore(bs, i + 1) = ItemsBefore(bs, i) + Len(bs[i + 1].items)
            /\ ItemsBefore(bs, i) \in Nat /\ Len(bs[i + 1].items) \in Nat /\ ItemsBefore(bs, i) >= 1
        BY <3>1, <1>2, <1>3
      <3>4. ASSUME NEW k \in 1..Len(cs[i].items)
            PROVE  s[o[i - 1] + k] = cs[i].items[k]
        <4>1. k \in 1..Len(bs[i + 1].items) /\ cs[i] = bs[i + 1]
          BY <2>2
        <4>2. q[ItemsBefore(bs, i) + k] = bs[i + 1].items[k]
          BY <3>1, <4>1, <1>4
        <4>3. ItemsBefore(bs, i + 1) <= Len(q)
          <5>1. Len(bs) \in 0..Len(bs) /\ i + 1 <= Len(bs) /\ i + 1 \in 0..Len(bs)
            BY <3>1, <1>1
          <5> QED
            BY <5>1, <1>4, SumGrows
        <4>4. \A a, l, z \in Nat : a >= 1 /\ a + l <= z =>
                 \A j \in 1..l : (a - 1) + j \in 1..(z - 1) /\ ((a - 1) + j) + 1 = a + j
          OBVIOUS
        <4>5. k \in 1..Len(bs[i + 1].items)
          BY <4>1
        <4>6. Len(q) \in Nat /\ ItemsBefore(bs, i) + Len(bs[i + 1].items) <= Len(q)
          BY <3>3, <4>3, <1>4
        <4>7. ItemsBefore(bs, i) \in Nat /\ ItemsBefore(bs, i) >= 1 /\ Len(bs[i + 1].items) \in Nat
          BY <3>3
        <4>8. /\ (ItemsBefore(bs, i) - 1) + k \in 1..(Len(q) - 1)
              /\ ((ItemsBefore(bs, i) - 1) + k) + 1 = ItemsBefore(bs, i) + k
          BY <4>4, <4>5, <4>6, <4>7, SMTT(30)
        <4>9. o[i - 1] + k \in 1..(Len(q) - 1) /\ (o[i - 1] + k) + 1 = ItemsBefore(bs, i) + k
          BY <3>2, <4>8
        <4> QED
          BY <4>1, <4>2, <4>9, <1>6
      <3> QED
        BY <3>2, <3>3, <3>4, <2>2
    <2>7. Len(s) = o[Len(cs)]
      <3>1. Len(cs) \in 0..Len(cs) /\ Len(cs) + 1 = Len(bs)
        BY <2>2, <1>1
      <3> QED
        BY <3>1, <2>5, <1>4, <1>6
    <2>8. FlatOf(cs) = s
      BY <2>2, <2>4, <2>6, <2>7, <1>6, FlatUnique
    <2> QED
      BY <2>2, <2>3, <2>8, <1>1, <1>5 DEF q, s
  <1>8. CASE n # 1
    <2> DEFINE o == [i \in 0..Len(bs) |-> IF i = 0 THEN 0 ELSE ItemsBefore(bs, i) - 1]
               r == [bs[1] EXCEPT !.items = Tail(@)]
    <2>1. cs = [bs EXCEPT ![1] = r]
      BY <1>8 DEF PopFirst
    <2>2. /\ r \in Bucket /\ r.priority = bs[1].priority /\ r.items \in Seq(Items)
          /\ Len(r.items) = n - 1 /\ r.items # <<>>
          /\ \A k \in 1..(n - 1) : r.items[k] = bs[1].items[k + 1]
      <3>1. /\ Tail(bs[1].items) \in Seq(Items) /\ Len(Tail(bs[1].items)) = n - 1
            /\ \A k \in 1..(n - 1) : Tail(bs[1].items)[k] = bs[1].items[k + 1]
        BY <1>2
      <3>2. Tail(bs[1].items) # <<>>
        <4>1. Len(Tail(bs[1].items)) # 0
          BY <3>1, <1>2, <1>8
        <4>2. Len(<<>>) = 0
          OBVIOUS
        <4> HIDE <3>1
        <4> QED
          BY <4>1, <4>2
      <3> QED
        BY <3>1, <3>2, <1>2 DEF Bucket
    <2> HIDE DEF r
    <2>3. /\ cs \in Seq(Bucket) /\ Len(cs) = Len(bs) /\ cs[1] = r
          /\ \A i \in 1..Len(bs) : i # 1 => cs[i] = bs[i]
      BY <2>1, <2>2, <1>1
    <2>4. Sorted(cs)
      <3>1. \A i \in 1..Len(bs) : cs[i].priority = bs[i].priority
        BY <2>2, <2>3
      <3> QED
        BY <3>1, <2>3 DEF Sorted
    <2>5. Filled(cs)
      <3>1. \A k \in 1..Len(r.items) : Prio[r.items[k]] = r.priority
        <4> TAKE k \in 1..Len(r.items)
        <4>1. k + 1 \in 1..n /\ r.items[k] = bs[1].items[k + 1]
          BY <2>2, <1>2
        <4> QED
          BY <4>1, <2>2, <1>1 DEF Filled
      <3>2. r.items # <<>>
        BY <2>2
      <3> QED
        BY <3>1, <3>2, <2>3 DEF Filled
    <2>6. o \in [0..Len(cs) -> Nat] /\ o[0] = 0
      <3>1. \A i \in 0..Len(bs) : i # 0 => ItemsBefore(bs, i) - 1 \in Nat
        <4> TAKE i \in 0..Len(bs)
        <4> HAVE i # 0
        <4>1. i \in 1..Len(bs)
          BY <1>1
        <4>2. ItemsBefore(bs, i) \in Nat /\ ItemsBefore(bs, i) >= 1
          BY <4>1, <1>1, <1>2, <1>3
        <4> QED
          BY <4>2
      <3> QED
        BY <3>1, <2>3, <1>1
    <2>7. \A i \in 0..Len(cs) : i # 0 => o[i] = ItemsBefore(bs, i) - 1
      BY <2>3
    <2> HIDE DEF o
    <2>8. ASSUME NEW i \in 1..Len(cs)
          PROVE  /\ o[i] = o[i - 1] + Len(cs[i].items)
                 /\ \A k \in 1..Len(cs[i].items) : s[o[i - 1] + k] = cs[i].items[k]
      <3>1. CASE i = 1
        <4>1. cs[i] = r /\ o[i - 1] = 0 /\ ItemsBefore(bs, i) = n /\ i \in 0..Len(cs)
          <5>1. ItemsBefore(bs, 1) = ItemsBefore(bs, 1 - 1) + Len(bs[1].items) /\ ItemsBefore(bs, 1 - 1) = 0
            BY <1>1, SumIs
          <5> QED
            BY <5>1, <3>1, <2>3, <2>6, <1>1, <1>2
        <4>2. o[i] = n - 1
          BY <4>1, <3>1, <2>7
        <4>3. ASSUME NEW k \in 1..(n - 1)
              PROVE  s[0 + k] = r.items[k]
          <5>1. n <= Len(q)
            BY <1>1, <1>3, <1>4
          <5>2. k \in 1..(Len(q) - 1) /\ k + 1 \in 1..n /\ 0 + k = k
            BY <5>1, <1>2, <1>4
          <5>3. q[ItemsBefore(bs, 1 - 1) + (k + 1)] = bs[1].items[k + 1]
            BY <5>2, <1>1, <1>4
          <5>4. ItemsBefore(bs, 1 - 1) + (k + 1) = k + 1
            BY <5>2, SumIs
          <5> QED
            BY <5>2, <5>3, <5>4, <2>2, <1>6
        <4> QED
          BY <4>1, <4>2, <4>3, <2>2, <1>2
      <3>2. CASE i # 1
        <4>1. /\ i \in 1..Len(bs) /\ cs[i] = bs[i] /\ i \in 0..Len(cs) /\ i # 0
              /\ i - 1 \in 0..Len(cs) /\ i - 1 # 0 /\ i - 1 \in 1..Len(bs)
          BY <3>2, <2>3, <1>1
        <4>2. o[i] = ItemsBefore(bs, i) - 1 /\ o[i - 1] = ItemsBefore(bs, i - 1) - 1
          BY <4>1, <2>7
        <4>3. /\ ItemsBefore(bs, i) = ItemsBefore(bs, i - 1) + Len(bs[i].items)
              /\ ItemsBefore(bs, i - 1) \in Nat /\ Len(bs[i].items) \in Nat /\ ItemsBefore(bs, i - 1) >= 1
          BY <4>1, <1>2, <1>3
        <4>4. ASSUME NEW k \in 1..Len(bs[i].items)
              PROVE  s[o[i - 1] + k] = bs[i].items[k]
          <5>1. q[ItemsBefore(bs, i - 1) + k] = bs[i].items[k]
            BY <4>1, <1>4
          <5>2. ItemsBefore(bs, i) <= Len(q)
            <6>1. Len(bs) \in 0..Len(bs) /\ i <= Len(bs) /\ i \in 0..Len(bs)
              BY <4>1, <1>1
            <6> QED
              BY <6>1, <1>4, SumGrows
          <5>3. \A a, l, z \in Nat : a >= 1 /\ a + l <= z =>
                   \A j \in 1..l : (a - 1) + j \in 1..(z - 1) /\ ((a - 1) + j) + 1 = a + j
            OBVIOUS
          <5>4. o[i - 1] + k \in 1..(Len(q) - 1) /\ (o[i - 1] + k) + 1 = ItemsBefore(bs, i - 1) + k
            BY <4>2, <4>3, <5>2, <5>3, <1>4, SMTT(30)
          <5> QED
            BY <5>1, <5>4, <1>6
        <4> QED
          BY <4>1, <4>2, <4>3, <4>4
      <3> QED
        BY <3>1, <3>2
    <2>9. Len(s) = o[Len(cs)]
      <3>1. Len(cs) \in 0..Len(cs) /\ Len(cs) = Len(bs) /\ Len(cs) # 0
        BY <2>3, <1>1
      <3> QED
        BY <3>1, <2>7, <1>4, <1>6
    <2>10. FlatOf(cs) = s
      BY <2>3, <2>6, <2>8, <2>9, <1>6, FlatUnique
    <2> QED
      BY <2>3, <2>4, <2>5, <2>10, <1>1, <1>5 DEF q, s
  <1> QED
    BY <1>7, <1>8

\* ucb_pqueue_push puts the item where the queue wants it.
Pushed(bs, cs, x, idx) ==
    /\ cs \in Seq(Bucket) /\ Sorted(cs) /\ Filled(cs)
    /\ FlatOf(cs) = Insert(FlatOf(bs), x, Prio)
    /\ PositionIn(cs, idx) = InsertPosition(FlatOf(bs), Prio[x], Prio)

LEMMA PushIs ==
    ASSUME NEW bs \in Seq(Bucket), Sorted(bs), Filled(bs), NEW x \in Items,
           NEW idx, idx = Search(bs, Prio[x])
    PROVE  /\ idx >= 0 => /\ Pushed(bs, WithLast(bs, idx + 1, x), x, idx)
                          /\ Len(WithLast(bs, idx + 1, x)) = Len(bs)
           /\ idx < 0  => /\ Pushed(bs, InsertBucket(bs, -idx - 1, x), x, -idx - 1)
                          /\ Len(InsertBucket(bs, -idx - 1, x)) = Len(bs) + 1
  <1>1. Prio[x] \in Int
    BY PrioAssumption
  <1>2. Finds(bs, Prio[x], idx)
    BY <1>1, SearchFinds
  <1>3. CASE idx \in 0..(Len(bs) - 1) /\ bs[idx + 1].priority = Prio[x]
    <2> DEFINE b == idx + 1
               cs == WithLast(bs, b, x)
    <2>1. b \in 1..Len(bs) /\ b - 1 = idx /\ ~(idx < 0) /\ bs[b].priority = Prio[x]
      BY <1>3
    <2> HIDE DEF b
    <2>2. /\ cs \in Seq(Bucket) /\ Len(cs) = Len(bs) /\ Sorted(cs) /\ Filled(cs)
          /\ FlatOf(cs) = Insert(FlatOf(bs), x, Prio)
          /\ PositionIn(cs, b - 1) = InsertPosition(FlatOf(bs), Prio[x], Prio)
      BY <2>1, AppendIs
    <2> QED
      BY <2>1, <2>2 DEF Pushed, b
  <1>4. CASE \E pos \in 0..Len(bs) : idx = -(pos + 1) /\ Divides(bs, pos, Prio[x])
    <2>1. PICK pos \in 0..Len(bs) : idx = -(pos + 1) /\ Divides(bs, pos, Prio[x])
      BY <1>4
    <2> DEFINE cs == InsertBucket(bs, pos, x)
    <2>2. ~(idx >= 0) /\ -idx - 1 = pos
      BY <2>1
    <2>3. /\ cs \in Seq(Bucket) /\ Len(cs) = Len(bs) + 1 /\ Sorted(cs) /\ Filled(cs)
          /\ FlatOf(cs) = Insert(FlatOf(bs), x, Prio)
          /\ PositionIn(cs, pos) = InsertPosition(FlatOf(bs), Prio[x], Prio)
      BY <2>1, InsertIs
    <2> QED
      BY <2>2, <2>3 DEF Pushed
  <1> QED
    BY <1>2, <1>3, <1>4 DEF Finds

\* The buckets are empty when the queue is.
LEMMA FlatEmpty ==
    ASSUME NEW bs \in Seq(Bucket), Filled(bs)
    PROVE  /\ FlatOf(bs) \in Seq(Items) /\ Len(FlatOf(bs)) = NumItems(bs)
           /\ bs = <<>> <=> FlatOf(bs) = <<>>
  <1>1. FlatOf(bs) \in Seq(Items) /\ Len(FlatOf(bs)) = ItemsBefore(bs, Len(bs))
    BY FlatIs DEF Stands
  <1>2. CASE bs = <<>>
    <2>1. Len(bs) = 0
      BY <1>2
    <2>2. Len(FlatOf(bs)) = 0
      BY <2>1, <1>1, SumIs
    <2>3. FlatOf(bs) = <<>>
      BY <2>2, <1>1
    <2> QED
      BY <1>1, <1>2, <2>3 DEF NumItems
  <1>3. CASE bs # <<>>
    <2>1. 1 \in 1..Len(bs) /\ 1 \in 0..Len(bs) /\ Len(bs) \in 0..Len(bs) /\ 1 <= Len(bs)
      BY <1>3
    <2>2. Len(bs[1].items) \in Nat /\ Len(bs[1].items) # 0
      BY <2>1, ItemsAreSeqs DEF Filled
    <2>3. ItemsBefore(bs, 1) = ItemsBefore(bs, 1 - 1) + Len(bs[1].items) /\ ItemsBefore(bs, 0) = 0
      BY <2>1, SumIs
    <2>4. ItemsBefore(bs, 1) <= ItemsBefore(bs, Len(bs)) /\ ItemsBefore(bs, Len(bs)) \in Nat
      BY <2>1, SumIs, SumGrows
    <2>5. Len(FlatOf(bs)) # 0
      BY <2>2, <2>3, <2>4, <1>1
    <2>6. FlatOf(bs) # <<>>
      BY <2>5
    <2> QED
      BY <1>1, <1>3, <2>6 DEF NumItems
  <1> QED
    BY <1>2, <1>3

-----------------------------------------------------------------------------
(* Whose the items are.                                                    *)

Holds(q, x) == \E n \in 1..Len(q) : q[n] = x
Distinct(q) == \A m, n \in 1..Len(q) : q[m] = q[n] => m = n

LEMMA InsertPutsIn ==
    ASSUME NEW q \in Seq(Items), NEW x \in Items
    PROVE  /\ InsertPosition(q, Prio[x], Prio) \in 0..Len(q)
           /\ Insert(q, x, Prio) = PutIn(q, x, InsertPosition(q, Prio[x], Prio))
  <1> DEFINE ahead == {i \in 1..Len(q) : Prio[q[i]] >= Prio[x]}
  <1>1. Len(q) \in Nat /\ IsFiniteSet(1..Len(q)) /\ Cardinality(1..Len(q)) = Len(q)
    <2>1. \A n \in Nat : IsFiniteSet(1..n) /\ Cardinality(1..n) = n
      BY FS_Interval
    <2> QED
      BY <2>1
  <1>2. ahead \in SUBSET (1..Len(q))
    OBVIOUS
  <1>3. IsFiniteSet(ahead) /\ Cardinality(ahead) <= Len(q)
    BY <1>1, <1>2, FS_Subset
  <1>4. Cardinality(ahead) \in Nat
    BY <1>3, FS_CardinalityType
  <1> QED
    BY <1>1, <1>3, <1>4 DEF InsertPosition, Insert, PutIn

\* A push adds the item once, a pop takes the first one out.
LEMMA InsertHolds ==
    ASSUME NEW q \in Seq(Items), NEW x \in Items, Distinct(q), ~Holds(q, x)
    PROVE  /\ Insert(q, x, Prio) \in Seq(Items) /\ Distinct(Insert(q, x, Prio))
           /\ \A y : Holds(Insert(q, x, Prio), y) <=> Holds(q, y) \/ y = x
  <1> DEFINE pos == InsertPosition(q, Prio[x], Prio)
             s == PutIn(q, x, pos)
             From(i) == IF i <= pos THEN i ELSE i - 1
  <1>1. Len(q) \in Nat /\ pos \in 0..Len(q) /\ Insert(q, x, Prio) = s
    BY InsertPutsIn
  <1> HIDE DEF pos
  <1>2. /\ s \in Seq(Items) /\ Len(s) = Len(q) + 1
        /\ \A i \in 1..(Len(q) + 1) : s[i] = IF i <= pos THEN q[i] ELSE IF i = pos + 1 THEN x ELSE q[i - 1]
    BY <1>1, PutInIs
  <1> HIDE DEF s
  <1>3. /\ pos + 1 \in 1..Len(s) /\ s[pos + 1] = x
    BY <1>1, <1>2
  <1>4. ASSUME NEW i \in 1..Len(s), i # pos + 1
        PROVE  From(i) \in 1..Len(q) /\ s[i] = q[From(i)] /\ s[i] # x
    <2>1. From(i) \in 1..Len(q) /\ i \in 1..(Len(q) + 1)
      BY <1>1, <1>2, <1>4
    <2>2. s[i] = q[From(i)]
      BY <2>1, <1>2, <1>4
    <2> QED
      BY <2>1, <2>2 DEF Holds
  <1>5. Distinct(s)
    <2> SUFFICES ASSUME NEW m \in 1..Len(s), NEW n \in 1..Len(s), s[m] = s[n]
                 PROVE  m = n
      BY DEF Distinct
    <2>1. CASE m = pos + 1 \/ n = pos + 1
      BY <2>1, <1>3, <1>4
    <2>2. CASE m # pos + 1 /\ n # pos + 1
      <3>1. From(m) = From(n)
        <4> HIDE DEF From
        <4> QED
          BY <2>2, <1>4 DEF Distinct
      <3>2. m \in Nat /\ n \in Nat /\ pos \in Nat
        BY <1>1, <1>2
      <3> QED
        BY <3>1, <3>2, <2>2
    <2> QED
      BY <2>1, <2>2
  <1>6. ASSUME NEW y
        PROVE  Holds(s, y) <=> Holds(q, y) \/ y = x
    <2>1. ASSUME Holds(s, y)
          PROVE  Holds(q, y) \/ y = x
      BY <2>1, <1>3, <1>4 DEF Holds
    <2>2. ASSUME y = x
          PROVE  Holds(s, y)
      BY <2>2, <1>3 DEF Holds
    <2>3. ASSUME Holds(q, y)
          PROVE  Holds(s, y)
      <3>1. PICK n \in 1..Len(q) : q[n] = y
        BY <2>3 DEF Holds
      <3>2. CASE n <= pos
        <4>1. n \in 1..(Len(q) + 1)
          BY <1>1
        <4> QED
          BY <4>1, <3>1, <3>2, <1>2 DEF Holds
      <3>3. CASE ~(n <= pos)
        <4>1. n + 1 \in 1..(Len(q) + 1) /\ ~(n + 1 <= pos) /\ n + 1 # pos + 1 /\ (n + 1) - 1 = n
          BY <3>3, <1>1
        <4> QED
          BY <4>1, <3>1, <1>2 DEF Holds
      <3> QED
        BY <3>2, <3>3
    <2> QED
      BY <2>1, <2>2, <2>3
  <1> QED
    BY <1>1, <1>2, <1>5, <1>6

LEMMA TailHolds ==
    ASSUME NEW q \in Seq(Items), q # <<>>, Distinct(q)
    PROVE  /\ Tail(q) \in Seq(Items) /\ Head(q) \in Items /\ Distinct(Tail(q)) /\ Holds(q, Head(q))
           /\ \A y : Holds(Tail(q), y) <=> Holds(q, y) /\ y # Head(q)
  <1> DEFINE s == Tail(q)
  <1>1. /\ s \in Seq(Items) /\ Len(q) \in Nat /\ Len(q) >= 1 /\ Len(s) = Len(q) - 1
        /\ Head(q) = q[1] /\ q[1] \in Items
        /\ \A i \in 1..Len(s) : s[i] = q[i + 1]
    OBVIOUS
  <1> HIDE DEF s
  <1>2. \A i \in 1..Len(s) : i + 1 \in 1..Len(q) /\ i + 1 # 1
    BY <1>1
  <1>3. 1 \in 1..Len(q)
    BY <1>1
  <1>4. Distinct(s)
    <2> SUFFICES ASSUME NEW m \in 1..Len(s), NEW n \in 1..Len(s), s[m] = s[n]
                 PROVE  m = n
      BY DEF Distinct
    <2>1. m + 1 = n + 1
      BY <1>1, <1>2 DEF Distinct
    <2> QED
      BY <2>1, <1>1
  <1>5. ASSUME NEW y
        PROVE  Holds(s, y) <=> Holds(q, y) /\ y # q[1]
    <2>1. ASSUME Holds(s, y)
          PROVE  Holds(q, y) /\ y # q[1]
      <3>1. PICK i \in 1..Len(s) : s[i] = y
        BY <2>1 DEF Holds
      <3>2. q[i + 1] = y /\ i + 1 \in 1..Len(q) /\ i + 1 # 1
        BY <3>1, <1>1, <1>2
      <3>3. q[1] # y
        BY <3>2, <1>3 DEF Distinct
      <3> QED
        BY <3>2, <3>3 DEF Holds
    <2>2. ASSUME Holds(q, y), y # q[1]
          PROVE  Holds(s, y)
      <3>1. PICK n \in 1..Len(q) : q[n] = y
        BY <2>2 DEF Holds
      <3>2. n # 1
        BY <3>1, <2>2
      <3>3. n - 1 \in 1..Len(s) /\ (n - 1) + 1 = n
        BY <3>2, <1>1
      <3> QED
        BY <3>1, <3>3, <1>1 DEF Holds
    <2> QED
      BY <2>1, <2>2
  <1> QED
    BY <1>1, <1>3, <1>4, <1>5 DEF s, Holds

-----------------------------------------------------------------------------
(* The invariant.                                                          *)

Types ==
    /\ buckets \in Seq(Bucket)
    /\ alloc_buckets \in Nat /\ alloc_buckets >= InitialBuckets
    /\ array_freed \in BOOLEAN
    /\ mutex \in Threads \cup {Free}
    /\ pc \in [Threads -> {"out", "lock", "in", "undefined"}]
    /\ call \in [Threads -> Calls \cup {Idle}]
    /\ where \in [Items -> {"caller", "queue", "freed"}]

Shape == Sorted(buckets) /\ Filled(buckets) /\ Len(buckets) <= alloc_buckets

\* The queue holds every item once that it is said to have, and no other.
Once ==
    /\ Distinct(Flat)
    /\ \A x \in Items : Holds(Flat, x) <=> where[x] = "queue"

\* An item that is being pushed is still the caller's, and nobody else pushes it.
Pushing ==
    /\ \A t \in Threads : pc[t] = "out" => call[t] = Idle
    /\ \A t \in Threads : call[t].op = "push" => where[call[t].item] = "caller"
    /\ \A t, u \in Threads :
          call[t].op = "push" /\ call[u].op = "push" /\ call[t].item = call[u].item => t = u

Inv == Types /\ Shape /\ Once /\ Pushing

LEMMA CallHasItem ==
    ASSUME Types, NEW t \in Threads, call[t].op = "push"
    PROVE  call[t].item \in Items
  <1>1. call[t] \in Calls \cup {Idle}
    BY DEF Types
  <1> QED
    BY <1>1 DEF Calls, Idle

LEMMA InitInv ==
    ASSUME Init
    PROVE  Inv
  <1>1. buckets = <<>> /\ buckets \in Seq(Bucket) /\ Len(buckets) = 0
    BY DEF Init
  <1>2. Types
    <2>1. alloc_buckets \in Nat /\ alloc_buckets >= InitialBuckets
      BY InitialBucketsAssumption DEF Init
    <2>2. array_freed \in BOOLEAN /\ mutex \in Threads \cup {Free}
      BY DEF Init
    <2>3. pc \in [Threads -> {"out", "lock", "in", "undefined"}] /\ where \in [Items -> {"caller", "queue", "freed"}]
      BY DEF Init
    <2>4. call \in [Threads -> Calls \cup {Idle}]
      BY DEF Init
    <2> QED
      BY <1>1, <2>1, <2>2, <2>3, <2>4 DEF Types
  <1>3. Shape
    BY <1>1, <1>2 DEF Shape, Types, Sorted, Filled
  <1>4. Flat = <<>> /\ Len(Flat) = 0
    <2>1. Flat = <<>>
      BY <1>1, <1>3, FlatEmpty DEF Shape, Flat
    <2> QED
      BY <2>1
  <1>5. Once
    <2>1. \A x \in Items : where[x] = "caller"
      BY DEF Init
    <2> QED
      BY <2>1, <1>4 DEF Once, Distinct, Holds
  <1>6. Pushing
    BY DEF Init, Pushing, Idle
  <1> QED
    BY <1>2, <1>3, <1>5, <1>6 DEF Inv

\* Every call that ends leaves its thread idle; only the queue can have changed.
Ends(t) == pc' = [pc EXCEPT ![t] = "out"] /\ call' = [call EXCEPT ![t] = Idle]

\* A call of the queue that ends with what it changes right.
LEMMA EndKeeps ==
    ASSUME Inv, NEW t \in Threads, Ends(t),
           where' \in [Items -> {"caller", "queue", "freed"}],
           \A u \in Threads \ {t} : call[u].op = "push" => where'[call[u].item] = where[call[u].item]
    PROVE  /\ pc' \in [Threads -> {"out", "lock", "in", "undefined"}]
           /\ call' \in [Threads -> Calls \cup {Idle}]
           /\ Pushing'
  <1>1. pc \in [Threads -> {"out", "lock", "in", "undefined"}] /\ call \in [Threads -> Calls \cup {Idle}]
    BY DEF Inv, Types
  <1>2. pc' \in [Threads -> {"out", "lock", "in", "undefined"}] /\ call' \in [Threads -> Calls \cup {Idle}]
    BY <1>1 DEF Ends
  <1>3. call'[t] = Idle /\ \A u \in Threads \ {t} : call'[u] = call[u] /\ pc'[u] = pc[u]
    BY <1>1 DEF Ends
  <1>4. Idle.op # "push"
    BY DEF Idle
  <1>5. Pushing'
    BY <1>3, <1>4 DEF Inv, Pushing
  <1> QED
    BY <1>2, <1>5

\* The mutex is the caller's or free after any call.
LEMMA MutexKept ==
    ASSUME Inv, Unlock \/ UNCHANGED mutex
    PROVE  mutex' \in Threads \cup {Free}
  BY DEF Inv, Types, Unlock

\* A push that finds room.
LEMMA PushKeeps ==
    ASSUME Inv, NEW t \in Threads, call[t].op = "push", Ends(t), Unlock, UNCHANGED array_freed,
           NEW idx, Pushed(buckets, buckets', call[t].item, idx),
           where' = [where EXCEPT ![call[t].item] = "queue"],
           alloc_buckets' \in Nat, alloc_buckets' >= InitialBuckets, Len(buckets') <= alloc_buckets'
    PROVE  Inv'
  <1> DEFINE x == call[t].item
  <1>1. /\ x \in Items /\ where[x] = "caller" /\ where \in [Items -> {"caller", "queue", "freed"}]
        /\ array_freed \in BOOLEAN
    BY CallHasItem DEF Inv, Pushing, Types
  <1>2. where' = [where EXCEPT ![x] = "queue"]
    OBVIOUS
  <1>3. \A u \in Threads \ {t} : call[u].op = "push" => call[u].item # x
    BY DEF Inv, Pushing
  <1>4. Pushed(buckets, buckets', x, idx)
    OBVIOUS
  <1>5. /\ where' \in [Items -> {"caller", "queue", "freed"}]
        /\ where'[x] = "queue" /\ \A y \in Items \ {x} : where'[y] = where[y]
    BY <1>1, <1>2
  <1>6. \A u \in Threads \ {t} : call[u].op = "push" => where'[call[u].item] = where[call[u].item]
    BY <1>3, <1>5, CallHasItem DEF Inv
  <1> HIDE DEF x
  <1>7. Types' /\ Pushing'
    <2>1. /\ pc' \in [Threads -> {"out", "lock", "in", "undefined"}]
          /\ call' \in [Threads -> Calls \cup {Idle}] /\ Pushing'
      BY <1>5, <1>6, EndKeeps
    <2>2. mutex' \in Threads \cup {Free}
      BY MutexKept
    <2>3. buckets' \in Seq(Bucket)
      BY <1>4 DEF Pushed
    <2> QED
      BY <2>1, <2>2, <2>3, <1>1, <1>5 DEF Types
  <1>8. Shape'
    BY <1>4 DEF Pushed, Shape
  <1>9. Once'
    <2>1. Flat' = Insert(Flat, x, Prio) /\ Flat \in Seq(Items) /\ Distinct(Flat) /\ ~Holds(Flat, x)
      <3>1. Flat \in Seq(Items)
        BY FlatEmpty DEF Inv, Types, Shape, Flat
      <3>2. Distinct(Flat) /\ ~Holds(Flat, x)
        BY <1>1 DEF Inv, Once
      <3> QED
        BY <3>1, <3>2, <1>4 DEF Pushed, Flat
    <2>2. Distinct(Flat') /\ \A y : Holds(Flat', y) <=> Holds(Flat, y) \/ y = x
      BY <2>1, <1>1, InsertHolds
    <2>3. \A y \in Items : Holds(Flat', y) <=> where'[y] = "queue"
      BY <2>2, <1>5 DEF Inv, Once
    <2> QED
      BY <2>2, <2>3 DEF Once, Holds, Distinct
  <1> QED
    BY <1>7, <1>8, <1>9 DEF Inv

\* A call that leaves the buckets alone.
LEMMA ReadKeeps ==
    ASSUME Inv, NEW t \in Threads, Ends(t), Unlock \/ UNCHANGED mutex,
           UNCHANGED <<buckets, where>>, array_freed' \in BOOLEAN,
           alloc_buckets' \in Nat, alloc_buckets' >= InitialBuckets, Len(buckets) <= alloc_buckets'
    PROVE  Inv'
  <1>1. /\ pc' \in [Threads -> {"out", "lock", "in", "undefined"}]
        /\ call' \in [Threads -> Calls \cup {Idle}] /\ Pushing'
    BY EndKeeps DEF Inv, Types
  <1>2. mutex' \in Threads \cup {Free}
    BY MutexKept
  <1>3. Types'
    BY <1>1, <1>2 DEF Inv, Types
  <1>4. Shape' /\ Once'
    BY DEF Inv, Shape, Once, Flat, Holds, Distinct
  <1> QED
    BY <1>1, <1>3, <1>4 DEF Inv

LEMMA PopKeeps ==
    ASSUME Inv, NEW t \in Threads, Pop(t)
    PROVE  Inv'
  <1>1. Ends(t) /\ Unlock /\ UNCHANGED <<alloc_buckets, array_freed>> /\ pc[t] = "in" /\ call[t].op = "pop"
    BY DEF Pop, Return, Ends, In
  <1>2. CASE buckets = <<>>
    <2>1. UNCHANGED <<buckets, where>>
      BY <1>2 DEF Pop
    <2> QED
      BY <1>1, <2>1, ReadKeeps DEF Inv, Types, Shape
  <1>3. CASE buckets # <<>>
    <2>1. buckets' = PopFirst(buckets) /\ where' = [where EXCEPT ![First] = "caller"] /\ First = buckets[1].items[1]
      BY <1>3 DEF Pop, First
    <2>2. buckets \in Seq(Bucket) /\ Sorted(buckets) /\ Filled(buckets)
      BY DEF Inv, Types, Shape
    <2>3. /\ buckets' \in Seq(Bucket) /\ Len(buckets') <= Len(buckets) /\ Sorted(buckets') /\ Filled(buckets')
          /\ Flat # <<>> /\ First = Head(Flat) /\ Flat' = Tail(Flat)
      BY <1>3, <2>1, <2>2, PopIs DEF Flat
    <2>4. Flat \in Seq(Items) /\ Distinct(Flat)
      BY <2>2, FlatEmpty DEF Inv, Once, Flat
    <2>5. /\ First \in Items /\ Distinct(Flat') /\ Holds(Flat, First)
          /\ \A y : Holds(Flat', y) <=> Holds(Flat, y) /\ y # First
      BY <2>3, <2>4, TailHolds
    <2>6. where[First] = "queue"
      BY <2>5 DEF Inv, Once
    <2>7. /\ where' \in [Items -> {"caller", "queue", "freed"}] /\ where'[First] = "caller"
          /\ \A y \in Items \ {First} : where'[y] = where[y]
      BY <2>1, <2>5 DEF Inv, Types
    <2>8. \A u \in Threads \ {t} : call[u].op = "push" => where'[call[u].item] = where[call[u].item]
      BY <2>6, <2>7, CallHasItem DEF Inv, Pushing
    <2>9. Types' /\ Pushing'
      <3>1. /\ pc' \in [Threads -> {"out", "lock", "in", "undefined"}]
            /\ call' \in [Threads -> Calls \cup {Idle}] /\ Pushing'
        BY <1>1, <2>7, <2>8, EndKeeps
      <3>2. mutex' \in Threads \cup {Free}
        BY <1>1, MutexKept
      <3> QED
        BY <3>1, <3>2, <2>3, <2>7, <1>1 DEF Inv, Types
    <2>10. Shape'
      <3>1. Len(buckets') \in Nat /\ Len(buckets) \in Nat /\ alloc_buckets \in Nat
        BY <2>2, <2>3 DEF Inv, Types
      <3> QED
        BY <3>1, <2>3, <1>1 DEF Inv, Shape
    <2>11. Once'
      <3>1. \A y \in Items : Holds(Flat', y) <=> where'[y] = "queue"
        BY <2>5, <2>7 DEF Inv, Once
      <3> QED
        BY <3>1, <2>5 DEF Once, Holds, Distinct
    <2> QED
      BY <2>9, <2>10, <2>11 DEF Inv
  <1> QED
    BY <1>2, <1>3

LEMMA ClearKeeps ==
    ASSUME Inv, NEW t \in Threads, Clear(t)
    PROVE  Inv' /\ Flat' = <<>>
  <1>1. Ends(t) /\ Unlock /\ UNCHANGED <<alloc_buckets, array_freed>>
    BY DEF Clear, Return, Ends
  <1>2. buckets' = <<>> /\ where' = [x \in Items |-> IF where[x] = "queue" THEN "freed" ELSE where[x]]
    BY DEF Clear
  <1>3. buckets' \in Seq(Bucket) /\ Len(buckets') = 0
    BY <1>2
  <1>4. /\ where' \in [Items -> {"caller", "queue", "freed"}]
        /\ \A x \in Items : where'[x] # "queue"
        /\ \A x \in Items : where[x] = "caller" => where'[x] = where[x]
    BY <1>2 DEF Inv, Types
  <1>5. \A u \in Threads \ {t} : call[u].op = "push" => where'[call[u].item] = where[call[u].item]
    BY <1>4, CallHasItem DEF Inv, Pushing
  <1>6. Types' /\ Pushing'
    <2>1. /\ pc' \in [Threads -> {"out", "lock", "in", "undefined"}]
          /\ call' \in [Threads -> Calls \cup {Idle}] /\ Pushing'
      BY <1>1, <1>4, <1>5, EndKeeps
    <2>2. mutex' \in Threads \cup {Free}
      BY <1>1, MutexKept
    <2> QED
      BY <2>1, <2>2, <1>1, <1>3, <1>4 DEF Inv, Types
  <1>7. Shape'
    BY <1>1, <1>3 DEF Inv, Types, Shape, Sorted, Filled
  <1>8. Flat' = <<>>
    BY <1>2, <1>3, <1>7, FlatEmpty DEF Shape, Flat
  <1>9. Once'
    <2>1. Len(Flat') = 0
      BY <1>8
    <2> QED
      BY <2>1, <1>4 DEF Once, Distinct, Holds
  <1> QED
    BY <1>6, <1>7, <1>8, <1>9 DEF Inv

\* A thread goes on in its call.
LEMMA EnterKeeps ==
    ASSUME Inv, NEW t \in Threads, NEW c \in Calls, Enter(t, c)
    PROVE  Inv'
  <1>1. UNCHANGED <<buckets, alloc_buckets, array_freed, mutex, where>>
    BY DEF Enter
  <1>2. /\ call \in [Threads -> Calls \cup {Idle}] /\ call' = [call EXCEPT ![t] = c]
        /\ pc \in [Threads -> {"out", "lock", "in", "undefined"}] /\ pc' = [pc EXCEPT ![t] = "lock"]
    BY DEF Inv, Types, Enter
  <1>3. /\ call' \in [Threads -> Calls \cup {Idle}] /\ call'[t] = c /\ pc'[t] = "lock"
        /\ pc' \in [Threads -> {"out", "lock", "in", "undefined"}]
        /\ \A u \in Threads \ {t} : call'[u] = call[u] /\ pc'[u] = pc[u]
    BY <1>2
  <1>4. c.op = "push" => where[c.item] = "caller" /\ \A u \in Threads : call[u].item # c.item
    BY DEF Enter
  <1>5. Types' /\ Shape' /\ Once'
    BY <1>1, <1>3 DEF Inv, Types, Shape, Once, Flat, Holds, Distinct
  <1>6. Pushing'
    <2>1. \A u \in Threads : pc'[u] = "out" => call'[u] = Idle
      BY <1>3 DEF Inv, Pushing
    <2>2. \A u \in Threads : call'[u].op = "push" => where'[call'[u].item] = "caller"
      BY <1>1, <1>3, <1>4 DEF Inv, Pushing
    <2>3. \A u, v \in Threads :
             call'[u].op = "push" /\ call'[v].op = "push" /\ call'[u].item = call'[v].item => u = v
      BY <1>3, <1>4 DEF Inv, Pushing
    <2> QED
      BY <2>1, <2>2, <2>3 DEF Pushing
  <1> QED
    BY <1>5, <1>6 DEF Inv

LEMMA GoesOn ==
    ASSUME Inv, NEW t \in Threads, Lock(t) \/ UseFreedArray(t)
    PROVE  Inv'
  <1>1. UNCHANGED <<buckets, alloc_buckets, array_freed, call, where>>
    BY DEF Lock, UseFreedArray
  <1>2. PICK p \in {"in", "undefined"} : pc' = [pc EXCEPT ![t] = p]
    BY DEF Lock, UseFreedArray
  <1>3. pc' \in [Threads -> {"out", "lock", "in", "undefined"}] /\ \A u \in Threads : pc'[u] = "out" => pc[u] = "out"
    BY <1>2 DEF Inv, Types
  <1>4. mutex' \in Threads \cup {Free}
    BY DEF Inv, Types, Lock, UseFreedArray
  <1> QED
    BY <1>1, <1>3, <1>4 DEF Inv, Types, Shape, Once, Pushing, Flat, Holds, Distinct

LEMMA AppendsKeeps ==
    ASSUME Inv, NEW t \in Threads, PushAppends(t)
    PROVE  /\ Inv' /\ call[t].item \in Items /\ where[call[t].item] = "caller"
           /\ Flat' = Insert(Flat, call[t].item, Prio)
           /\ returned' = <<"push", InsertPosition(Flat, Prio[call[t].item], Prio)>>
  <1> DEFINE x == call[t].item
             idx == Search(buckets, Prio[x])
  <1>1. /\ call[t].op = "push" /\ idx >= 0 /\ buckets' = WithLast(buckets, idx + 1, x)
        /\ where' = [where EXCEPT ![x] = "queue"] /\ UNCHANGED <<alloc_buckets, array_freed>>
        /\ returned' = <<"push", PositionIn(WithLast(buckets, idx + 1, x), idx)>>
        /\ Ends(t) /\ Unlock
    BY DEF PushAppends, In, Return, WithLast, Ends
  <1>2. x \in Items /\ where[x] = "caller"
    BY <1>1, CallHasItem DEF Inv, Pushing
  <1>3. buckets \in Seq(Bucket) /\ Sorted(buckets) /\ Filled(buckets)
    BY DEF Inv, Types, Shape
  <1> HIDE DEF x, idx
  <1>4. Pushed(buckets, buckets', x, idx) /\ Len(buckets') = Len(buckets)
    BY <1>1, <1>2, <1>3, PushIs DEF idx
  <1>5. Inv'
    <2>1. alloc_buckets' \in Nat /\ alloc_buckets' >= InitialBuckets /\ Len(buckets') <= alloc_buckets'
      BY <1>1, <1>4 DEF Inv, Types, Shape
    <2> QED
      BY <2>1, <1>1, <1>4, PushKeeps DEF x
  <1> QED
    BY <1>1, <1>2, <1>4, <1>5 DEF Pushed, Flat, x

LEMMA InsertsKeeps ==
    ASSUME Inv, NEW t \in Threads, PushInserts(t)
    PROVE  /\ Inv' /\ call[t].item \in Items /\ where[call[t].item] = "caller"
           /\ Flat' = Insert(Flat, call[t].item, Prio)
           /\ returned' = <<"push", InsertPosition(Flat, Prio[call[t].item], Prio)>>
  <1> DEFINE x == call[t].item
             idx == -Search(buckets, Prio[x]) - 1
  <1>1. /\ call[t].op = "push" /\ Search(buckets, Prio[x]) < 0 /\ buckets' = InsertBucket(buckets, idx, x)
        /\ where' = [where EXCEPT ![x] = "queue"] /\ UNCHANGED array_freed /\ alloc_buckets' = Grown
        /\ returned' = <<"push", PositionIn(InsertBucket(buckets, idx, x), idx)>>
        /\ Ends(t) /\ Unlock
    BY DEF PushInserts, In, Return, Ends
  <1>2. x \in Items /\ where[x] = "caller"
    BY <1>1, CallHasItem DEF Inv, Pushing
  <1>3. buckets \in Seq(Bucket) /\ Sorted(buckets) /\ Filled(buckets)
    BY DEF Inv, Types, Shape
  <1> HIDE DEF x
  <1>4. Pushed(buckets, buckets', x, idx) /\ Len(buckets') = Len(buckets) + 1
    BY <1>1, <1>2, <1>3, PushIs
  <1> HIDE DEF idx
  <1>5. Inv'
    <2>1. /\ alloc_buckets \in Nat /\ alloc_buckets >= InitialBuckets /\ InitialBuckets \in Nat \ {0}
          /\ Len(buckets) \in Nat /\ Len(buckets) <= alloc_buckets
      BY InitialBucketsAssumption, <1>3 DEF Inv, Types, Shape
    <2>2. alloc_buckets' \in Nat /\ alloc_buckets' >= InitialBuckets /\ Len(buckets') <= alloc_buckets'
      BY <2>1, <1>1, <1>4 DEF Grown, GrowFactor
    <2> QED
      BY <2>2, <1>1, <1>4, PushKeeps DEF x
  <1> QED
    BY <1>1, <1>2, <1>4, <1>5 DEF Pushed, Flat, x

\* The calls that leave the buckets alone: a push that fails, fit, peek, size and empty.
LEMMA OthersKeep ==
    ASSUME Inv, NEW t \in Threads, PushNoNode(t) \/ PushGrowFails(t) \/ Fit(t) \/ Read(t)
    PROVE  Inv' /\ UNCHANGED buckets
  <1>1. Ends(t) /\ UNCHANGED <<buckets, where>>
    BY DEF PushNoNode, PushGrowFails, Fit, Read, Return, Ends
  <1>6. Unlock \/ UNCHANGED mutex
    BY DEF PushNoNode, PushGrowFails, Fit, Read
  <1>2. array_freed' \in BOOLEAN
    BY DEF Inv, Types, PushNoNode, PushGrowFails, Fit, Read
  <1>3. /\ alloc_buckets \in Nat /\ alloc_buckets >= InitialBuckets /\ InitialBuckets \in Nat
        /\ Len(buckets) \in Nat /\ Len(buckets) <= alloc_buckets
    BY InitialBucketsAssumption DEF Inv, Types, Shape
  <1>4. alloc_buckets' = alloc_buckets \/ (alloc_buckets' = Len(buckets) /\ Len(buckets) > InitialBuckets)
    BY DEF PushNoNode, PushGrowFails, Fit, Read, MayShrink
  <1>5. alloc_buckets' \in Nat /\ alloc_buckets' >= InitialBuckets /\ Len(buckets) <= alloc_buckets'
    BY <1>3, <1>4
  <1> QED
    BY <1>1, <1>2, <1>5, <1>6, ReadKeeps

LEMMA NextKeeps ==
    ASSUME Inv, [Next]_vars
    PROVE  Inv'
  <1>1. CASE Next
    <2>1. PICK t \in Threads :
             \/ \E c \in Calls : Enter(t, c)
             \/ Lock(t) \/ PushNoNode(t)
             \/ PushAppends(t) \/ PushInserts(t) \/ PushGrowFails(t)
             \/ Pop(t) \/ Clear(t) \/ Fit(t) \/ Read(t) \/ UseFreedArray(t)
      BY <1>1 DEF Next
    <2>2. CASE \E c \in Calls : Enter(t, c)
      BY <2>2, EnterKeeps
    <2>3. CASE Lock(t) \/ UseFreedArray(t)
      BY <2>3, GoesOn
    <2>4. CASE PushAppends(t) \/ PushInserts(t)
      BY <2>4, AppendsKeeps, InsertsKeeps
    <2>5. CASE Pop(t) \/ Clear(t)
      BY <2>5, PopKeeps, ClearKeeps
    <2>6. CASE PushNoNode(t) \/ PushGrowFails(t) \/ Fit(t) \/ Read(t)
      BY <2>6, OthersKeep
    <2> QED
      BY <2>1, <2>2, <2>3, <2>4, <2>5, <2>6
  <1>2. CASE UNCHANGED vars
    BY <1>2 DEF vars, Inv, Types, Shape, Once, Pushing, Flat, Holds, Distinct
  <1> QED
    BY <1>1, <1>2

\* The bucket array keeps its order, its capacity and its items, whatever fails.
THEOREM Invariance == Spec => []Inv
  <1>1. Inv /\ [Next]_vars => Inv'
    BY NextKeeps
  <1> QED
    BY InitInv, <1>1, PTL DEF Spec

\* Every variable keeps its type, and the array never gets smaller than it was created.
THEOREM TypeCorrect == Spec => []TypeOK
  <1>1. Inv => TypeOK
    BY DEF Inv, Types, TypeOK
  <1> QED
    BY Invariance, <1>1, PTL

-----------------------------------------------------------------------------
(* What the buckets promise.                                               *)

LEMMA InvOwnedOnce ==
    ASSUME Inv
    PROVE  OwnedOnce
  <1> SUFFICES ASSUME NEW x \in Items
               PROVE  LET at(i)  == {k \in 1..Len(buckets[i].items) : buckets[i].items[k] = x}
                          places == UNION {{<<i, k>> : k \in at(i)} : i \in 1..Len(buckets)}
                      IN  Cardinality(places) = IF where[x] = "queue" THEN 1 ELSE 0
    BY DEF OwnedOnce
  <1> DEFINE at(i)  == {k \in 1..Len(buckets[i].items) : buckets[i].items[k] = x}
             places == UNION {{<<i, k>> : k \in at(i)} : i \in 1..Len(buckets)}
             Is(p, i, k) == p = <<i, k>> /\ i \in 1..Len(buckets) /\ k \in at(i)
  <1>1. \A p : p \in places <=> \E i \in 1..Len(buckets) : \E k \in at(i) : p = <<i, k>>
    OBVIOUS
  <1> HIDE DEF places
  <1>2. /\ buckets \in Seq(Bucket) /\ Stands(buckets, Len(buckets), Flat)
        /\ Distinct(Flat) /\ (Holds(Flat, x) <=> where[x] = "queue")
    BY FlatIs DEF Inv, Types, Once, Flat
  <1>3. Len(buckets) \in Nat /\ Len(Flat) = ItemsBefore(buckets, Len(buckets))
    BY <1>2 DEF Stands
  \* A place of the item, and its position in the queue.
  <1>4. ASSUME NEW i \in 1..Len(buckets), NEW k \in at(i)
        PROVE  /\ ItemsBefore(buckets, i - 1) + k \in 1..Len(Flat)
               /\ Flat[ItemsBefore(buckets, i - 1) + k] = x
               /\ ItemsBefore(buckets, i - 1) \in Nat /\ k \in Nat \ {0}
               /\ ItemsBefore(buckets, i - 1) + k <= ItemsBefore(buckets, i)
               /\ ItemsBefore(buckets, i) \in Nat
    <2>1. k \in 1..Len(buckets[i].items) /\ buckets[i].items[k] = x
      OBVIOUS
    <2>2. i \in 0..Len(buckets) /\ i - 1 \in 0..Len(buckets) /\ Len(buckets) \in 0..Len(buckets) /\ i <= Len(buckets)
      BY <1>3
    <2>3. /\ ItemsBefore(buckets, i) = ItemsBefore(buckets, i - 1) + Len(buckets[i].items)
          /\ ItemsBefore(buckets, i - 1) \in Nat /\ ItemsBefore(buckets, i) \in Nat
      BY <1>2, <2>2, SumIs
    <2>4. ItemsBefore(buckets, i) <= Len(Flat) /\ Len(Flat) \in Nat
      BY <1>2, <1>3, <2>2, SumGrows, SumIs
    <2>5. Len(buckets[i].items) \in Nat /\ k \in 1..Len(buckets[i].items)
      BY <1>2, <2>1, ItemsAreSeqs
    <2>6. \A a, l, z \in Nat : \A j \in 1..l : a + l <= z => a + j \in 1..z /\ j \in Nat \ {0} /\ a + j <= a + l
      OBVIOUS
    <2>7. ItemsBefore(buckets, i - 1) + k \in 1..Len(Flat) /\ k \in Nat \ {0}
      BY <2>3, <2>4, <2>5, <2>6
    <2>8. ItemsBefore(buckets, i - 1) + k <= ItemsBefore(buckets, i)
      BY <2>3, <2>5, <2>6
    <2>9. Flat[ItemsBefore(buckets, i - 1) + k] = x
      BY <1>2, <2>1 DEF Stands
    <2> QED
      BY <2>3, <2>7, <2>8, <2>9
  <1>5. ASSUME NEW i \in 1..Len(buckets), NEW k \in at(i), NEW j \in 1..Len(buckets), NEW l \in at(j)
        PROVE  ~(j < i)
    <2> SUFFICES ASSUME j < i PROVE FALSE
      OBVIOUS
    <2>1. ItemsBefore(buckets, i - 1) + k = ItemsBefore(buckets, j - 1) + l
      <3>1. ItemsBefore(buckets, i - 1) + k \in 1..Len(Flat) /\ Flat[ItemsBefore(buckets, i - 1) + k] = x
        BY <1>4
      <3>2. ItemsBefore(buckets, j - 1) + l \in 1..Len(Flat) /\ Flat[ItemsBefore(buckets, j - 1) + l] = x
        BY <1>4
      <3> HIDE DEF at
      <3> QED
        BY <3>1, <3>2, <1>2 DEF Distinct
    <2>2. j \in 0..Len(buckets) /\ i - 1 \in 0..Len(buckets) /\ j <= i - 1
      BY <1>3
    <2>3. ItemsBefore(buckets, j) <= ItemsBefore(buckets, i - 1)
      BY <1>2, <2>2, SumGrows
    <2>4. \A a, b, c \in Nat : \A y \in Nat \ {0} : \A z \in Nat : z <= b /\ b <= a => a + y # z
      OBVIOUS
    <2>5. /\ ItemsBefore(buckets, i - 1) \in Nat /\ k \in Nat \ {0}
      BY <1>4
    <2>6. /\ ItemsBefore(buckets, j - 1) + l \in Nat /\ ItemsBefore(buckets, j) \in Nat
          /\ ItemsBefore(buckets, j - 1) + l <= ItemsBefore(buckets, j)
      BY <1>4
    <2> QED
      BY <2>1, <2>3, <2>4, <2>5, <2>6
  <1>6. CASE where[x] = "queue"
    <2>1. PICK n \in 1..Len(Flat) : Flat[n] = x
      BY <1>2, <1>6 DEF Holds
    <2>2. n \in 1..ItemsBefore(buckets, Len(buckets))
      BY <1>3
    <2>3. PICK i \in 1..Len(buckets) : \E k \in 1..Len(buckets[i].items) : n = ItemsBefore(buckets, i - 1) + k
      BY <1>2, <2>2, PlaceOf
    <2>4. PICK k \in 1..Len(buckets[i].items) : n = ItemsBefore(buckets, i - 1) + k
      BY <2>3
    <2>5. k \in at(i)
      BY <1>2, <2>1, <2>4 DEF Stands
    <2>6. ASSUME NEW j \in 1..Len(buckets), NEW l \in at(j)
          PROVE  j = i /\ l = k
      <3>1. ~(j < i) /\ ~(i < j)
        BY <2>5, <1>5
      <3>2. j = i
        BY <3>1
      <3>3. ItemsBefore(buckets, i - 1) + k = ItemsBefore(buckets, j - 1) + l
        <4>1. ItemsBefore(buckets, i - 1) + k \in 1..Len(Flat) /\ Flat[ItemsBefore(buckets, i - 1) + k] = x
          BY <1>4, <2>5
        <4>2. ItemsBefore(buckets, j - 1) + l \in 1..Len(Flat) /\ Flat[ItemsBefore(buckets, j - 1) + l] = x
          BY <1>4
        <4> HIDE DEF at
        <4> QED
          BY <4>1, <4>2, <1>2 DEF Distinct
      <3>4. ItemsBefore(buckets, i - 1) \in Nat /\ k \in Nat /\ l \in Nat
        BY <1>4, <2>5
      <3> QED
        BY <3>2, <3>3, <3>4
    <2> HIDE DEF at
    <2>7. places = {<<i, k>>}
      BY <1>1, <2>5, <2>6
    <2>8. Cardinality(places) = 1
      BY <2>7, FS_Singleton
    <2> QED
      BY <2>8, <1>6 DEF places, at
  <1>7. CASE where[x] # "queue"
    <2>1. ~Holds(Flat, x)
      BY <1>2, <1>7
    <2>2. \A i \in 1..Len(buckets) : \A k \in at(i) : FALSE
      BY <2>1, <1>4 DEF Holds
    <2> HIDE DEF at
    <2>3. places = {}
      BY <1>1, <2>2
    <2>4. Cardinality(places) = 0
      BY <2>3, FS_EmptySet
    <2> QED
      BY <2>4, <1>7 DEF places, at
  <1> QED
    BY <1>6, <1>7

\* The array is sorted, without empty buckets and within its capacity, and every item that
\* was pushed is in one place of one bucket until it is popped or freed.
THEOREM QueueCorrect == Spec => []QueueSound
  <1>1. Inv => WellFormed
    BY DEF Inv, Shape, Sorted, Filled, WellFormed
  <1>2. Inv => QueueSound
    BY <1>1, InvOwnedOnce DEF QueueSound
  <1> QED
    BY Invariance, <1>2, PTL

\* Bisection finds the bucket of a priority wherever it is, or tells how many buckets come
\* before it, on every array that occurs.
THEOREM SearchCorrect == Spec => []SearchFindsBucket
  <1>1. ASSUME Inv
        PROVE  SearchFindsBucket
    <2> SUFFICES ASSUME NEW p \in Priorities
                 PROVE  LET higher == Cardinality({i \in 1..Len(buckets) : buckets[i].priority > p})
                        IN  Search(buckets, p) =
                              IF \E i \in 1..Len(buckets) : buckets[i].priority = p
                              THEN higher ELSE -(higher + 1)
      BY DEF SearchFindsBucket
    <2> DEFINE above == {i \in 1..Len(buckets) : buckets[i].priority > p}
               idx == Search(buckets, p)
    <2>1. buckets \in Seq(Bucket) /\ Sorted(buckets) /\ Len(buckets) \in Nat
      BY <1>1 DEF Inv, Types, Shape
    <2>2. p \in Int /\ \A i \in 1..Len(buckets) : buckets[i].priority \in Int
      BY <2>1, ItemsAreSeqs, PrioAssumption DEF Priorities
    <2>3. Finds(buckets, p, idx)
      BY <2>1, <2>2, SearchFinds
    <2> HIDE DEF idx
    <2>4. \A n \in Nat : Cardinality(1..n) = n
      BY FS_Interval
    <2>5. CASE idx \in 0..(Len(buckets) - 1) /\ buckets[idx + 1].priority = p
      <3>1. idx \in Nat /\ idx + 1 \in 1..Len(buckets)
        BY <2>5, <2>1
      <3>2. ASSUME NEW i \in 1..Len(buckets)
            PROVE  buckets[i].priority > p <=> i \in 1..idx
        <4>1. CASE i < idx + 1
          <5>1. buckets[i].priority > p /\ i \in 1..idx
            BY <4>1, <3>1, <2>1, <2>5 DEF Sorted
          <5> QED
            BY <5>1
        <4>2. CASE i = idx + 1
          <5>1. ~(i \in 1..idx) /\ ~(p > p)
            BY <4>2, <3>1, <2>2
          <5> QED
            BY <5>1, <4>2, <2>5
        <4>3. CASE i > idx + 1
          <5>1. p > buckets[i].priority /\ ~(i \in 1..idx)
            BY <4>3, <3>1, <2>1, <2>5 DEF Sorted
          <5> QED
            BY <5>1, <2>2
        <4> QED
          BY <4>1, <4>2, <4>3, <3>1
      <3>3. \A i \in 1..idx : i \in 1..Len(buckets)
        BY <3>1
      <3>4. above = 1..idx
        BY <3>2, <3>3
      <3>5. Cardinality(above) = idx
        BY <3>1, <3>4, <2>4
      <3> QED
        BY <3>1, <3>5, <2>5 DEF idx
    <2>6. CASE \E pos \in 0..Len(buckets) : idx = -(pos + 1) /\ Divides(buckets, pos, p)
      <3>1. PICK pos \in 0..Len(buckets) : idx = -(pos + 1) /\ Divides(buckets, pos, p)
        BY <2>6
      <3>2. ASSUME NEW i \in 1..Len(buckets)
            PROVE  (buckets[i].priority > p <=> i \in 1..pos) /\ buckets[i].priority # p
        <4>1. CASE i <= pos
          BY <4>1, <3>1, <2>2 DEF Divides
        <4>2. CASE i > pos
          BY <4>2, <3>1, <2>2 DEF Divides
        <4> QED
          BY <4>1, <4>2
      <3>3. \A i \in 1..pos : i \in 1..Len(buckets)
        OBVIOUS
      <3>4. above = 1..pos
        BY <3>2, <3>3
      <3>5. Cardinality(above) = pos
        <4>1. pos \in Nat
          OBVIOUS
        <4> QED
          BY <4>1, <3>4, <2>4
      <3> QED
        BY <3>1, <3>2, <3>5 DEF idx
    <2> QED
      BY <2>3, <2>5, <2>6 DEF Finds
  <1> QED
    BY Invariance, <1>1, PTL

-----------------------------------------------------------------------------
(* The buckets implement the queue.                                        *)

\* Every call does to the queue, and returns, what pqueue.h promises.
LEMMA StepImplements ==
    ASSUME Inv, [Next]_vars
    PROVE  [PQ!Next]_(PQ!specVars)
  <1>0. /\ buckets \in Seq(Bucket) /\ Filled(buckets) /\ Flat \in Seq(Items)
        /\ Len(Flat) = NumItems(buckets) /\ (buckets = <<>> <=> Flat = <<>>)
    BY FlatEmpty DEF Inv, Types, Shape, Flat
  <1>1. First = PQ!First
    <2>1. CASE buckets = <<>>
      BY <2>1, <1>0 DEF First, PQ!First
    <2>2. CASE buckets # <<>>
      BY <2>2, <1>0, PopIs DEF First, PQ!First, Inv, Shape, Flat
    <2> QED
      BY <2>1, <2>2
  <1>2. UNCHANGED buckets => UNCHANGED Flat
    BY DEF Flat
  <1>3. CASE Next
    <2>1. PICK t \in Threads :
             \/ \E c \in Calls : Enter(t, c)
             \/ Lock(t) \/ PushNoNode(t)
             \/ PushAppends(t) \/ PushInserts(t) \/ PushGrowFails(t)
             \/ Pop(t) \/ Clear(t) \/ Fit(t) \/ Read(t) \/ UseFreedArray(t)
      BY <1>3 DEF Next
    <2>2. CASE (\E c \in Calls : Enter(t, c)) \/ Lock(t) \/ UseFreedArray(t)
      <3>1. UNCHANGED <<buckets, returned>>
        BY <2>2 DEF Enter, Lock, UseFreedArray
      <3> QED
        BY <3>1, <1>2 DEF PQ!specVars
    <2>3. CASE PushNoNode(t) \/ PushGrowFails(t)
      <3>1. UNCHANGED buckets /\ returned' = <<"push", SizeMax>>
        BY <2>3 DEF PushNoNode, PushGrowFails, In, Return
      <3> QED
        BY <3>1, <1>2 DEF PQ!Next, PQ!PushFail
    <2>4. CASE PushAppends(t) \/ PushInserts(t)
      <3> DEFINE x == call[t].item
      <3>1. /\ x \in Items /\ where[x] = "caller" /\ Flat' = Insert(Flat, x, Prio)
            /\ returned' = <<"push", InsertPosition(Flat, Prio[x], Prio)>>
        BY <2>4, AppendsKeeps, InsertsKeeps
      <3>2. x \notin PQ!Contents
        BY <3>1 DEF Inv, Once, Holds, PQ!Contents
      <3>3. PQ!Push(x)
        BY <3>1, <3>2 DEF PQ!Push, PQ!Ahead, Insert, InsertPosition, PQ!Cardinality, Cardinality
      <3> QED
        BY <3>1, <3>3 DEF PQ!Next
    <2>5. CASE Pop(t)
      <3>1. returned' = <<"pop", First>>
        BY <2>5 DEF Pop, In, Return
      <3>2. Flat' = IF Flat = <<>> THEN <<>> ELSE Tail(Flat)
        <4>1. CASE buckets = <<>>
          <5>1. UNCHANGED buckets
            BY <2>5, <4>1 DEF Pop
          <5> QED
            BY <5>1, <4>1, <1>0, <1>2
        <4>2. CASE buckets # <<>>
          <5>1. buckets' = PopFirst(buckets)
            BY <2>5, <4>2 DEF Pop
          <5>2. FlatOf(buckets') = Tail(FlatOf(buckets))
            BY <5>1, <4>2, <1>0, PopIs DEF Inv, Shape
          <5> QED
            BY <5>2, <4>2, <1>0 DEF Flat
        <4> QED
          BY <4>1, <4>2
      <3> QED
        BY <3>1, <3>2, <1>1 DEF PQ!Next, PQ!Pop
    <2>6. CASE Clear(t)
      <3>1. Flat' = <<>> /\ returned' = <<"clear", Null>>
        BY <2>6, ClearKeeps DEF Clear, In, Return
      <3> QED
        BY <3>1 DEF PQ!Next, PQ!Clear
    <2>7. CASE Fit(t) \/ Read(t)
      <3>1. UNCHANGED Flat
        BY <2>7, OthersKeep, <1>2
      <3>2. \/ returned' = <<"fit", Null>> \/ returned' = <<"peek", First>>
            \/ returned' = <<"size", NumItems(buckets)>> \/ returned' = <<"empty", buckets = <<>> >>
        BY <2>7 DEF Fit, Read, In, Return
      <3>3. (buckets = <<>>) = (Flat = <<>>)
        BY <1>0
      <3> QED
        BY <3>1, <3>2, <3>3, <1>0, <1>1 DEF PQ!Next, PQ!Read
    <2> QED
      BY <2>1, <2>2, <2>3, <2>4, <2>5, <2>6, <2>7
  <1>4. CASE UNCHANGED vars
    BY <1>4 DEF vars, PQ!specVars, Flat
  <1> QED
    BY <1>3, <1>4

\* The bucket array, with its mutex and its failures, is the priority queue of pqueue.h.
THEOREM PQueueImplements == Spec => ImplementsPQueueSpec
  <1>1. Init => PQ!Init
    <2> SUFFICES ASSUME Init PROVE PQ!Init
      OBVIOUS
    <2>1. Flat = <<>>
      <3>1. buckets = <<>> /\ buckets \in Seq(Bucket) /\ Filled(buckets)
        BY InitInv DEF Init, Inv, Types, Shape
      <3> QED
        BY <3>1, FlatEmpty DEF Flat
    <2> QED
      BY <2>1 DEF Init, PQ!Init
  <1>2. Inv /\ [Next]_vars => [PQ!Next]_(PQ!specVars)
    BY StepImplements
  <1> QED
    BY Invariance, <1>1, <1>2, PTL DEF Spec, ImplementsPQueueSpec, PQ!Spec
=============================================================================
