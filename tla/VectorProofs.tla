---------------------------- MODULE VectorProofs ----------------------------
(***************************************************************************)
(* Proofs about Vector, for any number of vectors, items and values and    *)
(* any capacity: until a call diverges, every item that is allocated is in *)
(* one place of one vector or the caller's, no memory is misused, and      *)
(* every call does to the values what VectorSpec says.                     *)
(***************************************************************************)
EXTENDS Vector, TLAPS, FiniteSetTheorems, SequenceTheorems

-----------------------------------------------------------------------------
(* Sequences.                                                              *)

\* memmove up by one, and the new element in the gap.
LEMMA InsertAtIs ==
    ASSUME NEW S, NEW s \in Seq(S), NEW i \in 1..(Len(s) + 1), NEW e \in S
    PROVE  /\ InsertAt(s, i, e) \in Seq(S)
           /\ Len(InsertAt(s, i, e)) = Len(s) + 1
           /\ \A k \in 1..(Len(s) + 1) :
                 InsertAt(s, i, e)[k] = IF k < i THEN s[k] ELSE IF k = i THEN e ELSE s[k - 1]
  <1> DEFINE a == SubSeq(s, 1, i - 1)
             b == SubSeq(s, i, Len(s))
             c == a \o <<e>>
  <1>1. Len(s) \in Nat /\ \A k \in 1..Len(s) : s[k] \in S
    BY LenProperties
  <1>2. a \in Seq(S) /\ Len(a) = i - 1 /\ \A k \in 1..(i - 1) : a[k] = s[k]
    <2>1. i - 1 \in Int /\ \A k \in 1..(i - 1) : s[k] \in S
      BY <1>1
    <2> QED
      BY <1>1, <2>1, SubSeqProperties
  <1>3. b \in Seq(S) /\ Len(b) = Len(s) + 1 - i /\ \A k \in 1..(Len(s) + 1 - i) : b[k] = s[i + k - 1]
    <2>1. i \in Int /\ Len(s) \in Int /\ \A k \in i..Len(s) : s[k] \in S
      BY <1>1
    <2>2. /\ b \in Seq(S) /\ Len(b) = IF i <= Len(s) THEN Len(s) - i + 1 ELSE 0
          /\ \A k \in 1..(Len(s) - i + 1) : b[k] = s[i + k - 1]
      BY <2>1, SubSeqProperties
    <2> QED
      BY <1>1, <2>2
  <1>4. <<e>> \in Seq(S) /\ Len(<<e>>) = 1 /\ <<e>>[1] = e
    OBVIOUS
  <1> HIDE DEF a, b
  <1>5. c \in Seq(S) /\ Len(c) = i /\ \A k \in 1..i : c[k] = IF k < i THEN s[k] ELSE e
    <2>1. /\ c \in Seq(S) /\ Len(c) = Len(a) + 1
          /\ \A k \in 1..(Len(a) + 1) : c[k] = IF k <= Len(a) THEN a[k] ELSE <<e>>[k - Len(a)]
      BY <1>2, <1>4, ConcatProperties
    <2> QED
      BY <1>1, <1>2, <1>4, <2>1
  <1> HIDE DEF c
  <1>6. /\ c \o b \in Seq(S) /\ Len(c \o b) = Len(c) + Len(b)
        /\ \A k \in 1..(Len(c) + Len(b)) : (c \o b)[k] = IF k <= Len(c) THEN c[k] ELSE b[k - Len(c)]
    BY <1>3, <1>5, ConcatProperties
  <1>7. ASSUME NEW k \in 1..(Len(s) + 1)
        PROVE  (c \o b)[k] = IF k < i THEN s[k] ELSE IF k = i THEN e ELSE s[k - 1]
    <2>1. CASE k <= i
      BY <1>1, <1>3, <1>5, <1>6, <2>1
    <2>2. CASE k > i
      <3>1. k - i \in 1..(Len(s) + 1 - i) /\ i + (k - i) - 1 = k - 1
        BY <1>1, <2>2
      <3>2. (c \o b)[k] = b[k - i]
        BY <1>1, <1>3, <1>5, <1>6, <2>2
      <3> QED
        BY <1>3, <2>2, <3>1, <3>2
    <2>3. k <= i \/ k > i
      BY <1>1
    <2> QED
      BY <2>1, <2>2, <2>3, Zenon
  <1>8. InsertAt(s, i, e) = c \o b
    BY DEF InsertAt, a, b, c
  <1> QED
    BY <1>1, <1>3, <1>5, <1>6, <1>7, <1>8

\* memmove down by one.
LEMMA RemoveAtIs ==
    ASSUME NEW S, NEW s \in Seq(S), NEW i \in 1..Len(s)
    PROVE  /\ RemoveAt(s, i) \in Seq(S)
           /\ Len(RemoveAt(s, i)) = Len(s) - 1
           /\ \A k \in 1..(Len(s) - 1) : RemoveAt(s, i)[k] = IF k < i THEN s[k] ELSE s[k + 1]
  <1> DEFINE a == SubSeq(s, 1, i - 1)
             b == SubSeq(s, i + 1, Len(s))
  <1>1. Len(s) \in Nat /\ \A k \in 1..Len(s) : s[k] \in S
    BY LenProperties
  <1>2. a \in Seq(S) /\ Len(a) = i - 1 /\ \A k \in 1..(i - 1) : a[k] = s[k]
    <2>1. i - 1 \in Int /\ \A k \in 1..(i - 1) : s[k] \in S
      BY <1>1
    <2> QED
      BY <1>1, <2>1, SubSeqProperties
  <1>3. b \in Seq(S) /\ Len(b) = Len(s) - i /\ \A k \in 1..(Len(s) - i) : b[k] = s[i + k]
    <2>1. i + 1 \in Int /\ Len(s) \in Int /\ \A k \in (i + 1)..Len(s) : s[k] \in S
      BY <1>1
    <2>2. /\ b \in Seq(S) /\ Len(b) = IF i + 1 <= Len(s) THEN Len(s) - (i + 1) + 1 ELSE 0
          /\ \A k \in 1..(Len(s) - (i + 1) + 1) : b[k] = s[(i + 1) + k - 1]
      BY <2>1, SubSeqProperties
    <2>3. Len(s) - (i + 1) + 1 = Len(s) - i /\ \A k \in 1..(Len(s) - i) : (i + 1) + k - 1 = i + k
      BY <1>1
    <2> QED
      BY <1>1, <2>2, <2>3
  <1> HIDE DEF a, b
  <1>4. /\ a \o b \in Seq(S) /\ Len(a \o b) = Len(a) + Len(b)
        /\ \A k \in 1..(Len(a) + Len(b)) : (a \o b)[k] = IF k <= Len(a) THEN a[k] ELSE b[k - Len(a)]
    BY <1>2, <1>3, ConcatProperties
  <1>5. ASSUME NEW k \in 1..(Len(s) - 1)
        PROVE  (a \o b)[k] = IF k < i THEN s[k] ELSE s[k + 1]
    <2>1. CASE k < i
      BY <1>1, <1>2, <1>3, <1>4, <2>1
    <2>2. CASE k >= i
      <3>1. k - (i - 1) \in 1..(Len(s) - i) /\ i + (k - (i - 1)) = k + 1
        BY <1>1, <2>2
      <3>2. (a \o b)[k] = b[k - (i - 1)]
        BY <1>1, <1>2, <1>3, <1>4, <2>2
      <3> QED
        BY <1>3, <2>2, <3>1, <3>2
    <2>3. k < i \/ k >= i
      BY <1>1
    <2> QED
      BY <2>1, <2>2, <2>3, Zenon
  <1>6. RemoveAt(s, i) = a \o b
    BY DEF RemoveAt, a, b
  <1> QED
    BY <1>1, <1>2, <1>3, <1>4, <1>5, <1>6

\* The first n elements.
LEMMA FirstAre ==
    ASSUME NEW S, NEW s \in Seq(S), NEW n \in 0..Len(s)
    PROVE  /\ SubSeq(s, 1, n) \in Seq(S)
           /\ Len(SubSeq(s, 1, n)) = n
           /\ \A k \in 1..n : SubSeq(s, 1, n)[k] = s[k]
  <1>1. Len(s) \in Nat /\ \A k \in 1..Len(s) : s[k] \in S
    BY LenProperties
  <1>2. n \in Int /\ 1 \in Int /\ \A k \in 1..n : s[k] \in S
    BY <1>1
  <1>3. /\ SubSeq(s, 1, n) \in Seq(S) /\ Len(SubSeq(s, 1, n)) = IF 1 <= n THEN n - 1 + 1 ELSE 0
        /\ \A k \in 1..(n - 1 + 1) : SubSeq(s, 1, n)[k] = s[1 + k - 1]
    BY <1>2, SubSeqProperties
  <1> QED
    BY <1>1, <1>3

\* Without repetition an inserted element adds itself to what a sequence has, a removed one
\* takes itself away, and a replaced one does both.
LEMMA InsertedInjective ==
    ASSUME NEW S, NEW s \in Seq(S), NEW i \in 1..(Len(s) + 1), NEW e \in S,
           IsInjective(s), e \notin Range(s)
    PROVE  /\ IsInjective(InsertAt(s, i, e))
           /\ Range(InsertAt(s, i, e)) = Range(s) \cup {e}
  <1> DEFINE q == InsertAt(s, i, e)
  <1>1. /\ Len(s) \in Nat /\ DOMAIN s = 1..Len(s)
        /\ q \in Seq(S) /\ Len(q) = Len(s) + 1 /\ DOMAIN q = 1..(Len(s) + 1)
        /\ \A k \in 1..(Len(s) + 1) :
              q[k] = IF k < i THEN s[k] ELSE IF k = i THEN e ELSE s[k - 1]
    <2>1. /\ q \in Seq(S) /\ Len(q) = Len(s) + 1
          /\ \A k \in 1..(Len(s) + 1) :
                q[k] = IF k < i THEN s[k] ELSE IF k = i THEN e ELSE s[k - 1]
      BY InsertAtIs, SMTT(30)
    <2> HIDE DEF q
    <2> QED
      BY <2>1, LenProperties
  <1> HIDE DEF q
  <1>2. \A k \in 1..Len(s) : s[k] # e
    BY <1>1 DEF Range
  <1>3. ASSUME NEW j \in 1..(Len(s) + 1), NEW k \in 1..(Len(s) + 1), q[j] = q[k]
        PROVE  j = k
    <2> DEFINE p(m) == IF m < i THEN m ELSE m - 1
    <2>1. ASSUME NEW m \in 1..(Len(s) + 1), m # i
          PROVE  p(m) \in 1..Len(s) /\ q[m] = s[p(m)]
      BY <1>1, <2>1
    <2>2. q[i] = e
      BY <1>1
    <2>3. CASE j = i \/ k = i
      <3> HIDE DEF p
      <3> QED
        BY <1>2, <1>3, <2>1, <2>2, <2>3
    <2>4. CASE j # i /\ k # i
      <3>1. p(j) = p(k)
        <4>1. \A u, w \in 1..Len(s) : s[u] = s[w] => u = w
          BY <1>1 DEF IsInjective
        <4> HIDE DEF p
        <4> QED
          BY <1>3, <2>1, <2>4, <4>1
      <3> QED
        BY <1>1, <2>4, <3>1
    <2> QED
      BY <2>3, <2>4
  <1>4. ASSUME NEW k \in 1..(Len(s) + 1)
        PROVE  q[k] \in Range(s) \cup {e}
    <2>1. (k < i => k \in 1..Len(s)) /\ (k > i => k - 1 \in 1..Len(s)) /\ (k < i \/ k = i \/ k > i)
      BY <1>1
    <2>2. q[k] = e \/ \E m \in 1..Len(s) : q[k] = s[m]
      BY <1>1, <2>1
    <2> QED
      BY <1>1, <2>2 DEF Range
  <1>5. ASSUME NEW k \in 1..Len(s) PROVE s[k] \in Range(q)
    <2>1. k \in 1..(Len(s) + 1) /\ k + 1 \in 1..(Len(s) + 1) /\ (k + 1) - 1 = k
      BY <1>1
    <2>2. s[k] = IF k < i THEN q[k] ELSE q[k + 1]
      <3>1. ~(k < i) => ~(k + 1 < i) /\ k + 1 # i
        BY <1>1
      <3> QED
        BY <1>1, <2>1, <3>1
    <2> QED
      BY <1>1, <2>1, <2>2 DEF Range
  <1>6. e \in Range(q)
    BY <1>1 DEF Range
  <1>7. IsInjective(q)
    BY <1>1, <1>3 DEF IsInjective
  <1>8. Range(q) = Range(s) \cup {e}
    BY <1>1, <1>4, <1>5, <1>6 DEF Range
  <1> QED
    BY <1>7, <1>8 DEF q

\* A removed element is nowhere else.
LEMMA RemovedInjective ==
    ASSUME NEW S, NEW s \in Seq(S), NEW i \in 1..Len(s), IsInjective(s)
    PROVE  /\ IsInjective(RemoveAt(s, i))
           /\ Range(RemoveAt(s, i)) = Range(s) \ {s[i]}
  <1> DEFINE q == RemoveAt(s, i)
  <1>1. /\ Len(s) \in Nat /\ DOMAIN s = 1..Len(s)
        /\ q \in Seq(S) /\ Len(q) = Len(s) - 1 /\ DOMAIN q = 1..(Len(s) - 1)
        /\ \A k \in 1..(Len(s) - 1) : q[k] = IF k < i THEN s[k] ELSE s[k + 1]
    BY RemoveAtIs, LenProperties
  <1> HIDE DEF q
  <1>2. \A k \in 1..(Len(s) - 1) : k \in 1..Len(s) /\ k + 1 \in 1..Len(s)
    BY <1>1
  <1>3. \A j, k \in 1..Len(s) : s[j] = s[k] => j = k
    BY <1>1 DEF IsInjective
  <1>4. ASSUME NEW j \in 1..(Len(s) - 1), NEW k \in 1..(Len(s) - 1), q[j] = q[k]
        PROVE  j = k
    <2> DEFINE p(m) == IF m < i THEN m ELSE m + 1
    <2>1. /\ p(j) \in 1..Len(s) /\ p(k) \in 1..Len(s)
          /\ q[j] = s[p(j)] /\ q[k] = s[p(k)]
      BY <1>1, <1>2
    <2>2. p(j) = p(k)
      <3> HIDE DEF p
      <3> QED
        BY <1>3, <1>4, <2>1
    <2> QED
      BY <1>1, <2>2
  <1>5. ASSUME NEW k \in 1..(Len(s) - 1)
        PROVE  q[k] \in Range(s) \ {s[i]}
    <2>1. \E j \in 1..Len(s) : j # i /\ q[k] = s[j]
      BY <1>1, <1>2
    <2> QED
      BY <1>1, <1>3, <2>1 DEF Range
  <1>6. ASSUME NEW k \in 1..Len(s), k # i PROVE s[k] \in Range(q)
    <2>1. CASE k < i
      <3>1. k \in 1..(Len(s) - 1)
        BY <1>1, <2>1
      <3> QED
        BY <1>1, <2>1, <3>1 DEF Range
    <2>2. CASE k > i
      <3>1. k - 1 \in 1..(Len(s) - 1) /\ (k - 1) + 1 = k /\ ~(k - 1 < i)
        BY <1>1, <2>2
      <3> QED
        BY <1>1, <3>1 DEF Range
    <2> QED
      BY <1>6, <2>1, <2>2
  <1>7. IsInjective(q)
    BY <1>1, <1>4 DEF IsInjective
  <1>8. Range(q) = Range(s) \ {s[i]}
    BY <1>1, <1>5, <1>6 DEF Range
  <1> QED
    BY <1>7, <1>8 DEF q

\* A replaced element is nowhere else.
LEMMA ReplacedInjective ==
    ASSUME NEW S, NEW s \in Seq(S), NEW i \in 1..Len(s), NEW e \in S,
           IsInjective(s), e \notin Range(s), NEW q, q = [s EXCEPT ![i] = e]
    PROVE  IsInjective(q) /\ Range(q) = (Range(s) \ {s[i]}) \cup {e}
  <1>1. DOMAIN s = 1..Len(s) /\ DOMAIN q = 1..Len(s)
    BY LenProperties
  <1>2. \A k \in 1..Len(s) : q[k] = IF k = i THEN e ELSE s[k]
    BY <1>1
  <1>3. \A j, k \in 1..Len(s) : s[j] = s[k] => j = k
    BY <1>1 DEF IsInjective
  <1>4. \A k \in 1..Len(s) : s[k] # e
    BY <1>1 DEF Range
  <1>5. IsInjective(q)
    BY <1>1, <1>2, <1>3, <1>4 DEF IsInjective
  <1>6. Range(q) = (Range(s) \ {s[i]}) \cup {e}
    BY <1>1, <1>2, <1>3, <1>4 DEF Range
  <1> QED
    BY <1>5, <1>6

-----------------------------------------------------------------------------
(* The inductive invariant.                                                *)

\* The items that a vector holds.
Mine(r) == IF r # Null /\ r.owned THEN Range(r.elems) ELSE {}

ElemsOf(r) == IF r.owned THEN Items ELSE Values

\* A vector between two calls.
Sound(r) ==
    /\ r \in Vectors /\ ~r.freed
    /\ r.elems \in Seq(ElemsOf(r))
    /\ r.owned => IsInjective(r.elems)
    /\ Len(r.elems) <= r.capacity /\ Holds(r, r.capacity)
    /\ r.capacity = 0 => r.bytes = 0

Types ==
    /\ vec \in [Vecs -> Vectors \cup {Null}]
    /\ value \in [Items -> Values \cup {Null}]
    /\ given \subseteq Items

\* An allocated item is a vector's or the caller's.
OneOwner ==
    /\ \A u, v \in Vecs : u # v => Mine(vec[u]) \cap Mine(vec[v]) = {}
    /\ \A v \in Vecs : Mine(vec[v]) \cap given = {}
    /\ \A i \in Items : value[i] # Null <=> i \in given \/ \E v \in Vecs : i \in Mine(vec[v])

Good == Types /\ ~corrupted /\ (\A v \in Vecs : Exists(v) => Sound(vec[v])) /\ OneOwner

Inv == ~diverged => Good

-----------------------------------------------------------------------------
(* Single vectors.                                                         *)

\* The room that a capacity takes in the array.
LEMMA RoomTaken ==
    ASSUME NEW r, NEW n \in Nat
    PROVE  n * Size(r) = IF r.owned THEN n + n ELSE n
  <1>1. n * 2 = n + n /\ n * 1 = n
    OBVIOUS
  <1> QED
    BY <1>1, Zenon DEF Size

\* What a sound vector is, field by field.
LEMMA SoundIs ==
    ASSUME NEW r, Sound(r)
    PROVE  /\ r # Null /\ r \in Vectors /\ r.owned \in BOOLEAN /\ ~r.freed
           /\ r.capacity \in Nat /\ r.bytes \in Nat
           /\ r.elems \in Seq(ElemsOf(r)) /\ Len(r.elems) \in Nat
           /\ DOMAIN r.elems = 1..Len(r.elems)
           /\ Len(r.elems) <= r.capacity
           /\ IF r.owned THEN r.capacity + r.capacity <= r.bytes ELSE r.capacity <= r.bytes
           /\ r.capacity = 0 => r.bytes = 0
           /\ Mine(r) \subseteq Items
           /\ \A i : i \in Mine(r) <=> r.owned /\ \E k \in 1..Len(r.elems) : r.elems[k] = i
           /\ \A k \in 1..Len(r.elems) : r.elems[k] \in ElemsOf(r)
           /\ r.owned => \A j, k \in 1..Len(r.elems) : r.elems[j] = r.elems[k] => j = k
  <1>1. r # Null /\ r \in Vectors /\ ~r.freed
    BY NullAssumption DEF Sound
  <1>2. r.owned \in BOOLEAN /\ r.capacity \in Nat /\ r.bytes \in Nat
    BY <1>1 DEF Vectors
  <1>3. r.elems \in Seq(ElemsOf(r))
    BY DEF Sound
  <1>4. Len(r.elems) \in Nat /\ DOMAIN r.elems = 1..Len(r.elems)
        /\ \A k \in 1..Len(r.elems) : r.elems[k] \in ElemsOf(r)
    BY <1>3, LenProperties
  <1>5. Len(r.elems) <= r.capacity /\ (r.capacity = 0 => r.bytes = 0)
    BY DEF Sound
  <1>6. r.capacity * Size(r) <= r.bytes
    BY DEF Sound, Holds
  <1>7. IF r.owned THEN r.capacity + r.capacity <= r.bytes ELSE r.capacity <= r.bytes
    BY <1>2, <1>6, RoomTaken
  <1>8. \A i : i \in Mine(r) <=> r.owned /\ \E k \in 1..Len(r.elems) : r.elems[k] = i
    BY <1>1, <1>4 DEF Mine, Range
  <1>9. Mine(r) \subseteq Items
    BY <1>4, <1>8 DEF ElemsOf
  <1>10. r.owned => \A j, k \in 1..Len(r.elems) : r.elems[j] = r.elems[k] => j = k
    BY <1>4 DEF Sound, IsInjective
  <1> QED
    BY <1>1, <1>2, <1>3, <1>4, <1>5, <1>7, <1>8, <1>9, <1>10

\* A record with these fields is a sound vector.
LEMMA MakeSound ==
    ASSUME NEW b \in Nat, NEW c \in Nat, NEW o \in BOOLEAN,
           NEW e \in Seq(IF o THEN Items ELSE Values), o => IsInjective(e),
           Len(e) <= c, IF o THEN c + c <= b ELSE c <= b, c = 0 => b = 0
    PROVE  Sound([bytes |-> b, capacity |-> c, elems |-> e, owned |-> o, freed |-> FALSE])
  <1> DEFINE r == [bytes |-> b, capacity |-> c, elems |-> e, owned |-> o, freed |-> FALSE]
  <1>1. e \in Seq(Items \cup Values)
    <2>1. (IF o THEN Items ELSE Values) \subseteq Items \cup Values
      OBVIOUS
    <2> QED
      BY <2>1, SeqMonotonic
  <1>2. r \in Vectors
    BY <1>1 DEF Vectors
  <1>3. /\ r.owned = o /\ r.elems = e /\ r.capacity = c /\ r.bytes = b /\ r.freed = FALSE
    OBVIOUS
  <1> HIDE DEF r
  <1>4. Holds(r, r.capacity)
    BY <1>3, RoomTaken DEF Holds
  <1>5. Sound(r)
    BY <1>2, <1>3, <1>4 DEF Sound, ElemsOf
  <1> QED
    BY <1>5 DEF r

\* The same vector with other elements that fit.
LEMMA NewElems ==
    ASSUME NEW r, Sound(r), NEW q \in Seq(ElemsOf(r)), r.owned => IsInjective(q),
           Len(q) <= r.capacity
    PROVE  LET s == [r EXCEPT !.elems = q]
           IN  /\ Sound(s) /\ s.elems = q /\ s.owned = r.owned /\ s.capacity = r.capacity
               /\ Mine(s) = IF r.owned THEN Range(q) ELSE {}
  <1> DEFINE s == [r EXCEPT !.elems = q]
  <1>1. r \in Vectors /\ ~r.freed /\ q \in Seq(Items \cup Values)
    <2>1. ElemsOf(r) \subseteq Items \cup Values
      BY DEF ElemsOf
    <2> QED
      BY <2>1, SoundIs, SeqMonotonic
  <1>2. /\ s \in Vectors /\ s.elems = q
        /\ s.owned = r.owned /\ s.capacity = r.capacity /\ s.bytes = r.bytes /\ s.freed = r.freed
    BY <1>1 DEF Vectors
  <1> HIDE DEF s
  <1>3. Holds(s, s.capacity)
    BY <1>2 DEF Sound, Holds, Size
  <1>4. Sound(s)
    BY <1>1, <1>2, <1>3 DEF Sound, ElemsOf
  <1>5. Mine(s) = IF r.owned THEN Range(q) ELSE {}
    BY <1>2, <1>4, SoundIs DEF Mine
  <1>6. /\ Sound(s) /\ s.elems = q /\ s.owned = r.owned /\ s.capacity = r.capacity
        /\ Mine(s) = IF r.owned THEN Range(q) ELSE {}
    BY <1>2, <1>4, <1>5
  <1> QED
    BY <1>6 DEF s

\* ucb_vector_reserve.
LEMMA ReservedIs ==
    ASSUME NEW r, Sound(r), NEW n \in Nat
    PROVE  LET s == Reserved(r, n)
           IN  /\ Sound(s) /\ s.elems = r.elems /\ s.owned = r.owned
               /\ s.capacity = IF n <= r.capacity THEN r.capacity ELSE n
  <1>1. CASE n <= r.capacity
    BY <1>1 DEF Reserved
  <1>2. CASE ~(n <= r.capacity)
    <2> DEFINE b == IF r.owned THEN n + n ELSE n
               s == [bytes |-> b, capacity |-> n, elems |-> r.elems, owned |-> r.owned,
                     freed |-> FALSE]
    <2>1. b \in Nat /\ b = n * Size(r)
      BY RoomTaken
    <2>2. Reserved(r, n) = [r EXCEPT !.capacity = n, !.bytes = b]
      BY <1>2, <2>1 DEF Reserved
    <2>3. r \in Vectors /\ r.freed = FALSE
      <3>1. r \in Vectors /\ ~r.freed
        BY SoundIs
      <3> QED
        BY <3>1 DEF Vectors
    <2>4. Reserved(r, n) = s
      BY <2>2, <2>3 DEF Vectors
    <2>5. Len(r.elems) <= n
      BY <1>2, SoundIs
    <2>6. r.elems \in Seq(IF r.owned THEN Items ELSE Values)
      BY SoundIs DEF ElemsOf
    <2>7. r.owned => IsInjective(r.elems)
      BY DEF Sound
    <2>8. r.owned \in BOOLEAN
      BY SoundIs
    <2>9. Sound(s)
      BY <1>2, <2>1, <2>5, <2>6, <2>7, <2>8, MakeSound
    <2> QED
      BY <1>2, <2>4, <2>9
  <1> QED
    BY <1>1, <1>2

\* Before an insert the array has doubled if it was full, and has room unless it had none.
LEMMA RoomIs ==
    ASSUME NEW r, Sound(r)
    PROVE  LET s == WithRoom(r)
           IN  /\ Sound(s) /\ s.elems = r.elems /\ s.owned = r.owned
               /\ r.capacity > 0 => Len(r.elems) + 1 <= s.capacity
               /\ r.capacity > 0 => Holds(s, Len(s.elems) + 1)
  <1> DEFINE s == WithRoom(r)
  <1>1. r.capacity \in Nat /\ 2 * r.capacity \in Nat /\ Len(r.elems) \in Nat
        /\ Len(r.elems) <= r.capacity
    BY SoundIs
  <1>2. /\ Sound(s) /\ s.elems = r.elems /\ s.owned = r.owned
        /\ r.capacity > 0 => Len(r.elems) + 1 <= s.capacity
    <2>1. CASE Full(r)
      <3>1. /\ Sound(s) /\ s.elems = r.elems /\ s.owned = r.owned
            /\ s.capacity = IF 2 * r.capacity <= r.capacity THEN r.capacity ELSE 2 * r.capacity
        BY <1>1, <2>1, ReservedIs DEF WithRoom, Grown
      <3> HIDE DEF s
      <3> QED
        BY <1>1, <2>1, <3>1 DEF Full
    <2>2. CASE ~Full(r)
      BY <1>1, <2>2 DEF Full, WithRoom
    <2> QED
      BY <2>1, <2>2
  <1> HIDE DEF s
  <1>3. ASSUME r.capacity > 0 PROVE Holds(s, Len(s.elems) + 1)
    <2> DEFINE n == Len(s.elems) + 1
    <2>1. n \in Nat /\ n <= s.capacity /\ s.capacity \in Nat /\ s.bytes \in Nat /\ ~s.freed
          /\ IF s.owned THEN s.capacity + s.capacity <= s.bytes ELSE s.capacity <= s.bytes
      BY <1>1, <1>2, <1>3, SoundIs
    <2> HIDE DEF n
    <2>2. n * Size(s) = IF s.owned THEN n + n ELSE n
      BY <2>1, RoomTaken
    <2>3. n * Size(s) <= s.bytes
      BY <2>1, <2>2
    <2>4. Holds(s, n)
      BY <2>1, <2>3 DEF Holds
    <2> QED
      BY <2>4 DEF n
  <1>4. /\ Sound(s) /\ s.elems = r.elems /\ s.owned = r.owned
        /\ r.capacity > 0 => Len(r.elems) + 1 <= s.capacity
        /\ r.capacity > 0 => Holds(s, Len(s.elems) + 1)
    BY <1>2, <1>3
  <1> QED
    BY <1>4 DEF s

-----------------------------------------------------------------------------
(* What a caller finds in a vector.                                        *)

Reads(r, val) ==
    IF r = Null THEN Null
    ELSE IF r.owned THEN [k \in DOMAIN r.elems |-> val[r.elems[k]]] ELSE r.elems

\* The contents of all vectors, before a step and after it.
LEMMA ContentsAre ==
    /\ Contents = [v \in Vecs |-> Reads(vec[v], value)]
    /\ Contents' = [v \in Vecs |-> Reads(vec'[v], value')]
  BY DEF Contents, Reads, Exists

\* To know what is read it is enough to know it at every position.
Shows(q, r, val) ==
    /\ Len(q) = Len(r.elems)
    /\ \A k \in 1..Len(q) : q[k] = IF r.owned THEN val[r.elems[k]] ELSE r.elems[k]

\* A sequence that shows what the vector holds at every position is what is read.
LEMMA ReadsEqual ==
    ASSUME NEW r, Sound(r), NEW val, NEW S, NEW q \in Seq(S), Shows(q, r, val)
    PROVE  Reads(r, val) = q
  <1> USE DEF Shows
  <1>1. r # Null /\ r.owned \in BOOLEAN /\ DOMAIN r.elems = 1..Len(q) /\ DOMAIN q = 1..Len(q)
        /\ Len(q) \in Nat
    BY SoundIs, LenProperties
  <1>2. q = [k \in 1..Len(q) |-> q[k]]
    BY <1>1, LenProperties
  <1>3. CASE r.owned
    BY <1>1, <1>2, <1>3 DEF Reads
  <1>4. CASE ~r.owned
    <2>1. r.elems \in Seq(ElemsOf(r))
      BY SoundIs
    <2>2. r.elems = [k \in 1..Len(q) |-> r.elems[k]]
      BY <1>1, <2>1, LenProperties
    <2>3. r.elems = q
      BY <1>2, <1>4, <2>2
    <2> QED
      BY <1>1, <1>4, <2>3 DEF Reads
  <1> QED
    BY <1>1, <1>3, <1>4

\* A vector whose items are allocated reads as a sequence of values.
LEMMA ReadsIs ==
    ASSUME NEW r, Sound(r), NEW val \in [Items -> Values \cup {Null}],
           \A i \in Mine(r) : val[i] # Null
    PROVE  /\ Reads(r, val) \in Seq(Values) /\ Reads(r, val) # Null
           /\ Len(Reads(r, val)) = Len(r.elems)
           /\ DOMAIN Reads(r, val) = 1..Len(r.elems)
           /\ \A k \in 1..Len(r.elems) :
                 Reads(r, val)[k] = IF r.owned THEN val[r.elems[k]] ELSE r.elems[k]
  <1> DEFINE n == Len(r.elems)
             q == [k \in 1..n |-> IF r.owned THEN val[r.elems[k]] ELSE r.elems[k]]
  <1>1. n \in Nat
    BY SoundIs
  <1>2. ASSUME NEW k \in 1..n
        PROVE  (IF r.owned THEN val[r.elems[k]] ELSE r.elems[k]) \in Values
    <2>1. r.elems[k] \in ElemsOf(r) /\ (r.owned => r.elems[k] \in Mine(r))
      BY SoundIs
    <2> QED
      BY <2>1 DEF ElemsOf
  <1>3. q \in Seq(Values) /\ Len(q) = n /\ DOMAIN q = 1..n
    <2>1. q \in [1..n -> Values]
      BY <1>2
    <2> HIDE DEF q
    <2> QED
      BY <1>1, <2>1, SeqDef, LenProperties
  <1>4. \A k \in 1..n : q[k] = IF r.owned THEN val[r.elems[k]] ELSE r.elems[k]
    OBVIOUS
  <1> HIDE DEF q
  <1>5. Reads(r, val) = q
    BY <1>3, <1>4, ReadsEqual DEF Shows
  <1> QED
    BY <1>3, <1>4, <1>5, NullAssumption

\* The same for the vectors of a good state, as VectorSpec sees them.
LEMMA Seen ==
    ASSUME Good, NEW v \in Vecs
    PROVE  /\ VS!Exists(v) <=> Exists(v)
           /\ Contents[v] = Reads(vec[v], value)
           /\ Exists(v) =>
                 /\ Contents[v] \in Seq(Values) /\ Len(Contents[v]) = Len(vec[v].elems)
                 /\ DOMAIN Contents[v] = 1..Len(vec[v].elems)
                 /\ \A k \in 1..Len(vec[v].elems) :
                       Contents[v][k] = IF vec[v].owned THEN value[vec[v].elems[k]]
                                        ELSE vec[v].elems[k]
  <1>1. Contents[v] = Reads(vec[v], value)
    BY ContentsAre
  <1>2. CASE ~Exists(v)
    BY <1>1, <1>2 DEF Exists, Reads, VS!Exists
  <1>3. CASE Exists(v)
    <2>1. Sound(vec[v])
      BY <1>3 DEF Good
    <2>2. \A i \in Mine(vec[v]) : value[i] # Null
      BY <2>1, SoundIs DEF Good, OneOwner
    <2>3. value \in [Items -> Values \cup {Null}]
      BY DEF Good, Types
    <2> QED
      BY <1>1, <1>3, <2>1, <2>2, <2>3, ReadsIs DEF VS!Exists
  <1> QED
    BY <1>2, <1>3

-----------------------------------------------------------------------------
(* A step that puts r in the place of vector v.                            *)

Replaces(v, r) ==
    /\ r # Null => Sound(r)
    /\ vec' = [vec EXCEPT ![v] = r]
    /\ value' \in [Items -> Values \cup {Null}] /\ ~corrupted'
    /\ given \subseteq given' /\ given' \subseteq given \cup Mine(vec[v])
    /\ given' \cap Mine(r) = {}
    /\ \A i \in Mine(r) : (i \in Mine(vec[v]) \/ value[i] = Null) /\ value'[i] # Null
    /\ \A i \in Mine(vec[v]) \ Mine(r) : value'[i] # Null <=> i \in given'
    /\ \A i \in Items \ (Mine(vec[v]) \cup Mine(r)) : value'[i] = value[i]

\* Its new items were nobody's, and those it has no more are freed or the caller's: then
\* all items have one owner, and the other vectors read as before.
LEMMA Replaced ==
    ASSUME Good, NEW v \in Vecs, NEW r, Replaces(v, r)
    PROVE  Good' /\ Contents' = [Contents EXCEPT ![v] = Reads(r, value')]
  <1> DEFINE new(u) == IF u = v THEN r ELSE vec[u]
  <1>1. /\ vec \in [Vecs -> Vectors \cup {Null}] /\ value \in [Items -> Values \cup {Null}]
        /\ given \subseteq Items
        /\ \A u \in Vecs : vec[u] # Null => Sound(vec[u])
    BY DEF Good, Types, Exists
  <1>2. \A u \in Vecs : vec'[u] = new(u)
    BY <1>1 DEF Replaces
  <1>3. r \in Vectors \cup {Null} /\ Mine(r) \subseteq Items
    <2>1. CASE r = Null
      BY <2>1 DEF Mine
    <2>2. CASE r # Null
      BY <2>2, SoundIs DEF Replaces
    <2> QED
      BY <2>1, <2>2
  <1>4. \A u \in Vecs : Mine(vec[u]) \subseteq Items
    <2> SUFFICES ASSUME NEW u \in Vecs PROVE Mine(vec[u]) \subseteq Items
      OBVIOUS
    <2>1. CASE vec[u] = Null
      BY <2>1 DEF Mine
    <2>2. CASE vec[u] # Null
      BY <1>1, <2>2, SoundIs
    <2> QED
      BY <2>1, <2>2
  <1>5. /\ \A u, w \in Vecs : u # w => Mine(vec[u]) \cap Mine(vec[w]) = {}
        /\ \A u \in Vecs : Mine(vec[u]) \cap given = {}
        /\ \A i \in Items : value[i] # Null <=> i \in given \/ \E u \in Vecs : i \in Mine(vec[u])
    BY DEF Good, OneOwner
  <1>6. Types'
    BY <1>1, <1>3, <1>4 DEF Types, Replaces
  <1>7. \A u \in Vecs : vec'[u] # Null => Sound(vec'[u])
    BY <1>1, <1>2 DEF Replaces
  <1>8. ASSUME NEW u \in Vecs, u # v PROVE Mine(vec[u]) \cap Mine(r) = {} /\ Mine(vec[u]) \cap given' = {}
    BY <1>4, <1>5, <1>8 DEF Replaces
  <1>9. \A u, w \in Vecs : u # w => Mine(vec'[u]) \cap Mine(vec'[w]) = {}
    BY <1>2, <1>5, <1>8
  <1>10. \A u \in Vecs : Mine(vec'[u]) \cap given' = {}
    BY <1>2, <1>8 DEF Replaces
  <1>11. ASSUME NEW i \in Items
         PROVE  value'[i] # Null <=> i \in given' \/ \E u \in Vecs : i \in Mine(vec'[u])
    <2>1. CASE i \in Mine(r)
      BY <1>2, <2>1 DEF Replaces
    <2>2. CASE i \in Mine(vec[v]) /\ i \notin Mine(r)
      <3>1. \A u \in Vecs : i \notin Mine(vec'[u])
        BY <1>2, <1>5, <2>2
      <3> QED
        BY <2>2, <3>1 DEF Replaces
    <2>3. CASE i \notin Mine(vec[v]) /\ i \notin Mine(r)
      <3>1. \A u \in Vecs : i \in Mine(vec'[u]) <=> i \in Mine(vec[u])
        BY <1>2, <2>3
      <3>2. i \in given' <=> i \in given
        BY <2>3 DEF Replaces
      <3>3. value'[i] = value[i]
        BY <2>3 DEF Replaces
      <3> QED
        BY <1>5, <3>1, <3>2, <3>3
    <2> QED
      BY <2>1, <2>2, <2>3
  <1>12. OneOwner'
    BY <1>9, <1>10, <1>11 DEF OneOwner
  <1>13. Good'
    BY <1>6, <1>7, <1>12 DEF Good, Exists, Replaces
  <1>14. ASSUME NEW u \in Vecs, u # v PROVE Reads(vec[u], value') = Reads(vec[u], value)
    <2>1. CASE vec[u] = Null
      BY <2>1 DEF Reads
    <2>2. CASE vec[u] # Null
      <3>1. Sound(vec[u])
        BY <1>1, <2>2
      <3>2. ASSUME NEW k \in DOMAIN vec[u].elems, vec[u].owned
            PROVE  value'[vec[u].elems[k]] = value[vec[u].elems[k]]
        <4>1. vec[u].elems[k] \in Mine(vec[u])
          BY <3>1, <3>2, SoundIs
        <4>2. vec[u].elems[k] \in Items \ (Mine(vec[v]) \cup Mine(r))
          BY <1>4, <1>5, <1>8, <1>14, <4>1
        <4> QED
          BY <4>2 DEF Replaces
      <3> QED
        BY <2>2, <3>2 DEF Reads
    <2> QED
      BY <2>1, <2>2
  <1>15. Contents' = [Contents EXCEPT ![v] = Reads(r, value')]
    BY <1>2, <1>14, ContentsAre
  <1> QED
    BY <1>13, <1>15

\* data_free for elements that are allocated, each of them once.
LEMMA FreesAll ==
    ASSUME NEW r, NEW e, NEW kept \in [Items -> Values \cup {Null}],
           ~corrupted, FreeItems(r, e, kept),
           r.owned => IsInjective(e) /\ \A i \in Range(e) : value[i] # Null
    PROVE  /\ ~corrupted'
           /\ value' = [i \in Items |-> IF r.owned /\ i \in Range(e) THEN Null ELSE kept[i]]
           /\ value' \in [Items -> Values \cup {Null}]
  <1>1. CASE ~r.owned
    <2>1. value' = kept /\ ~corrupted'
      BY <1>1 DEF FreeItems
    <2>2. kept = [i \in Items |-> kept[i]]
      OBVIOUS
    <2> QED
      BY <1>1, <2>1, <2>2
  <1>2. CASE r.owned
    <2>1. \A i \in DOMAIN e : value[e[i]] # Null /\ \A j \in DOMAIN e : e[i] = e[j] => i = j
      BY <1>2 DEF Range, IsInjective
    <2>2. /\ value' = [i \in Items |-> IF i \in Range(e) THEN Null ELSE kept[i]]
          /\ ~corrupted'
      BY <1>2, <2>1 DEF FreeItems
    <2> QED
      BY <1>2, <2>2
  <1> QED
    BY <1>1, <1>2

\* The elements of a vector are such, and so is each one alone.
LEMMA FreeElems ==
    ASSUME Good, NEW v \in Vecs, Exists(v), NEW kept \in [Items -> Values \cup {Null}],
           FreeItems(vec[v], vec[v].elems, kept)
    PROVE  /\ ~corrupted' /\ value' \in [Items -> Values \cup {Null}]
           /\ \A i \in Items : value'[i] = IF i \in Mine(vec[v]) THEN Null ELSE kept[i]
  <1>1. Sound(vec[v]) /\ ~corrupted
    BY DEF Good
  <1>2. vec[v].owned =>
            /\ IsInjective(vec[v].elems) /\ Mine(vec[v]) = Range(vec[v].elems)
            /\ \A i \in Range(vec[v].elems) : value[i] # Null
    BY <1>1, SoundIs DEF Good, OneOwner, Sound, Mine, Exists
  <1>3. ~vec[v].owned => Mine(vec[v]) = {}
    BY DEF Mine
  <1> QED
    BY <1>1, <1>2, <1>3, FreesAll

\* data_free for one element.
LEMMA FreeOne ==
    ASSUME Good, NEW v \in Vecs, Exists(v), NEW k \in 1..Len(vec[v].elems),
           NEW kept \in [Items -> Values \cup {Null}],
           FreeItems(vec[v], <<vec[v].elems[k]>>, kept)
    PROVE  /\ ~corrupted' /\ value' \in [Items -> Values \cup {Null}]
           /\ \A i \in Items :
                 value'[i] = IF vec[v].owned /\ i = vec[v].elems[k] THEN Null ELSE kept[i]
  <1> DEFINE e == <<vec[v].elems[k]>>
  <1>1. Sound(vec[v]) /\ ~corrupted
    BY DEF Good
  <1>2. DOMAIN e = 1..1 /\ e[1] = vec[v].elems[k]
    OBVIOUS
  <1> HIDE DEF e
  <1>3. Range(e) = {vec[v].elems[k]} /\ IsInjective(e)
    BY <1>2 DEF Range, IsInjective
  <1>4. vec[v].owned => value[vec[v].elems[k]] # Null
    BY <1>1, SoundIs DEF Good, OneOwner
  <1>5. FreeItems(vec[v], e, kept)
    BY DEF e
  <1> QED
    BY <1>1, <1>3, <1>4, <1>5, FreesAll

\* An empty vector reads as an empty sequence.
LEMMA ReadsEmpty ==
    ASSUME NEW r, Sound(r), r.elems = <<>>, NEW val
    PROVE  Reads(r, val) = <<>> /\ Mine(r) = {}
  <1>1. <<>> \in Seq(Values) /\ Len(<<>>) = 0
    BY EmptySeq
  <1>2. \A k \in 1..0 : FALSE
    OBVIOUS
  <1>3. Mine(r) = {}
    BY <1>1, <1>2, SoundIs
  <1>4. Reads(r, val) = <<>>
    BY <1>1, <1>2, ReadsEqual DEF Shows
  <1> QED
    BY <1>3, <1>4

-----------------------------------------------------------------------------
(* The calls that leave the elements alone.                                *)

\* What a step that does not diverge leaves: a good state, and for VectorSpec one of its
\* steps or none.
Kept == Good' /\ (VS!Next \/ UNCHANGED Contents)

\* Another array for the same elements.
LEMMA SameElems ==
    ASSUME Good, NEW v \in Vecs, Exists(v), NEW r, Sound(r),
           r.elems = vec[v].elems, r.owned = vec[v].owned,
           vec' = [vec EXCEPT ![v] = r], UNCHANGED <<value, given, corrupted>>
    PROVE  Kept
  <1>1. Sound(vec[v]) /\ r # Null /\ vec[v] # Null
    BY SoundIs DEF Good, Exists
  <1>2. Mine(r) = Mine(vec[v]) /\ Reads(r, value) = Reads(vec[v], value)
    BY <1>1 DEF Mine, Reads
  <1>3. Replaces(v, r)
    BY <1>1, <1>2, SoundIs DEF Good, Types, OneOwner, Replaces
  <1>4. Good' /\ Contents' = [Contents EXCEPT ![v] = Reads(r, value')]
    BY <1>3, Replaced
  <1>5. Contents' = Contents
    BY <1>2, <1>4, ContentsAre, Seen
  <1> QED
    BY <1>4, <1>5 DEF Kept

\* A larger array, or none: ucb_vector_reserve.
LEMMA ReserveStep ==
    ASSUME Inv, ~diverged', NEW v \in Vecs, NEW n \in Nat, Reserve(v, n)
    PROVE  Kept
  <1>1. Good /\ Exists(v) /\ Sound(vec[v])
    BY DEF Inv, Good, Reserve, Call
  <1> QED
    BY <1>1, ReservedIs, SameElems DEF Reserve, Becomes

\* An array no larger than the elements need: ucb_vector_fit.
LEMMA FitStep ==
    ASSUME Inv, ~diverged', NEW v \in Vecs, Fit(v)
    PROVE  Kept
  <1>1. Good /\ Exists(v) /\ Sound(vec[v])
    BY DEF Inv, Good, Fit, Call
  <1> DEFINE r == vec[v]
             n == Len(r.elems)
             s == [r EXCEPT !.capacity = n, !.bytes = n * Size(r)]
  <1>2. CASE n < r.capacity
    <2>1. r \in Vectors /\ n \in Nat /\ n * Size(r) \in Nat /\ ~r.freed
      BY <1>1, SoundIs, RoomTaken
    <2>2. /\ s \in Vectors /\ s.elems = r.elems /\ s.owned = r.owned
          /\ s.capacity = n /\ s.bytes = n * Size(r) /\ s.freed = r.freed
      BY <2>1 DEF Vectors
    <2>3. vec' = [vec EXCEPT ![v] = s] /\ UNCHANGED <<value, given, corrupted>>
      BY <1>2 DEF Fit, Becomes
    <2> HIDE DEF s
    <2>4. Holds(s, s.capacity) /\ Len(s.elems) <= s.capacity /\ s.capacity # 0
      <3>1. n # 0
        BY <1>1, SoundIs, EmptySeq DEF Fit
      <3> QED
        BY <2>1, <2>2, <3>1 DEF Holds, Size
    <2>5. Sound(s)
      BY <1>1, <2>1, <2>2, <2>4 DEF Sound, ElemsOf
    <2> QED
      BY <1>1, <2>2, <2>3, <2>5, SameElems
  <1>3. CASE ~(n < r.capacity)
    <2>1. UNCHANGED <<vec, value, given, corrupted>>
      BY <1>3 DEF Fit
    <2> QED
      BY <1>1, <2>1, ContentsAre DEF Kept, Good, Types, OneOwner, Exists
  <1> QED
    BY <1>2, <1>3

\* If the elements have not been moved up, the failed clone leaves the vector as it was.
LEMMA InsertCloneFailsStep ==
    ASSUME Inv, ~diverged', NEW v \in Vecs, NEW i, InsertCloneFails(v, i)
    PROVE  Kept
  <1>1. ~diverged /\ Becomes(v, WithRoom(vec[v])) /\ UNCHANGED <<value, given, corrupted>>
    BY DEF InsertCloneFails, Diverges
  <1>2. Good /\ Exists(v) /\ Sound(vec[v])
    BY <1>1 DEF Inv, Good, InsertCloneFails, MayInsert, Call
  <1> QED
    BY <1>1, <1>2, RoomIs, SameElems DEF Becomes

-----------------------------------------------------------------------------
(* The calls on one vector.                                                *)

\* A new vector.
LEMMA FreshIs ==
    ASSUME NEW o \in BOOLEAN, NEW c \in Nat \ {0}
    PROVE  LET r == Fresh(o, c)
           IN  Sound(r) /\ r.elems = <<>> /\ r.owned = o /\ r.capacity = c
  <1> DEFINE r == Fresh(o, c)
             b == c * (IF o THEN 2 ELSE 1)
  <1>1. b \in Nat /\ IF o THEN c + c <= b ELSE c <= b
    OBVIOUS
  <1>2. r = [bytes |-> b, capacity |-> c, elems |-> <<>>, owned |-> o, freed |-> FALSE]
    BY DEF Fresh
  <1> HIDE DEF b
  <1>3. r.elems = <<>> /\ r.owned = o /\ r.capacity = c
    BY <1>2
  <1>4. ASSUME NEW e, e = <<>>
        PROVE  Sound([bytes |-> b, capacity |-> c, elems |-> e, owned |-> o, freed |-> FALSE])
    <2>1. e \in Seq(IF o THEN Items ELSE Values) /\ Len(e) <= c /\ IsInjective(e)
      BY <1>4, EmptySeq DEF IsInjective
    <2> QED
      BY <1>1, <2>1, MakeSound
  <1>5. Sound(r)
    BY <1>2, <1>4
  <1> QED
    BY <1>3, <1>5

\* ucb_vector_new: there is no element yet.
LEMMA NewStep ==
    ASSUME Inv, ~diverged', NEW v \in Vecs, NEW owned \in BOOLEAN, New(v, owned)
    PROVE  Kept
  <1> DEFINE r == Fresh(owned, DefaultCapacity)
  <1>1. Good /\ ~Exists(v) /\ vec[v] = Null /\ Mine(vec[v]) = {}
    BY DEF Inv, New, Exists, Mine
  <1>2. Sound(r) /\ r.elems = <<>>
    BY FreshIs, CapacityAssumption
  <1>3. vec' = [vec EXCEPT ![v] = r] /\ UNCHANGED <<value, given, corrupted>>
    BY DEF New, Becomes
  <1> HIDE DEF r
  <1>4. Mine(r) = {} /\ Reads(r, value') = <<>>
    BY <1>2, ReadsEmpty
  <1>5. Replaces(v, r)
    BY <1>1, <1>2, <1>3, <1>4 DEF Good, Types, Replaces
  <1>6. Good' /\ Contents' = [Contents EXCEPT ![v] = <<>>]
    BY <1>1, <1>4, <1>5, Replaced
  <1>7. VS!New(v)
    BY <1>1, <1>6, Seen DEF VS!New, VS!Becomes
  <1> QED
    BY <1>6, <1>7 DEF Kept, VS!Next

\* ucb_vector_clear frees every element, each of them once.
LEMMA ClearStep ==
    ASSUME Inv, ~diverged', NEW v \in Vecs, Clear(v)
    PROVE  Kept
  <1> DEFINE r == [vec[v] EXCEPT !.elems = <<>>]
  <1>1. Good /\ Exists(v) /\ Sound(vec[v]) /\ value \in [Items -> Values \cup {Null}]
    BY DEF Inv, Good, Types, Clear, Call
  <1>2. <<>> \in Seq(ElemsOf(vec[v])) /\ Len(<<>>) = 0 /\ IsInjective(<<>>)
    BY EmptySeq DEF IsInjective
  <1>3. Sound(r) /\ r.elems = <<>>
    <2>1. Len(<<>>) <= vec[v].capacity
      BY <1>1, <1>2, SoundIs
    <2> QED
      BY <1>1, <1>2, <2>1, NewElems
  <1>4. vec' = [vec EXCEPT ![v] = r] /\ UNCHANGED given /\ FreeItems(vec[v], vec[v].elems, value)
    BY DEF Clear, Becomes
  <1> HIDE DEF r
  <1>5. Mine(r) = {} /\ Reads(r, value') = <<>>
    BY <1>3, ReadsEmpty
  <1>6. /\ ~corrupted' /\ value' \in [Items -> Values \cup {Null}]
        /\ \A i \in Items : value'[i] = IF i \in Mine(vec[v]) THEN Null ELSE value[i]
    BY <1>1, <1>4, FreeElems
  <1>7. Mine(vec[v]) \subseteq Items /\ Mine(vec[v]) \cap given = {}
    BY <1>1, SoundIs DEF Good, OneOwner
  <1>8. Replaces(v, r)
    BY <1>3, <1>4, <1>5, <1>6, <1>7 DEF Replaces
  <1>9. Good' /\ Contents' = [Contents EXCEPT ![v] = <<>>]
    BY <1>1, <1>5, <1>8, Replaced
  <1>10. VS!Clear(v)
    BY <1>1, <1>9, Seen DEF VS!Clear, VS!Becomes
  <1> QED
    BY <1>9, <1>10 DEF Kept, VS!Next

\* ucb_vector_free frees every element, and there is no vector.
LEMMA FreeStep ==
    ASSUME Inv, ~diverged', NEW v \in Vecs, Free(v)
    PROVE  Kept
  <1>1. Good /\ Exists(v) /\ Sound(vec[v]) /\ value \in [Items -> Values \cup {Null}]
    BY DEF Inv, Good, Types, Free, Call
  <1>2. vec' = [vec EXCEPT ![v] = Null] /\ UNCHANGED given /\ FreeItems(vec[v], vec[v].elems, value)
    BY DEF Free, Becomes
  <1>3. Mine(Null) = {} /\ Reads(Null, value') = Null
    BY DEF Mine, Reads
  <1>4. /\ ~corrupted' /\ value' \in [Items -> Values \cup {Null}]
        /\ \A i \in Items : value'[i] = IF i \in Mine(vec[v]) THEN Null ELSE value[i]
    BY <1>1, <1>2, FreeElems
  <1>5. Mine(vec[v]) \subseteq Items /\ Mine(vec[v]) \cap given = {}
    BY <1>1, SoundIs DEF Good, OneOwner
  <1>6. Replaces(v, Null)
    BY <1>2, <1>3, <1>4, <1>5 DEF Replaces
  <1>7. Good' /\ Contents' = [Contents EXCEPT ![v] = Null]
    BY <1>1, <1>3, <1>6, Replaced
  <1>8. VS!Free(v)
    BY <1>1, <1>7, Seen DEF VS!Free, VS!Becomes
  <1> QED
    BY <1>7, <1>8 DEF Kept, VS!Next

\* What is stored: a value, or an item that nobody has.
LEMMA StoredIs ==
    ASSUME Good, NEW v \in Vecs, Exists(v), NEW r, r.owned = vec[v].owned,
           NEW x \in Values, NEW e \in Stored(r, x)
    PROVE  /\ e \in ElemsOf(vec[v])
           /\ vec[v].owned =>
                 /\ e \in Items /\ value[e] = Null
                 /\ e \notin given /\ \A u \in Vecs : e \notin Mine(vec[u])
           /\ WithClone(r, e, x) \in [Items -> Values \cup {Null}]
           /\ IF vec[v].owned THEN WithClone(r, e, x)[e] = x ELSE e = x
           /\ \A i \in Items : (vec[v].owned => i # e) => WithClone(r, e, x)[i] = value[i]
  <1>1. vec[v].owned \in BOOLEAN /\ value \in [Items -> Values \cup {Null}]
    BY SoundIs DEF Good, Types
  <1>2. CASE vec[v].owned
    BY <1>1, <1>2 DEF Stored, WithClone, ElemsOf, Good, OneOwner
  <1>3. CASE ~vec[v].owned
    BY <1>1, <1>3 DEF Stored, WithClone, ElemsOf
  <1> QED
    BY <1>1, <1>2, <1>3

\* ucb_vector_insert moves the elements up and stores the value, or a clone of it, in the gap.
LEMMA InsertStep ==
    ASSUME Inv, ~diverged', NEW v \in Vecs, NEW i, NEW x \in Values, Insert(v, i, x)
    PROVE  Kept
  <1> DEFINE old == vec[v]
             r == WithRoom(old)
  <1>1. ~diverged
    BY DEF Insert, Diverges
  <1>2. Good /\ Exists(v) /\ Sound(old) /\ i \in 1..(Len(old.elems) + 1) /\ ~corrupted
    BY <1>1 DEF Inv, Good, Insert, MayInsert, Call
  <1>3. /\ Sound(r) /\ r.elems = old.elems /\ r.owned = old.owned
        /\ old.capacity > 0 => Len(old.elems) + 1 <= r.capacity
        /\ old.capacity > 0 => Holds(r, Len(r.elems) + 1)
    BY <1>2, RoomIs
  <1>4. PICK e \in Stored(r, x) :
            /\ vec' = [vec EXCEPT ![v] = [r EXCEPT !.elems = InsertAt(@, i, e)]]
            /\ value' = WithClone(r, e, x) /\ UNCHANGED <<given, corrupted>>
            /\ Holds(r, Len(r.elems) + 1)
    <2>1. old.capacity \in Nat
      BY <1>2, SoundIs
    <2>2. Holds(r, Len(r.elems) + 1)
      BY <1>3, <2>1 DEF Insert, Diverges
    <2> QED
      BY <2>2 DEF Insert, Becomes, Shifted
  <1> HIDE DEF r
  <1>5. /\ old.elems \in Seq(ElemsOf(old)) /\ e \in ElemsOf(old)
        /\ value' \in [Items -> Values \cup {Null}]
        /\ old.owned =>
              /\ e \in Items /\ value[e] = Null /\ value'[e] = x
              /\ e \notin given /\ \A u \in Vecs : e \notin Mine(vec[u])
        /\ ~old.owned => e = x
        /\ \A j \in Items : (old.owned => j # e) => value'[j] = value[j]
    BY <1>2, <1>3, <1>4, StoredIs, SoundIs
  <1> DEFINE q == InsertAt(old.elems, i, e)
             s == [r EXCEPT !.elems = q]
  <1>6. /\ q \in Seq(ElemsOf(old)) /\ Len(q) = Len(old.elems) + 1
        /\ \A k \in 1..(Len(old.elems) + 1) :
              q[k] = IF k < i THEN old.elems[k] ELSE IF k = i THEN e ELSE old.elems[k - 1]
    <2>1. old.elems \in Seq(ElemsOf(old)) /\ i \in 1..(Len(old.elems) + 1) /\ e \in ElemsOf(old)
      BY <1>2, <1>5
    <2> HIDE DEF old
    <2> HIDE DEF q
    <2>2. ASSUME NEW a, a = old.elems
          PROVE  /\ InsertAt(a, i, e) \in Seq(ElemsOf(old)) /\ Len(InsertAt(a, i, e)) = Len(a) + 1
                 /\ \A k \in 1..(Len(a) + 1) :
                       InsertAt(a, i, e)[k] = IF k < i THEN a[k] ELSE IF k = i THEN e ELSE a[k - 1]
      <3>1. a \in Seq(ElemsOf(old)) /\ i \in 1..(Len(a) + 1) /\ e \in ElemsOf(old)
        BY <2>1, <2>2
      <3> QED
        BY <3>1, InsertAtIs
    <2> QED
      BY <2>2 DEF q
  <1>7. old.owned => IsInjective(q) /\ Range(q) = Mine(old) \cup {e}
    <2>1. old.owned => IsInjective(old.elems) /\ Mine(old) = Range(old.elems)
      BY <1>2, SoundIs DEF Sound, Mine
    <2> QED
      BY <1>2, <1>5, <2>1, InsertedInjective
  <1>8. Len(q) <= r.capacity
    <2>1. Len(r.elems) + 1 <= r.capacity
      <3>1. old.capacity > 0 \/ old.capacity = 0
        BY <1>2, SoundIs
      <3>2. CASE old.capacity = 0
        <4>1. Len(old.elems) = 0 /\ Full(old) /\ old.bytes = 0
          BY <1>2, <3>2, SoundIs DEF Full
        <4>2. r = old
          BY <3>2, <4>1 DEF WithRoom, Reserved, Grown, r
        <4>3. 1 * Size(old) <= old.bytes
          BY <1>3, <1>4, <4>1, <4>2 DEF Holds
        <4>4. FALSE
          BY <4>1, <4>3 DEF Size
        <4> QED
          BY <4>4
      <3> QED
        BY <1>3, <3>1, <3>2
    <2> QED
      BY <1>3, <1>6, <2>1
  <1> HIDE DEF q
  <1>9. /\ Sound(s) /\ s.elems = q /\ s.owned = old.owned
        /\ Mine(s) = IF old.owned THEN Range(q) ELSE {}
    <2>1. Sound(r) /\ q \in Seq(ElemsOf(r)) /\ (r.owned => IsInjective(q)) /\ Len(q) <= r.capacity
      BY <1>3, <1>6, <1>7, <1>8 DEF ElemsOf
    <2>2. r.owned = old.owned
      BY <1>3
    <2> QED
      BY <2>1, <2>2, NewElems
  <1>10. vec' = [vec EXCEPT ![v] = s]
    BY <1>3, <1>4 DEF q
  <1> HIDE DEF s
  <1>11. Replaces(v, s)
    <2>1. Mine(s) = IF old.owned THEN Mine(old) \cup {e} ELSE {}
      BY <1>7, <1>9
    <2>2. ~old.owned => Mine(old) = {}
      BY DEF Mine
    <2>3. \A j \in Mine(old) : value[j] # Null /\ j \notin given /\ j \in Items
      BY <1>2, SoundIs DEF Good, OneOwner
    <2>4. x # Null
      BY NullAssumption
    <2>5. ~corrupted' /\ given' = given
      BY <1>2, <1>4
    <2> QED
      BY <1>5, <1>9, <1>10, <2>1, <2>2, <2>3, <2>4, <2>5 DEF Replaces
  <1>12. Good' /\ Contents' = [Contents EXCEPT ![v] = Reads(s, value')]
    BY <1>2, <1>11, Replaced
  <1> DEFINE c == Contents[v]
  <1>13. /\ VS!Exists(v) /\ c \in Seq(Values) /\ Len(c) = Len(old.elems)
         /\ \A k \in 1..Len(old.elems) :
               c[k] = IF old.owned THEN value[old.elems[k]] ELSE old.elems[k]
    BY <1>2, Seen
  <1> HIDE DEF c
  <1>14. /\ InsertAt(c, i, x) \in Seq(Values) /\ Len(InsertAt(c, i, x)) = Len(q)
         /\ \A k \in 1..(Len(old.elems) + 1) :
               InsertAt(c, i, x)[k] = IF k < i THEN c[k] ELSE IF k = i THEN x ELSE c[k - 1]
    BY <1>2, <1>6, <1>13, InsertAtIs
  <1>15. ASSUME NEW k \in 1..Len(q)
         PROVE  InsertAt(c, i, x)[k] = IF s.owned THEN value'[s.elems[k]] ELSE s.elems[k]
    <2>1. Len(old.elems) \in Nat /\ k \in 1..(Len(old.elems) + 1)
      BY <1>2, <1>6, SoundIs
    <2>2. ASSUME NEW j \in 1..Len(old.elems)
          PROVE  c[j] = IF old.owned THEN value'[old.elems[j]] ELSE old.elems[j]
      <3>1. old.owned => old.elems[j] \in Items /\ old.elems[j] # e
        BY <1>2, <1>5, SoundIs
      <3> QED
        BY <1>5, <1>13, <3>1
    <2>3. CASE k < i
      <3>1. k \in 1..Len(old.elems) /\ q[k] = old.elems[k] /\ InsertAt(c, i, x)[k] = c[k]
        BY <1>2, <1>6, <1>14, <2>1, <2>3
      <3> QED
        BY <1>9, <2>2, <3>1
    <2>4. CASE k = i
      <3>1. q[k] = e /\ InsertAt(c, i, x)[k] = x
        BY <1>2, <1>6, <1>14, <2>1, <2>4
      <3> QED
        BY <1>5, <1>9, <3>1
    <2>5. CASE k > i
      <3>1. k - 1 \in 1..Len(old.elems) /\ q[k] = old.elems[k - 1] /\ InsertAt(c, i, x)[k] = c[k - 1]
        BY <1>2, <1>6, <1>14, <2>1, <2>5
      <3> QED
        BY <1>9, <2>2, <3>1
    <2>6. k < i \/ k = i \/ k > i
      BY <1>2, <2>1
    <2> QED
      BY <2>3, <2>4, <2>5, <2>6, Zenon
  <1>16. Reads(s, value') = InsertAt(c, i, x)
    <2>1. Shows(InsertAt(c, i, x), s, value')
      BY <1>9, <1>14, <1>15 DEF Shows
    <2> QED
      BY <1>9, <1>14, <2>1, ReadsEqual
  <1>17. i \in 1..(Len(c) + 1) /\ Contents' = [Contents EXCEPT ![v] = InsertAt(c, i, x)]
    BY <1>2, <1>12, <1>13, <1>16
  <1>18. VS!Insert(v, i, x) /\ i \in 1..(Len(Contents[v]) + 1)
    BY <1>13, <1>17 DEF c, VS!Insert, VS!Becomes, VS!InsertAt, InsertAt
  <1> QED
    BY <1>12, <1>13, <1>18 DEF Kept, VS!Next

\* The element is freed, or the caller's if it asked for it.
LEMMA RemoveStep ==
    ASSUME Inv, ~diverged', NEW v \in Vecs, NEW i, NEW out \in BOOLEAN, RemoveElem(v, i, out)
    PROVE  Kept
  <1> DEFINE old == vec[v]
             e == old.elems[i]
             q == RemoveAt(old.elems, i)
             s == [old EXCEPT !.elems = q]
             c == Contents[v]
  <1>1. ~diverged
    BY DEF RemoveElem
  <1>2. /\ Good /\ Exists(v) /\ Sound(old) /\ ~corrupted
        /\ value \in [Items -> Values \cup {Null}] /\ given \subseteq Items
    BY <1>1 DEF Inv, Good, Types, RemoveElem, Call
  <1>3. i \in 1..Len(old.elems) /\ old.elems \in Seq(ElemsOf(old))
    BY <1>2, SoundIs DEF RemoveElem
  <1>4. /\ vec' = [vec EXCEPT ![v] = s]
        /\ given' = IF out /\ old.owned THEN given \cup {e} ELSE given
        /\ IF out THEN UNCHANGED <<value, corrupted>> ELSE FreeItems(old, <<e>>, value)
    BY DEF RemoveElem, Becomes
  <1>5. /\ ~corrupted' /\ value' \in [Items -> Values \cup {Null}]
        /\ \A j \in Items : value'[j] = IF ~out /\ old.owned /\ j = e THEN Null ELSE value[j]
    <2>1. CASE out
      BY <1>2, <1>4, <2>1
    <2>2. CASE ~out
      <3>1. FreeItems(old, <<e>>, value)
        BY <1>4, <2>2
      <3>2. /\ ~corrupted' /\ value' \in [Items -> Values \cup {Null}]
            /\ \A j \in Items : value'[j] = IF old.owned /\ j = e THEN Null ELSE value[j]
        BY <1>2, <1>3, <3>1, FreeOne
      <3> QED
        BY <2>2, <3>2
    <2> QED
      BY <2>1, <2>2
  <1>6. ASSUME NEW S, NEW a \in Seq(S), Len(a) = Len(old.elems)
        PROVE  /\ RemoveAt(a, i) \in Seq(S) /\ Len(RemoveAt(a, i)) = Len(a) - 1
               /\ \A k \in 1..(Len(a) - 1) : RemoveAt(a, i)[k] = IF k < i THEN a[k] ELSE a[k + 1]
    <2>1. i \in 1..Len(a)
      BY <1>3, <1>6
    <2> QED
      BY <2>1, RemoveAtIs
  <1>7. /\ q \in Seq(ElemsOf(old)) /\ Len(q) = Len(old.elems) - 1
        /\ \A k \in 1..(Len(old.elems) - 1) :
              q[k] = IF k < i THEN old.elems[k] ELSE old.elems[k + 1]
    BY <1>3, <1>6
  <1>8. old.owned => /\ IsInjective(q) /\ Range(q) = Mine(old) \ {e}
                     /\ e \in Mine(old) /\ e \in Items
    <2>1. old.owned => IsInjective(old.elems) /\ Mine(old) = Range(old.elems)
      BY <1>2, SoundIs DEF Sound, Mine
    <2>2. old.owned => e \in Mine(old) /\ e \in Items
      BY <1>2, <1>3, SoundIs
    <2>3. \A S : \A a \in Seq(S) : i \in 1..Len(a) /\ IsInjective(a) =>
             IsInjective(RemoveAt(a, i)) /\ Range(RemoveAt(a, i)) = Range(a) \ {a[i]}
      BY RemovedInjective
    <2> QED
      BY <1>3, <2>1, <2>2, <2>3
  <1> HIDE DEF q
  <1>9. /\ Sound(s) /\ s.elems = q /\ s.owned = old.owned
        /\ Mine(s) = IF old.owned THEN Range(q) ELSE {}
    <2>1. Len(q) <= old.capacity
      BY <1>2, <1>3, <1>7, SoundIs
    <2>2. Sound(old) /\ q \in Seq(ElemsOf(old)) /\ (old.owned => IsInjective(q))
      BY <1>2, <1>7, <1>8
    <2> QED
      BY <2>1, <2>2, NewElems
  <1> HIDE DEF s, e
  <1>10. Replaces(v, s)
    <2>1. Mine(s) = IF old.owned THEN Mine(old) \ {e} ELSE {}
      BY <1>8, <1>9
    <2>2. ~old.owned => Mine(old) = {}
      BY DEF Mine
    <2>3. \A j \in Mine(old) : value[j] # Null /\ j \notin given /\ j \in Items
      BY <1>2, SoundIs DEF Good, OneOwner
    <2> QED
      BY <1>4, <1>5, <1>8, <1>9, <2>1, <2>2, <2>3 DEF Replaces
  <1>11. Good' /\ Contents' = [Contents EXCEPT ![v] = Reads(s, value')]
    BY <1>2, <1>10, Replaced
  <1>12. /\ VS!Exists(v) /\ c \in Seq(Values) /\ Len(c) = Len(old.elems)
         /\ DOMAIN c = 1..Len(old.elems)
         /\ \A k \in 1..Len(old.elems) :
               c[k] = IF old.owned THEN value[old.elems[k]] ELSE old.elems[k]
    BY <1>2, Seen
  <1> DEFINE t == RemoveAt(c, i)
  <1> HIDE DEF c
  <1>13. /\ t \in Seq(Values) /\ Len(t) = Len(q)
         /\ \A k \in 1..(Len(old.elems) - 1) : t[k] = IF k < i THEN c[k] ELSE c[k + 1]
    BY <1>6, <1>7, <1>12
  <1> HIDE DEF t
  <1>14. ASSUME NEW k \in 1..Len(t)
         PROVE  t[k] = IF s.owned THEN value'[s.elems[k]] ELSE s.elems[k]
    <2>1. /\ k \in 1..(Len(old.elems) - 1) /\ k \in 1..Len(old.elems)
          /\ k + 1 \in 1..Len(old.elems) /\ (k < i \/ k >= i)
      BY <1>2, <1>3, <1>7, <1>13, SoundIs
    <2>2. ASSUME NEW j \in 1..Len(old.elems), j # i
          PROVE  c[j] = IF old.owned THEN value'[old.elems[j]] ELSE old.elems[j]
      <3>1. old.owned => old.elems[j] \in Items /\ old.elems[j] # e
        BY <1>2, <1>3, <2>2, SoundIs DEF ElemsOf, e
      <3> QED
        BY <1>5, <1>12, <3>1
    <2>3. CASE k < i
      <3>1. k # i
        BY <1>3, <2>3
      <3> QED
        BY <1>7, <1>9, <1>13, <2>1, <2>2, <2>3, <3>1
    <2>4. CASE k >= i
      <3>1. k + 1 # i /\ ~(k < i)
        BY <1>3, <2>1, <2>4
      <3> QED
        BY <1>7, <1>9, <1>13, <2>1, <2>2, <3>1
    <2> QED
      BY <2>1, <2>3, <2>4
  <1>15. Reads(s, value') = t
    <2>1. Sound(s) /\ t \in Seq(Values) /\ Shows(t, s, value')
      BY <1>9, <1>13, <1>14 DEF Shows
    <2> QED
      BY <2>1, ReadsEqual
  <1>16. Contents' = [Contents EXCEPT ![v] = RemoveAt(c, i)]
    BY <1>11, <1>15 DEF t
  <1>17. i \in DOMAIN c /\ i \in 1..(Len(c) + 1)
    BY <1>3, <1>12
  <1>18. VS!RemoveElem(v, i) /\ i \in 1..(Len(Contents[v]) + 1)
    BY <1>12, <1>16, <1>17 DEF c, VS!RemoveElem, VS!Becomes, VS!RemoveAt, RemoveAt
  <1> QED
    BY <1>11, <1>12, <1>18 DEF Kept, VS!Next

\* ucb_vector_set frees the old element and stores the value, or a clone of it, in its place.
LEMMA SetStep ==
    ASSUME Inv, ~diverged', NEW v \in Vecs, NEW i, NEW x \in Values, Set(v, i, x)
    PROVE  Kept
  <1> DEFINE old == vec[v]
             d == old.elems[i]
             c == Contents[v]
  <1>1. ~diverged
    BY DEF Set
  <1>2. /\ Good /\ Exists(v) /\ Sound(old) /\ ~corrupted
        /\ value \in [Items -> Values \cup {Null}] /\ given \subseteq Items
    BY <1>1 DEF Inv, Good, Types, Set, Call
  <1>3. i \in 1..Len(old.elems) /\ old.elems \in Seq(ElemsOf(old))
    BY <1>2, SoundIs DEF Set
  <1>4. PICK e \in Stored(old, x) :
            /\ FreeItems(old, <<d>>, WithClone(old, e, x))
            /\ vec' = [vec EXCEPT ![v] = [old EXCEPT !.elems[i] = e]]
            /\ given' = given
    BY DEF Set, Becomes
  <1>5. /\ e \in ElemsOf(old)
        /\ old.owned =>
              /\ e \in Items /\ value[e] = Null
              /\ e \notin given /\ \A u \in Vecs : e \notin Mine(vec[u])
        /\ WithClone(old, e, x) \in [Items -> Values \cup {Null}]
        /\ IF old.owned THEN WithClone(old, e, x)[e] = x ELSE e = x
        /\ \A j \in Items : (old.owned => j # e) => WithClone(old, e, x)[j] = value[j]
    BY <1>2, StoredIs
  <1>6. old.owned => d \in Mine(old) /\ d \in Items /\ d # e
    BY <1>2, <1>3, <1>5, SoundIs
  <1>7. /\ ~corrupted' /\ value' \in [Items -> Values \cup {Null}]
        /\ \A j \in Items :
              value'[j] = IF old.owned /\ j = d THEN Null ELSE WithClone(old, e, x)[j]
    BY <1>2, <1>3, <1>4, <1>5, FreeOne
  <1> DEFINE q == [old.elems EXCEPT ![i] = e]
             s == [old EXCEPT !.elems = q]
             t == [c EXCEPT ![i] = x]
  <1>8. /\ q \in Seq(ElemsOf(old)) /\ Len(q) = Len(old.elems)
        /\ \A k \in 1..Len(old.elems) : q[k] = IF k = i THEN e ELSE old.elems[k]
    <2>1. \A S : \A a \in Seq(S) : \A b \in S : i \in 1..Len(a) =>
             /\ [a EXCEPT ![i] = b] \in Seq(S) /\ Len([a EXCEPT ![i] = b]) = Len(a)
             /\ \A k \in 1..Len(a) : [a EXCEPT ![i] = b][k] = IF k = i THEN b ELSE a[k]
      BY ExceptSeq
    <2> QED
      BY <1>3, <1>5, <2>1
  <1>9. old.owned => IsInjective(q) /\ Range(q) = (Mine(old) \ {d}) \cup {e}
    <2>1. old.owned => IsInjective(old.elems) /\ Mine(old) = Range(old.elems)
      BY <1>2, SoundIs DEF Sound, Mine
    <2>2. ASSUME NEW a, a = old.elems, old.owned, NEW b, b = [a EXCEPT ![i] = e]
          PROVE  IsInjective(b) /\ Range(b) = (Range(a) \ {a[i]}) \cup {e}
      <3>1. /\ a \in Seq(ElemsOf(old)) /\ i \in 1..Len(a) /\ IsInjective(a)
            /\ e \in ElemsOf(old) /\ e \notin Range(a)
        BY <1>3, <1>5, <2>1, <2>2
      <3> QED
        BY <2>2, <3>1, ReplacedInjective
    <2> QED
      BY <2>1, <2>2
  <1>10. vec' = [vec EXCEPT ![v] = s]
    BY <1>4
  <1> HIDE DEF q
  <1>11. /\ Sound(s) /\ s.elems = q /\ s.owned = old.owned
         /\ Mine(s) = IF old.owned THEN Range(q) ELSE {}
    <2>1. Len(q) <= old.capacity
      BY <1>2, <1>8, SoundIs
    <2> QED
      BY <1>2, <1>8, <1>9, <2>1, NewElems
  <1> HIDE DEF s, d
  <1>12. Replaces(v, s)
    <2>1. Mine(s) = IF old.owned THEN (Mine(old) \ {d}) \cup {e} ELSE {}
      BY <1>9, <1>11
    <2>2. ~old.owned => Mine(old) = {}
      BY DEF Mine
    <2>3. \A j \in Mine(old) : value[j] # Null /\ j \notin given /\ j \in Items
      BY <1>2, SoundIs DEF Good, OneOwner
    <2>4. x # Null
      BY NullAssumption
    <2>5. \A j \in Items : value'[j] = IF old.owned /\ j = d THEN Null
                                       ELSE IF old.owned /\ j = e THEN x ELSE value[j]
      BY <1>5, <1>7
    <2>6. CASE old.owned
      <3>1. Mine(s) = (Mine(old) \ {d}) \cup {e} /\ e \notin Mine(old) /\ d \in Mine(old)
        BY <1>5, <1>6, <2>1, <2>6
      <3>2. \A j \in Mine(s) : (j \in Mine(old) \/ value[j] = Null) /\ value'[j] # Null
        BY <1>5, <1>6, <2>3, <2>4, <2>5, <2>6, <3>1
      <3>3. \A j \in Mine(old) \ Mine(s) : value'[j] # Null <=> j \in given'
        BY <1>4, <1>6, <2>3, <2>5, <2>6, <3>1
      <3>4. \A j \in Items \ (Mine(old) \cup Mine(s)) : value'[j] = value[j]
        BY <2>5, <2>6, <3>1
      <3>5. given' \cap Mine(s) = {}
        BY <1>4, <1>5, <2>3, <2>6, <3>1
      <3> QED
        BY <1>4, <1>7, <1>10, <1>11, <3>2, <3>3, <3>4, <3>5 DEF Replaces
    <2>7. CASE ~old.owned
      BY <1>4, <1>7, <1>10, <1>11, <2>1, <2>2, <2>5, <2>7 DEF Replaces
    <2> QED
      BY <2>6, <2>7
  <1>13. Good' /\ Contents' = [Contents EXCEPT ![v] = Reads(s, value')]
    BY <1>2, <1>12, Replaced
  <1>14. /\ VS!Exists(v) /\ c \in Seq(Values) /\ Len(c) = Len(old.elems)
         /\ DOMAIN c = 1..Len(old.elems)
         /\ \A k \in 1..Len(old.elems) :
               c[k] = IF old.owned THEN value[old.elems[k]] ELSE old.elems[k]
    BY <1>2, Seen
  <1> HIDE DEF c
  <1>15. /\ t \in Seq(Values) /\ Len(t) = Len(q)
         /\ \A k \in 1..Len(old.elems) : t[k] = IF k = i THEN x ELSE c[k]
    BY <1>3, <1>8, <1>14, ExceptSeq
  <1> HIDE DEF t
  <1>16. ASSUME NEW k \in 1..Len(t)
         PROVE  t[k] = IF s.owned THEN value'[s.elems[k]] ELSE s.elems[k]
    <2>1. k \in 1..Len(old.elems)
      BY <1>8, <1>15
    <2>2. CASE k = i
      <3>1. old.owned => value'[e] = x
        BY <1>5, <1>6, <1>7
      <3> QED
        BY <1>5, <1>8, <1>11, <1>15, <2>1, <2>2, <3>1
    <2>3. CASE k # i
      <3>1. old.owned => /\ old.elems[k] \in Items /\ old.elems[k] # d
                         /\ old.elems[k] # e
        BY <1>2, <1>3, <1>5, <2>1, <2>3, SoundIs DEF ElemsOf, d
      <3>2. t[k] = c[k] /\ q[k] = old.elems[k]
        BY <1>8, <1>15, <2>1, <2>3
      <3> QED
        BY <1>5, <1>7, <1>11, <1>14, <2>1, <3>1, <3>2
    <2> QED
      BY <2>2, <2>3
  <1>17. Reads(s, value') = t
    <2>1. Sound(s) /\ t \in Seq(Values) /\ Shows(t, s, value')
      BY <1>11, <1>15, <1>16 DEF Shows
    <2> QED
      BY <2>1, ReadsEqual
  <1>18. Contents' = [Contents EXCEPT ![v] = ReplaceAt(c, i, x)]
    BY <1>13, <1>17 DEF t, ReplaceAt
  <1>19. i \in DOMAIN c /\ i \in 1..(Len(c) + 1)
    BY <1>3, <1>14
  <1>20. VS!Set(v, i, x) /\ i \in 1..(Len(Contents[v]) + 1)
    BY <1>14, <1>18, <1>19 DEF c, VS!Set, VS!Becomes, VS!ReplaceAt, ReplaceAt
  <1> QED
    BY <1>13, <1>14, <1>20 DEF Kept, VS!Next

\* What the caller got is not read through any vector.
LEMMA CallerFreesStep ==
    ASSUME Inv, ~diverged', NEW i \in Items, CallerFrees(i)
    PROVE  Kept
  <1>1. Good
    BY DEF Inv, CallerFrees
  <1>2. /\ i \in given /\ given' = given \ {i} /\ value' = [value EXCEPT ![i] = Null]
        /\ vec' = vec /\ corrupted' = corrupted
    BY DEF CallerFrees
  <1>3. \A v \in Vecs : i \notin Mine(vec[v])
    BY <1>1, <1>2 DEF Good, OneOwner
  <1>4. value \in [Items -> Values \cup {Null}]
    BY <1>1 DEF Good, Types
  <1>5. Good'
    BY <1>1, <1>2, <1>3, <1>4 DEF Good, Types, OneOwner, Exists
  <1>6. ASSUME NEW v \in Vecs PROVE Reads(vec[v], value') = Reads(vec[v], value)
    <2>1. CASE vec[v] = Null
      BY <2>1 DEF Reads
    <2>2. CASE vec[v] # Null
      <3>1. Sound(vec[v])
        BY <1>1, <2>2 DEF Good, Exists
      <3>2. ASSUME NEW k \in DOMAIN vec[v].elems, vec[v].owned
            PROVE  value'[vec[v].elems[k]] = value[vec[v].elems[k]]
        <4>1. vec[v].elems[k] \in Mine(vec[v]) /\ vec[v].elems[k] \in Items
          BY <3>1, <3>2, SoundIs
        <4> QED
          BY <1>2, <1>3, <1>4, <4>1
      <3> QED
        BY <2>2, <3>2 DEF Reads
    <2> QED
      BY <2>1, <2>2
  <1>7. Contents' = Contents
    BY <1>2, <1>6, ContentsAre
  <1> QED
    BY <1>5, <1>7 DEF Kept

-----------------------------------------------------------------------------
(* The calls on two vectors.                                               *)

\* The first n elements of a vector, stored once more, are items that nobody has, or
\* values, and hold the same values.
LEMMA CopiesAre ==
    ASSUME Good, NEW v \in Vecs, Exists(v), NEW n \in 0..Len(vec[v].elems),
           NEW e \in Copies(vec[v], n)
    PROVE  /\ e \in Seq(ElemsOf(vec[v])) /\ Len(e) = n /\ DOMAIN e = 1..n
           /\ vec[v].owned =>
                 /\ IsInjective(e)
                 /\ \A i \in Range(e) : /\ i \in Items /\ value[i] = Null /\ i \notin given
                                        /\ \A u \in Vecs : i \notin Mine(vec[u])
           /\ WithCopies(vec[v], e) \in [Items -> Values \cup {Null}]
           /\ \A k \in 1..n :
                 IF vec[v].owned THEN WithCopies(vec[v], e)[e[k]] = value[vec[v].elems[k]]
                                 ELSE e[k] = vec[v].elems[k]
           /\ \A i \in Items : ~(vec[v].owned /\ i \in Range(e)) =>
                 WithCopies(vec[v], e)[i] = value[i]
  <1> DEFINE r == vec[v]
             w == WithCopies(r, e)
  <1>1. /\ Sound(r) /\ r.elems \in Seq(ElemsOf(r)) /\ r.owned \in BOOLEAN
        /\ n \in Nat /\ n <= Len(r.elems) /\ Len(r.elems) \in Nat
        /\ value \in [Items -> Values \cup {Null}]
    BY SoundIs DEF Good, Types
  <1>2. CASE ~r.owned
    <2>1. e = SubSeq(r.elems, 1, n)
      BY <1>2 DEF Copies
    <2>2. e \in Seq(ElemsOf(r)) /\ Len(e) = n /\ \A k \in 1..n : e[k] = r.elems[k]
      BY <1>1, <2>1, FirstAre
    <2>3. DOMAIN e = 1..n
      BY <2>2, LenProperties
    <2>4. w = [i \in Items |-> value[i]]
      BY <1>2 DEF WithCopies
    <2> HIDE DEF w
    <2>5. w \in [Items -> Values \cup {Null}] /\ \A i \in Items : w[i] = value[i]
      BY <1>1, <2>4
    <2> QED
      BY <1>2, <2>2, <2>3, <2>5 DEF w
  <1>3. CASE r.owned
    <2>1. e \in [1..n -> {i \in Items : value[i] = Null}] /\ IsInjective(e)
      BY <1>3 DEF Copies
    <2>2. e \in Seq(ElemsOf(r)) /\ Len(e) = n /\ DOMAIN e = 1..n
      <3>1. e \in [1..n -> Items]
        BY <2>1
      <3>2. e \in Seq(Items) /\ DOMAIN e = 1..n
        BY <1>1, <3>1, SeqDef
      <3>3. DOMAIN e = 1..Len(e) /\ Len(e) \in Nat
        BY <3>2, LenProperties
      <3>4. Len(e) = n
        BY <1>1, <3>2, <3>3
      <3> QED
        BY <1>3, <3>2, <3>4 DEF ElemsOf
    <2>3. \A i \in Range(e) : /\ i \in Items /\ value[i] = Null /\ i \notin given
                              /\ \A u \in Vecs : i \notin Mine(vec[u])
      BY <2>1 DEF Range, Good, OneOwner
    <2>4. ASSUME NEW k \in 1..n
          PROVE  (CHOOSE j \in DOMAIN e : e[j] = e[k]) = k
      BY <2>1, <2>2 DEF IsInjective
    <2>5. ASSUME NEW k \in 1..n
          PROVE  w[e[k]] = value[r.elems[k]]
      <3>1. e[k] \in Items /\ e[k] \in Range(e)
        BY <2>1, <2>2 DEF Range
      <3> QED
        BY <1>3, <2>4, <3>1 DEF WithCopies
    <2>6. ASSUME NEW i \in Items
          PROVE  /\ w[i] \in Values \cup {Null}
                 /\ i \notin Range(e) => w[i] = value[i]
      <3>1. CASE i \notin Range(e)
        BY <1>1, <3>1 DEF WithCopies
      <3>2. CASE i \in Range(e)
        <4>1. PICK k \in 1..n : e[k] = i
          BY <2>2, <3>2 DEF Range
        <4>2. k \in 1..Len(r.elems)
          BY <1>1, <4>1
        <4>3. r.elems[k] \in Items
          BY <1>1, <1>3, <4>2, SoundIs DEF ElemsOf
        <4> QED
          BY <1>1, <2>5, <3>2, <4>1, <4>3
      <3> QED
        BY <3>1, <3>2
    <2>7. w \in [Items -> Values \cup {Null}]
      <3>1. w = [i \in Items |-> w[i]]
        BY DEF WithCopies
      <3> QED
        BY <2>6, <3>1
    <2> HIDE DEF w
    <2> QED
      BY <1>3, <2>1, <2>2, <2>3, <2>5, <2>6, <2>7 DEF w
  <1> QED
    BY <1>1, <1>2, <1>3

\* A vector that is given copies of the first n elements of another one reads like them.
LEMMA CopyReads ==
    ASSUME Good, NEW v \in Vecs, Exists(v), NEW n \in 0..Len(vec[v].elems),
           NEW e \in Copies(vec[v], n), NEW r, Sound(r), r.elems = e, r.owned = vec[v].owned,
           NEW val, \A k \in 1..n : vec[v].owned => val[e[k]] = WithCopies(vec[v], e)[e[k]]
    PROVE  Reads(r, val) = SubSeq(Contents[v], 1, n)
  <1> DEFINE c == Contents[v]
             t == SubSeq(c, 1, n)
  <1>1. /\ c \in Seq(Values) /\ Len(c) = Len(vec[v].elems)
        /\ \A k \in 1..Len(vec[v].elems) :
              c[k] = IF vec[v].owned THEN value[vec[v].elems[k]] ELSE vec[v].elems[k]
    BY Seen
  <1> HIDE DEF c
  <1>2. t \in Seq(Values) /\ Len(t) = n /\ \A k \in 1..n : t[k] = c[k]
    BY <1>1, FirstAre
  <1> HIDE DEF t
  <1>3. /\ Len(e) = n
        /\ \A k \in 1..n :
              IF vec[v].owned THEN WithCopies(vec[v], e)[e[k]] = value[vec[v].elems[k]]
                              ELSE e[k] = vec[v].elems[k]
    BY CopiesAre
  <1>4. \A k \in 1..n : k \in 1..Len(vec[v].elems)
    BY <1>1, LenProperties
  <1>5. Shows(t, r, val)
    BY <1>1, <1>2, <1>3, <1>4 DEF Shows
  <1>6. Reads(r, val) = t
    BY <1>2, <1>5, ReadsEqual
  <1> QED
    BY <1>6 DEF c, t

\* The whole is what its length makes the first elements.
LEMMA Whole ==
    ASSUME Good, NEW v \in Vecs, Exists(v)
    PROVE  /\ Len(Contents[v]) = Len(vec[v].elems) /\ Len(vec[v].elems) \in Nat
           /\ SubSeq(Contents[v], 1, Len(vec[v].elems)) = Contents[v]
  <1> DEFINE c == Contents[v]
  <1>1. c \in Seq(Values) /\ Len(c) = Len(vec[v].elems)
    BY Seen
  <1>2. Sound(vec[v])
    BY DEF Good
  <1> HIDE DEF c
  <1>3. SubSeq(c, 1, Len(c)) = c
    BY <1>1, SubSeqFull
  <1>4. Len(vec[v].elems) \in Nat
    BY <1>2, SoundIs
  <1>5. Len(c) = Len(vec[v].elems) /\ SubSeq(c, 1, Len(vec[v].elems)) = c
    BY <1>1, <1>3
  <1> QED
    BY <1>4, <1>5 DEF c

\* The array of dst, emptied for the elements of src: it is large enough, or the call
\* diverges.
LEMMA EmptiedIs ==
    ASSUME Good, NEW d \in Vecs, NEW s \in Vecs, Exists(d), Exists(s)
    PROVE  LET r == Reserved(Emptied(d, s), vec[s].capacity)
           IN  /\ r.owned = vec[s].owned /\ r.elems = <<>>
               /\ r.capacity \in Nat /\ r.bytes \in Nat /\ ~r.freed
               /\ vec[s].capacity <= r.capacity
               /\ Holds(r, r.capacity) => Sound(r)
  <1> DEFINE a == Emptied(d, s)
             r == Reserved(a, vec[s].capacity)
  <1>1. Sound(vec[d]) /\ Sound(vec[s])
    BY DEF Good
  <1>2. /\ vec[d] \in Vectors /\ ~vec[d].freed /\ vec[s].owned \in BOOLEAN
        /\ vec[d].capacity \in Nat /\ vec[d].bytes \in Nat
        /\ vec[d].capacity = 0 => vec[d].bytes = 0
        /\ vec[s].capacity \in Nat
    BY <1>1, SoundIs
  <1>3. <<>> \in Seq(Items \cup Values) /\ \A S : <<>> \in Seq(S) /\ Len(<<>>) = 0 /\ IsInjective(<<>>)
    BY EmptySeq DEF IsInjective
  <1>4. /\ a \in Vectors /\ a.owned = vec[s].owned /\ a.elems = <<>> /\ a.freed = vec[d].freed
        /\ a.capacity = vec[d].capacity /\ a.bytes = vec[d].bytes
    BY <1>2, <1>3 DEF Emptied, Vectors
  <1> HIDE DEF a
  <1>5. /\ r \in Vectors /\ r.owned = vec[s].owned /\ r.elems = <<>> /\ ~r.freed
        /\ r.capacity \in Nat /\ r.bytes \in Nat /\ vec[s].capacity <= r.capacity
        /\ r.capacity = 0 => r.bytes = 0
    <2>1. CASE vec[s].capacity <= a.capacity
      BY <1>2, <1>4, <2>1 DEF Reserved
    <2>2. CASE ~(vec[s].capacity <= a.capacity)
      <3> DEFINE n == vec[s].capacity
                 b == n * Size(a)
      <3>1. n \in Nat /\ n # 0 /\ b \in Nat
        <4>1. n \in Nat /\ n # 0
          BY <1>2, <1>4, <2>2
        <4> HIDE DEF n
        <4>2. b = IF a.owned THEN n + n ELSE n
          BY <4>1, RoomTaken
        <4> QED
          BY <4>1, <4>2
      <3>2. r = [a EXCEPT !.capacity = n, !.bytes = b]
        BY <2>2 DEF Reserved
      <3> HIDE DEF n, b
      <3>3. /\ r \in Vectors /\ r.owned = a.owned /\ r.elems = a.elems /\ r.freed = a.freed
            /\ r.capacity = n /\ r.bytes = b
        BY <1>4, <3>1, <3>2 DEF Vectors
      <3> HIDE DEF r
      <3> QED
        BY <1>2, <1>4, <3>1, <3>3 DEF n
    <2> QED
      BY <2>1, <2>2
  <1> HIDE DEF r
  <1>6. Holds(r, r.capacity) => Sound(r)
    BY <1>3, <1>5 DEF Sound
  <1>7. /\ r.owned = vec[s].owned /\ r.elems = <<>>
        /\ r.capacity \in Nat /\ r.bytes \in Nat /\ ~r.freed
        /\ vec[s].capacity <= r.capacity
        /\ Holds(r, r.capacity) => Sound(r)
    BY <1>5, <1>6
  <1> QED
    BY <1>7 DEF r, a

\* ucb_vector_copy: what the target had is freed, and it holds copies of the first elements.
LEMMA CopyStep ==
    ASSUME Inv, ~diverged', NEW d \in Vecs, NEW s \in Vecs, NEW n \in Nat, Copy(d, s, n)
    PROVE  Kept
  <1> DEFINE r == Reserved(Emptied(d, s), vec[s].capacity)
  <1>1. ~diverged /\ Holds(r, r.capacity)
    BY DEF Copy, Diverges
  <1>2. Good /\ Exists(d) /\ Exists(s) /\ Sound(vec[d]) /\ Sound(vec[s]) /\ ~corrupted
    BY <1>1 DEF Inv, Good, Copy, Call
  <1>3. /\ n <= Len(vec[s].elems) /\ Len(vec[s].elems) \in Nat
        /\ Len(vec[s].elems) <= vec[s].capacity /\ vec[s].capacity \in Nat
    BY <1>2, SoundIs DEF Copy
  <1>4. /\ Sound(r) /\ r.owned = vec[s].owned /\ r.elems = <<>>
        /\ r.capacity \in Nat /\ r.bytes \in Nat /\ ~r.freed /\ vec[s].capacity <= r.capacity
    BY <1>1, <1>2, EmptiedIs
  <1>5. Holds(r, n)
    <2>1. n * Size(r) = IF r.owned THEN n + n ELSE n
      BY RoomTaken
    <2>2. r.capacity * Size(r) = IF r.owned THEN r.capacity + r.capacity ELSE r.capacity
      BY <1>4, RoomTaken
    <2>3. r.capacity * Size(r) <= r.bytes
      BY <1>1 DEF Holds
    <2> HIDE DEF r
    <2>4. n * Size(r) <= r.bytes
      BY <1>3, <1>4, <2>1, <2>2, <2>3
    <2> QED
      BY <1>4, <2>4 DEF Holds
  <1>6. PICK e \in Copies(vec[s], n) :
            /\ FreeItems(vec[d], vec[d].elems, WithCopies(vec[s], e))
            /\ vec' = [vec EXCEPT ![d] = [r EXCEPT !.elems = e]]
            /\ given' = given
    BY <1>5 DEF Copy, Becomes
  <1>7. n \in 0..Len(vec[s].elems)
    BY <1>3
  <1> DEFINE w == WithCopies(vec[s], e)
             new == [r EXCEPT !.elems = e]
  <1>8. /\ e \in Seq(ElemsOf(vec[s])) /\ Len(e) = n /\ DOMAIN e = 1..n
        /\ vec[s].owned =>
              /\ IsInjective(e)
              /\ \A i \in Range(e) : /\ i \in Items /\ value[i] = Null /\ i \notin given
                                     /\ \A u \in Vecs : i \notin Mine(vec[u])
        /\ w \in [Items -> Values \cup {Null}]
        /\ \A k \in 1..n : IF vec[s].owned THEN w[e[k]] = value[vec[s].elems[k]]
                                           ELSE e[k] = vec[s].elems[k]
        /\ \A i \in Items : ~(vec[s].owned /\ i \in Range(e)) => w[i] = value[i]
    BY <1>2, <1>7, CopiesAre
  <1> HIDE DEF r
  <1>9. /\ Sound(new) /\ new.elems = e /\ new.owned = vec[s].owned
        /\ Mine(new) = IF vec[s].owned THEN Range(e) ELSE {}
    <2>1. Len(e) <= r.capacity
      BY <1>3, <1>4, <1>8
    <2> QED
      BY <1>4, <1>8, <2>1, NewElems DEF ElemsOf
  <1>10. vec' = [vec EXCEPT ![d] = new]
    BY <1>6
  <1> HIDE DEF new, w
  <1>11. /\ ~corrupted' /\ value' \in [Items -> Values \cup {Null}]
         /\ \A i \in Items : value'[i] = IF i \in Mine(vec[d]) THEN Null ELSE w[i]
    <2>1. FreeItems(vec[d], vec[d].elems, w)
      BY <1>6 DEF w
    <2> QED
      BY <1>2, <1>8, <2>1, FreeElems
  <1>12. ASSUME NEW k \in 1..n, vec[s].owned
         PROVE  /\ e[k] \in Items /\ value[e[k]] = Null
                /\ value'[e[k]] = w[e[k]] /\ w[e[k]] # Null
    <2>1. e[k] \in Range(e) /\ k \in 1..Len(vec[s].elems)
      BY <1>3, <1>8 DEF Range
    <2>2. value[vec[s].elems[k]] # Null
      BY <1>2, <1>12, <2>1, SoundIs DEF Good, OneOwner
    <2> QED
      BY <1>8, <1>11, <1>12, <2>1, <2>2
  <1>13. Replaces(d, new)
    <2>1. \A i \in Mine(vec[d]) : i \in Items /\ i \notin given
      BY <1>2, SoundIs DEF Good, OneOwner
    <2>2. \A i \in Mine(new) : i \in Items /\ i \notin given /\ value[i] = Null /\ value'[i] # Null
      BY <1>8, <1>9, <1>12 DEF Range
    <2>3. \A i \in Items \ (Mine(vec[d]) \cup Mine(new)) : value'[i] = value[i]
      BY <1>8, <1>9, <1>11
    <2> QED
      BY <1>6, <1>9, <1>10, <1>11, <2>1, <2>2, <2>3 DEF Replaces
  <1>14. Good' /\ Contents' = [Contents EXCEPT ![d] = Reads(new, value')]
    BY <1>2, <1>13, Replaced
  <1>15. Reads(new, value') = SubSeq(Contents[s], 1, n)
    <2>1. \A k \in 1..n : vec[s].owned => value'[e[k]] = WithCopies(vec[s], e)[e[k]]
      BY <1>12 DEF w
    <2> QED
      BY <1>2, <1>7, <1>9, <2>1, CopyReads
  <1>16. Len(Contents[s]) = Len(vec[s].elems)
         /\ SubSeq(Contents[s], 1, Len(vec[s].elems)) = Contents[s]
    BY <1>2, Whole
  <1>17. VS!Exists(d) /\ VS!Exists(s)
    BY <1>2, Seen
  <1>18. CASE n = Len(vec[s].elems)
    <2>1. VS!Copy(d, s)
      BY <1>14, <1>15, <1>16, <1>17, <1>18 DEF VS!Copy, VS!Becomes
    <2> QED
      BY <1>14, <2>1 DEF Kept, VS!Next
  <1>19. CASE n < Len(vec[s].elems)
    <2>1. VS!CopyPart(d, s, n) /\ n \in 0..Len(Contents[s])
      BY <1>7, <1>14, <1>15, <1>16, <1>17, <1>19 DEF VS!CopyPart, VS!Becomes
    <2> QED
      BY <1>14, <1>17, <2>1 DEF Kept, VS!Next
  <1> QED
    BY <1>3, <1>18, <1>19

\* ucb_vector_clone: a new vector with copies of all elements.
LEMMA CloneStep ==
    ASSUME Inv, ~diverged', NEW d \in Vecs, NEW s \in Vecs, Clone(d, s)
    PROVE  Kept
  <1> DEFINE c == IF vec[s].capacity = 0 THEN DefaultCapacity ELSE vec[s].capacity
             r == Fresh(vec[s].owned, c)
  <1>1. PICK n : n = Len(vec[s].elems)
    OBVIOUS
  <1>2. ~diverged
    BY DEF Clone
  <1>3. Good /\ vec[d] = Null /\ Exists(s) /\ Sound(vec[s]) /\ ~corrupted
    BY <1>2 DEF Inv, Good, Clone, Call, Exists
  <1>4. /\ n \in Nat /\ n <= vec[s].capacity /\ vec[s].capacity \in Nat
        /\ vec[s].owned \in BOOLEAN /\ c \in Nat \ {0} /\ n <= c
    BY <1>1, <1>3, SoundIs, CapacityAssumption
  <1>5. PICK e \in Copies(vec[s], n) :
            /\ value' = WithCopies(vec[s], e)
            /\ vec' = [vec EXCEPT ![d] = [r EXCEPT !.elems = e]]
            /\ given' = given /\ corrupted' = corrupted
    BY <1>1 DEF Clone, Becomes
  <1> HIDE DEF c
  <1>6. Sound(r) /\ r.owned = vec[s].owned /\ r.capacity = c
    BY <1>4, FreshIs
  <1> DEFINE new == [r EXCEPT !.elems = e]
  <1> HIDE DEF r
  <1>7. n \in 0..Len(vec[s].elems)
    BY <1>1, <1>4
  <1> DEFINE w == WithCopies(vec[s], e)
  <1>8. /\ e \in Seq(ElemsOf(vec[s])) /\ Len(e) = n /\ DOMAIN e = 1..n
        /\ vec[s].owned =>
              /\ IsInjective(e)
              /\ \A i \in Range(e) : /\ i \in Items /\ value[i] = Null /\ i \notin given
                                     /\ \A u \in Vecs : i \notin Mine(vec[u])
        /\ w \in [Items -> Values \cup {Null}]
        /\ \A k \in 1..n : IF vec[s].owned THEN w[e[k]] = value[vec[s].elems[k]]
                                           ELSE e[k] = vec[s].elems[k]
        /\ \A i \in Items : ~(vec[s].owned /\ i \in Range(e)) => w[i] = value[i]
    BY <1>3, <1>7, CopiesAre
  <1>9. value' = w
    BY <1>5
  <1> HIDE DEF w
  <1>10. /\ Sound(new) /\ new.elems = e /\ new.owned = vec[s].owned
        /\ Mine(new) = IF vec[s].owned THEN Range(e) ELSE {}
    <2>1. Len(e) <= r.capacity
      BY <1>4, <1>6, <1>8
    <2> QED
      BY <1>6, <1>8, <2>1, NewElems DEF ElemsOf
  <1>11. vec' = [vec EXCEPT ![d] = new]
    BY <1>5
  <1> HIDE DEF new
  <1>12. ASSUME NEW k \in 1..n, vec[s].owned
         PROVE  e[k] \in Items /\ value'[e[k]] # Null
    <2>1. e[k] \in Range(e)
      BY <1>8 DEF Range
    <2>2. value[vec[s].elems[k]] # Null
      BY <1>1, <1>3, <1>12, SoundIs DEF Good, OneOwner
    <2> QED
      BY <1>8, <1>9, <1>12, <2>1, <2>2
  <1>13. Replaces(d, new)
    <2>1. Mine(vec[d]) = {}
      BY <1>3 DEF Mine
    <2>2. \A i \in Mine(new) : i \in Items /\ i \notin given /\ value[i] = Null /\ value'[i] # Null
      BY <1>8, <1>10, <1>12 DEF Range
    <2>3. \A i \in Items \ (Mine(vec[d]) \cup Mine(new)) : value'[i] = value[i]
      BY <1>8, <1>10, <1>9
    <2> QED
      BY <1>3, <1>5, <1>8, <1>10, <1>9, <1>11, <2>1, <2>2, <2>3 DEF Replaces
  <1>14. Good' /\ Contents' = [Contents EXCEPT ![d] = Reads(new, value')]
    BY <1>3, <1>13, Replaced
  <1>15. Reads(new, value') = SubSeq(Contents[s], 1, n)
    <2>1. \A k \in 1..n : vec[s].owned => value'[e[k]] = WithCopies(vec[s], e)[e[k]]
      BY <1>9 DEF w
    <2> QED
      BY <1>3, <1>7, <1>10, <2>1, CopyReads
  <1>16. SubSeq(Contents[s], 1, n) = Contents[s]
    BY <1>1, <1>3, Whole
  <1>17. ~VS!Exists(d) /\ VS!Exists(s)
    BY <1>3, Seen DEF Exists
  <1>18. VS!Clone(d, s)
    BY <1>14, <1>15, <1>16, <1>17 DEF VS!Clone, VS!Becomes
  <1> QED
    BY <1>14, <1>18 DEF Kept, VS!Next

\* ucb_vector_move: the array changes hands, and what was in the target is freed.
LEMMA MoveStep ==
    ASSUME Inv, ~diverged', NEW d \in Vecs, NEW s \in Vecs, Move(d, s)
    PROVE  Kept
  <1> DEFINE left == LeftIn(vec[s])
  <1>1. ~diverged /\ d # s
    BY DEF Move
  <1>2. /\ Good /\ Exists(d) /\ Exists(s) /\ Sound(vec[d]) /\ Sound(vec[s]) /\ ~corrupted
        /\ vec \in [Vecs -> Vectors \cup {Null}] /\ value \in [Items -> Values \cup {Null}]
        /\ given \subseteq Items
    BY <1>1 DEF Inv, Good, Types, Move, Call
  <1>3. /\ vec' = [vec EXCEPT ![d] = vec[s], ![s] = left] /\ given' = given
        /\ FreeItems(vec[d], vec[d].elems, value)
    BY DEF Move
  <1>4. Sound(left) /\ left.elems = <<>>
    <2>1. vec[s] \in Vectors /\ ~vec[s].freed
      BY <1>2, SoundIs
    <2>2. ASSUME NEW e, e = <<>>
          PROVE  /\ e \in Seq(Items \cup Values) /\ \A S : e \in Seq(S)
                 /\ Len(e) = 0 /\ IsInjective(e)
      BY <2>2, EmptySeq DEF IsInjective
    <2>3. /\ left \in Vectors /\ left.elems = <<>> /\ left.owned = vec[s].owned
          /\ left.capacity = 0 /\ left.bytes = 0 /\ left.freed = vec[s].freed
      BY <2>1, <2>2 DEF LeftIn, Vectors
    <2> HIDE DEF left
    <2>4. 0 * Size(left) <= 0
      BY RoomTaken
    <2>5. Holds(left, left.capacity)
      BY <2>1, <2>3, <2>4 DEF Holds
    <2> QED
      BY <2>1, <2>2, <2>3, <2>5 DEF Sound
  <1> HIDE DEF left
  <1>5. Mine(left) = {} /\ Reads(left, value') = <<>>
    BY <1>4, ReadsEmpty
  <1>6. /\ ~corrupted' /\ value' \in [Items -> Values \cup {Null}]
        /\ \A i \in Items : value'[i] = IF i \in Mine(vec[d]) THEN Null ELSE value[i]
    BY <1>2, <1>3, FreeElems
  <1>7. \A u \in Vecs : vec'[u] = IF u = s THEN left ELSE IF u = d THEN vec[s] ELSE vec[u]
    BY <1>2, <1>3
  <1>8. /\ \A u, w \in Vecs : u # w => Mine(vec[u]) \cap Mine(vec[w]) = {}
        /\ \A u \in Vecs : Mine(vec[u]) \cap given = {}
        /\ \A i \in Items : value[i] # Null <=> i \in given \/ \E u \in Vecs : i \in Mine(vec[u])
    BY <1>2 DEF Good, OneOwner
  <1>9. Types'
    <2>1. vec[s] \in Vectors /\ left \in Vectors
      BY <1>2, <1>4, SoundIs
    <2> QED
      BY <1>2, <1>3, <1>6, <2>1 DEF Types
  <1>10. \A u \in Vecs : vec'[u] # Null => Sound(vec'[u])
    BY <1>2, <1>4, <1>7 DEF Good, Exists
  <1>11. \A u \in Vecs : Mine(vec'[u]) = IF u = s THEN {} ELSE IF u = d THEN Mine(vec[s])
                                         ELSE Mine(vec[u])
    BY <1>5, <1>7
  <1>12. ASSUME NEW i \in Items
         PROVE  value'[i] # Null <=> i \in given' \/ \E u \in Vecs : i \in Mine(vec'[u])
    <2>1. (\E u \in Vecs : i \in Mine(vec'[u])) <=> \E u \in Vecs \ {d} : i \in Mine(vec[u])
      BY <1>1, <1>11
    <2>2. CASE i \in Mine(vec[d])
      <3>1. i \notin given /\ \A u \in Vecs \ {d} : i \notin Mine(vec[u])
        BY <1>8, <2>2
      <3> QED
        BY <1>3, <1>6, <2>1, <2>2, <3>1
    <2>3. CASE i \notin Mine(vec[d])
      BY <1>3, <1>6, <1>8, <2>1, <2>3
    <2> QED
      BY <2>2, <2>3
  <1>13. OneOwner'
    <2>1. \A u, w \in Vecs : u # w => Mine(vec'[u]) \cap Mine(vec'[w]) = {}
      BY <1>1, <1>8, <1>11
    <2>2. ASSUME NEW u \in Vecs PROVE Mine(vec'[u]) \cap given' = {}
      <3>1. Mine(vec'[u]) = {} \/ \E w \in Vecs : Mine(vec'[u]) = Mine(vec[w])
        BY <1>11
      <3> QED
        BY <1>3, <1>8, <3>1
    <2> QED
      BY <1>12, <2>1, <2>2 DEF OneOwner
  <1>14. Good'
    BY <1>6, <1>9, <1>10, <1>13 DEF Good, Exists
  <1>15. ASSUME NEW u \in Vecs, u # d
         PROVE  Reads(vec[u], value') = Contents[u]
    <2>1. Contents[u] = Reads(vec[u], value)
      BY <1>2, Seen
    <2>2. CASE vec[u] = Null
      BY <2>1, <2>2 DEF Reads
    <2>3. CASE vec[u] # Null
      <3>1. Sound(vec[u])
        BY <1>2, <2>3 DEF Good, Exists
      <3>2. ASSUME NEW k \in DOMAIN vec[u].elems, vec[u].owned
            PROVE  value'[vec[u].elems[k]] = value[vec[u].elems[k]]
        <4>1. vec[u].elems[k] \in Mine(vec[u]) /\ vec[u].elems[k] \in Items
          BY <3>1, <3>2, SoundIs
        <4>2. vec[u].elems[k] \notin Mine(vec[d])
          BY <1>8, <1>15, <4>1
        <4> QED
          BY <1>6, <4>1, <4>2
      <3> QED
        BY <2>1, <2>3, <3>2 DEF Reads
    <2> QED
      BY <2>2, <2>3
  <1>16. Contents' = [Contents EXCEPT ![d] = Contents[s], ![s] = <<>>]
    <2>1. \A u \in Vecs : Reads(vec'[u], value') = IF u = s THEN <<>> ELSE IF u = d THEN Contents[s]
                                                   ELSE Contents[u]
      BY <1>1, <1>5, <1>7, <1>15
    <2>2. Contents' = [u \in Vecs |-> Reads(vec'[u], value')] /\ DOMAIN Contents = Vecs
      BY ContentsAre
    <2>3. Contents = [u \in Vecs |-> Contents[u]]
      BY ContentsAre
    <2> QED
      BY <2>1, <2>2, <2>3
  <1>17. VS!Take(d, s)
    BY <1>1, <1>2, <1>16, Seen DEF VS!Take
  <1> QED
    BY <1>14, <1>17 DEF Kept, VS!Next

-----------------------------------------------------------------------------
(* The results.                                                            *)

\* A step that starts from a good state diverges, or keeps it good.
LEMMA NextStep ==
    ASSUME Inv, ~diverged', Next
    PROVE  Kept
  <1>1. ASSUME NEW v \in Vecs, NEW owned \in BOOLEAN, New(v, owned) PROVE Kept
    BY <1>1, NewStep
  <1>2. ASSUME NEW v \in Vecs, Clear(v) \/ Free(v) \/ Fit(v) PROVE Kept
    BY <1>2, ClearStep, FreeStep, FitStep
  <1>3. ASSUME NEW v \in Vecs, FitEmpty(v) PROVE FALSE
    BY <1>3 DEF FitEmpty, Diverges
  <1>4. ASSUME NEW v \in Vecs, UseFreed(v) PROVE FALSE
    BY <1>4 DEF UseFreed, Inv, Good, Sound
  <1>5. ASSUME NEW v \in Vecs, NEW n \in 1..MaxCapacity, Reserve(v, n) PROVE Kept
    BY <1>5, CapacityAssumption, ReserveStep
  <1>6. ASSUME NEW v \in Vecs, NEW n \in 1..MaxCapacity, ReserveFails(v, n) PROVE FALSE
    BY <1>6 DEF ReserveFails, Diverges
  <1>7. ASSUME NEW v \in Vecs, NEW i \in 1..(MaxCapacity + 1), NEW x \in Values,
               Insert(v, i, x) \/ Set(v, i, x)
        PROVE  Kept
    BY <1>7, InsertStep, SetStep
  <1>8. ASSUME NEW v \in Vecs, NEW i \in 1..(MaxCapacity + 1),
               InsertGrowFails(v, i) \/ SetCloneFails(v, i)
        PROVE  FALSE
    BY <1>8 DEF InsertGrowFails, SetCloneFails, Diverges
  <1>9. ASSUME NEW v \in Vecs, NEW i \in 1..(MaxCapacity + 1), InsertCloneFails(v, i) PROVE Kept
    BY <1>9, InsertCloneFailsStep
  <1>10. ASSUME NEW v \in Vecs, NEW i \in 1..(MaxCapacity + 1), NEW out \in BOOLEAN,
                RemoveElem(v, i, out)
         PROVE  Kept
    BY <1>10, RemoveStep
  <1>11. ASSUME NEW i \in Items, CallerFrees(i) PROVE Kept
    BY <1>11, CallerFreesStep
  <1>12. ASSUME NEW d \in Vecs, NEW s \in Vecs, NEW n \in 0..MaxCapacity, Copy(d, s, n) PROVE Kept
    BY <1>12, CapacityAssumption, CopyStep
  <1>13. ASSUME NEW d \in Vecs, NEW s \in Vecs, CopyGrowFails(d, s) PROVE FALSE
    BY <1>13 DEF CopyGrowFails, Diverges
  <1>14. ASSUME NEW d \in Vecs, NEW s \in Vecs, Clone(d, s) \/ Move(d, s) PROVE Kept
    BY <1>14, CloneStep, MoveStep
  <1> QED
    BY <1>1, <1>2, <1>3, <1>4, <1>5, <1>6, <1>7, <1>8, <1>9, <1>10, <1>11, <1>12, <1>13, <1>14
    DEF Next

\* At first there is no vector and no item.
LEMMA InitGood ==
    ASSUME Init
    PROVE  Good /\ VS!Init
  <1>1. \A v \in Vecs : vec[v] = Null /\ Mine(vec[v]) = {}
    BY DEF Init, Mine
  <1>2. Types
    BY DEF Init, Types
  <1>3. Good
    BY <1>1, <1>2 DEF Init, Good, OneOwner, Exists
  <1>4. VS!Init
    BY <1>1, ContentsAre DEF Reads, VS!Init
  <1> QED
    BY <1>3, <1>4

\* The invariant is inductive.
LEMMA InvStep ==
    ASSUME Inv, [Next]_vars
    PROVE  Inv'
  <1>1. CASE UNCHANGED vars
    BY <1>1 DEF vars, Inv, Good, Types, OneOwner, Exists
  <1>2. CASE Next
    BY <1>2, NextStep DEF Inv, Kept
  <1> QED
    BY <1>1, <1>2

\* Until a call diverges, every vector is sound and every allocated item has one owner.
THEOREM Invariance == Spec => []Inv
  <1>1. Init => Inv
    BY InitGood DEF Inv
  <1>2. Inv /\ [Next]_vars => Inv'
    BY InvStep
  <1> QED
    BY <1>1, <1>2, PTL DEF Spec

\* The owners of an item, counted as the property does.
LEMMA GoodIsSound ==
    ASSUME Good
    PROVE  MemorySound
  <1>1. ASSUME NEW v \in Vecs, NEW i \in Items
        PROVE  v \in Owners(i) <=> i \in Mine(vec[v])
    BY DEF Owners, Mine, Exists
  <1>2. ASSUME NEW i \in Items
        PROVE  /\ Cardinality(Owners(i)) + Cardinality({i} \cap given)
                      = IF value[i] = Null THEN 0 ELSE 1
               /\ \A v \in Owners(i) : \A j, k \in DOMAIN vec[v].elems :
                      vec[v].elems[j] = i /\ vec[v].elems[k] = i => j = k
    <2>1. Owners(i) \subseteq Vecs
      BY DEF Owners
    <2>2. value[i] # Null <=> i \in given \/ \E v \in Vecs : i \in Mine(vec[v])
      BY DEF Good, OneOwner
    <2>3. Cardinality({}) = 0 /\ Cardinality({i}) = 1
      BY FS_EmptySet, FS_Singleton
    <2>4. CASE i \in given
      <3>1. Owners(i) = {} /\ {i} \cap given = {i}
        BY <1>1, <2>1, <2>4 DEF Good, OneOwner
      <3> QED
        BY <2>2, <2>3, <2>4, <3>1
    <2>5. CASE i \notin given /\ \E v \in Vecs : i \in Mine(vec[v])
      <3>1. PICK v \in Vecs : i \in Mine(vec[v])
        BY <2>5
      <3>2. Owners(i) = {v} /\ {i} \cap given = {}
        BY <1>1, <2>1, <2>5, <3>1 DEF Good, OneOwner
      <3>3. Cardinality({v}) = 1
        BY FS_Singleton
      <3>4. Cardinality(Owners(i)) + Cardinality({i} \cap given) = 1
        BY <2>3, <3>2, <3>3
      <3>5. Sound(vec[v])
        BY <1>1, <3>1 DEF Good, Mine, Exists
      <3> QED
        BY <2>2, <2>5, <3>1, <3>2, <3>4, <3>5, SoundIs
    <2>6. CASE i \notin given /\ ~\E v \in Vecs : i \in Mine(vec[v])
      <3>1. Owners(i) = {} /\ {i} \cap given = {}
        BY <1>1, <2>1, <2>6
      <3> QED
        BY <2>2, <2>3, <2>6, <3>1
    <2> QED
      BY <2>4, <2>5, <2>6
  <1>3. ItemsOwnedOnce
    BY <1>2, Zenon DEF ItemsOwnedOnce
  <1>4. NoBadAccess
    BY DEF Good, Sound, NoBadAccess
  <1> QED
    BY <1>3, <1>4 DEF MemorySound

\* Whatever calls are made, with clones that fail at any point: until one diverges, every
\* allocated item is in one place of one vector or the caller's, and no call writes outside
\* an array or frees an item twice.
THEOREM MemoryCorrect == Spec => []MemorySound
  <1>1. Inv => MemorySound
    BY GoodIsSound DEF Inv, MemorySound, ItemsOwnedOnce, NoBadAccess
  <1> QED
    BY <1>1, Invariance, PTL

\* Every call does to the values of a vector what the header says, until one diverges.
THEOREM VectorImplements == Spec => ImplementsVectorSpec
  <1>1. Init => VS!Init
    BY InitGood
  <1>2. Inv /\ [Next]_vars => [diverged' \/ VS!Next \/ UNCHANGED Contents]_vars
    BY NextStep DEF Kept
  <1> QED
    BY <1>1, <1>2, Invariance, PTL DEF Spec, ImplementsVectorSpec

=============================================================================
