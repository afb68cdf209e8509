----------------------------- MODULE MemDbgProofs -----------------------------
(***************************************************************************)
(* Proofs about MemDbg, for any number of threads, addresses and levels:   *)
(* the lists of live allocations, what the levels count, and the log of    *)
(* recent frees.                                                           *)
(***************************************************************************)
EXTENDS MemDbg, TLAPS, FiniteSetTheorems, SequenceTheorems, WellFoundedInduction

-----------------------------------------------------------------------------
(* Induction: a set of natural numbers has a least element, so that two    *)
(* functions defined by the same recursion are equal.                      *)

LEMMA LeastNumber ==
    ASSUME NEW T \in SUBSET Nat, T # {}
    PROVE  \E m \in T : \A k \in T : ~(k < m)
  <1> DEFINE R == {ss \in Nat \X Nat : ss[1] < ss[2]}
  <1>1. OpToRel(<, Nat) = R
    BY Zenon DEF OpToRel
  <1>2. IsWellFoundedOn(R, Nat)
    BY <1>1, NatLessThanWellFounded, Zenon
  <1>3. \E x \in T : \A y \in T : <<y, x>> \notin R
    <2> HIDE DEF R
    <2> QED
      BY <1>2, WFMin
  <1> QED
    BY <1>3

-----------------------------------------------------------------------------
(* Sequences without repetition.                                           *)

Injective(q) == \A i, j \in 1..Len(q) : q[i] = q[j] => i = j

\* Element i is taken out.
Cut(q, i) == [j \in 1..(Len(q) - 1) |-> IF j < i THEN q[j] ELSE q[j + 1]]

LEMMA CutIs ==
    ASSUME NEW S, NEW q \in Seq(S), NEW i \in 1..Len(q)
    PROVE  RemoveAt(q, i) = Cut(q, i) /\ Cut(q, i) \in Seq(S) /\ Len(Cut(q, i)) = Len(q) - 1
  <1> DEFINE u == SubSeq(q, 1, i - 1)  v == SubSeq(q, i + 1, Len(q))
  <1>1. /\ u \in Seq(S) /\ Len(u) = i - 1 /\ \A j \in 1..(i - 1) : u[j] = q[j]
        /\ v \in Seq(S) /\ Len(v) = Len(q) - i /\ \A j \in 1..(Len(q) - i) : v[j] = q[j + i]
    OBVIOUS
  <1>2. RemoveAt(q, i) = u \o v
    BY DEF RemoveAt
  <1>3. /\ Cut(q, i) \in Seq(S) /\ Len(Cut(q, i)) = Len(q) - 1
        /\ \A j \in 1..(Len(q) - 1) : Cut(q, i)[j] = IF j < i THEN q[j] ELSE q[j + 1]
    BY DEF Cut
  <1> HIDE DEF u, v
  <1>4. u \o v \in Seq(S) /\ Len(u \o v) = Len(q) - 1
    <2>1. u \o v \in Seq(S) /\ Len(u \o v) = Len(u) + Len(v)
      BY <1>1, ConcatProperties
    <2>2. Len(q) \in Nat
      OBVIOUS
    <2> QED
      BY <2>1, <2>2, <1>1
  <1>5. \A j \in 1..(Len(q) - 1) : (u \o v)[j] = IF j < i THEN q[j] ELSE q[j + 1]
    BY <1>1
  <1>6. u \o v = Cut(q, i)
    BY <1>3, <1>4, <1>5, SeqEqual
  <1> QED
    BY <1>2, <1>3, <1>6

\* An element in front.
LEMMA InFront ==
    ASSUME NEW S, NEW q \in Seq(S), NEW a \in S
    PROVE  /\ <<a>> \o q \in Seq(S) /\ Len(<<a>> \o q) = Len(q) + 1
           /\ \A i \in 1..(Len(q) + 1) : (<<a>> \o q)[i] = IF i = 1 THEN a ELSE q[i - 1]
  OBVIOUS

LEMMA RangeIs ==
    ASSUME NEW S, NEW q \in Seq(S)
    PROVE  /\ \A i \in 1..Len(q) : q[i] \in Range(q)
           /\ \A x \in Range(q) : x \in S /\ \E i \in 1..Len(q) : q[i] = x
  BY DEF Range

\* The log without a record.
LEMMA WithoutIs ==
    ASSUME NEW S, NEW q \in Seq(S), Injective(q), NEW a
    PROVE  /\ Without(q, a) \in Seq(S) /\ Injective(Without(q, a))
           /\ Range(Without(q, a)) = Range(q) \ {a}
           /\ \/ Without(q, a) = q /\ a \notin Range(q)
              \/ \E i \in 1..Len(q) : q[i] = a /\ Without(q, a) = Cut(q, i)
  <1>1. CASE \E i \in DOMAIN q : q[i] = a
    <2> DEFINE i == CHOOSE i \in DOMAIN q : q[i] = a
    <2>1. i \in 1..Len(q) /\ q[i] = a
      BY <1>1
    <2>2. Without(q, a) = RemoveAt(q, i)
      BY <1>1 DEF Without
    <2> HIDE DEF i
    <2>3. Without(q, a) = Cut(q, i) /\ Cut(q, i) \in Seq(S) /\ Len(Cut(q, i)) = Len(q) - 1
      BY <2>1, <2>2, CutIs
    <2>4. \A j \in 1..(Len(q) - 1) : Cut(q, i)[j] = IF j < i THEN q[j] ELSE q[j + 1]
      BY DEF Cut
    <2>5. Injective(Cut(q, i))
      BY <2>1, <2>3, <2>4 DEF Injective
    <2>6. Range(Cut(q, i)) = Range(q) \ {a}
      <3>1. \A j \in 1..(Len(q) - 1) : Cut(q, i)[j] \in Range(q) \ {a}
        BY <2>1, <2>4 DEF Injective, Range
      <3>2. ASSUME NEW x \in Range(q) \ {a} PROVE \E j \in 1..(Len(q) - 1) : Cut(q, i)[j] = x
        <4>1. PICK k \in 1..Len(q) : q[k] = x /\ k # i
          BY <2>1 DEF Range
        <4>2. CASE k < i
          BY <4>1, <4>2, <2>1, <2>4
        <4>3. CASE k > i
          <5>1. k - 1 \in 1..(Len(q) - 1) /\ Cut(q, i)[k - 1] = q[k]
            BY <4>1, <4>3, <2>1, <2>4
          <5> QED
            BY <4>1, <5>1
        <4> QED
          BY <4>1, <4>2, <4>3, <2>1
      <3>3. DOMAIN Cut(q, i) = 1..(Len(q) - 1)
        BY DEF Cut
      <3> QED
        BY <3>1, <3>2, <3>3 DEF Range
    <2> QED
      BY <2>1, <2>3, <2>5, <2>6
  <1>2. CASE ~ \E i \in DOMAIN q : q[i] = a
    BY <1>2 DEF Without, Range
  <1> QED
    BY <1>1, <1>2

-----------------------------------------------------------------------------
(* The log of frees.                                                       *)

\* The log is the newest part of all frees.
LogPrefix ==
    /\ log \in Seq(Addrs) /\ freed \in Seq(Addrs) /\ Injective(log) /\ Injective(freed)
    /\ Len(log) <= Capacity /\ Len(log) <= Len(freed)
    /\ \A i \in 1..Len(log) : log[i] = freed[i]

\* A record that is dropped from both leaves them so.
LEMMA BothWithout ==
    ASSUME LogPrefix, NEW a, NEW u, NEW v, u = Without(log, a), v = Without(freed, a)
    PROVE  /\ Len(u) <= Capacity /\ Len(u) <= Len(v)
           /\ \A i \in 1..Len(u) : u[i] = v[i]
  <1>1. Len(log) \in Nat /\ Len(freed) \in Nat /\ Capacity \in Nat
    BY BoundsAssumption DEF LogPrefix
  <1>2. \/ u = log /\ a \notin Range(log)
        \/ \E i \in 1..Len(log) : log[i] = a /\ u = Cut(log, i)
    BY WithoutIs DEF LogPrefix
  <1>3. \/ v = freed /\ a \notin Range(freed)
        \/ \E i \in 1..Len(freed) : freed[i] = a /\ v = Cut(freed, i)
    BY WithoutIs DEF LogPrefix
  <1>4. CASE u = log /\ a \notin Range(log)
    <2>1. CASE v = freed
      BY <1>4, <2>1 DEF LogPrefix
    <2>2. CASE \E i \in 1..Len(freed) : freed[i] = a /\ v = Cut(freed, i)
      <3>1. PICK i \in 1..Len(freed) : freed[i] = a /\ v = Cut(freed, i)
        BY <2>2
      <3>2. i > Len(log)
        BY <3>1, <1>4, <1>1 DEF LogPrefix, Range
      <3>3. Len(v) = Len(freed) - 1
        BY <3>1, CutIs DEF LogPrefix
      <3>4. \A j \in 1..Len(log) : v[j] = freed[j]
        BY <3>1, <3>2, <1>1 DEF Cut
      <3> QED
        BY <1>4, <3>2, <3>3, <3>4, <1>1 DEF LogPrefix
    <2> QED
      BY <1>3, <2>1, <2>2
  <1>5. CASE \E i \in 1..Len(log) : log[i] = a /\ u = Cut(log, i)
    <2>1. PICK i \in 1..Len(log) : log[i] = a /\ u = Cut(log, i)
      BY <1>5
    <2>2. v = Cut(freed, i)
      BY <1>3, <2>1, <1>1 DEF LogPrefix, Injective, Range
    <2>3. Len(u) = Len(log) - 1 /\ Len(v) = Len(freed) - 1
      BY <2>1, <2>2, CutIs, <1>1, SMTT(30) DEF LogPrefix
    <2>4. \A j \in 1..(Len(log) - 1) : u[j] = v[j]
      BY <2>1, <2>2, <1>1 DEF Cut, LogPrefix
    <2> QED
      BY <2>3, <2>4, <1>1 DEF LogPrefix
  <1> QED
    BY <1>2, <1>4, <1>5

\* A free is recorded in front, and the oldest record makes room.
LEMMA LogInserts ==
    ASSUME LogPrefix, NEW a \in Addrs,
           log' = InsertRecord(log, a), freed' = <<a>> \o Without(freed, a)
    PROVE  LogPrefix' /\ Range(log') \subseteq Range(log) \cup {a}
  <1> DEFINE u == Without(log, a) v == Without(freed, a)
             w == IF Len(u) = Capacity THEN Front(u) ELSE u
  <1>1. Capacity \in Nat \ {0}
    BY BoundsAssumption
  <1>2. /\ u \in Seq(Addrs) /\ v \in Seq(Addrs) /\ Injective(u) /\ Injective(v)
        /\ Range(u) = Range(log) \ {a} /\ Range(v) = Range(freed) \ {a}
    BY WithoutIs DEF LogPrefix
  <1>3. Len(u) <= Capacity /\ Len(u) <= Len(v) /\ \A i \in 1..Len(u) : u[i] = v[i]
    BY BothWithout
  <1>4. log' = <<a>> \o w /\ freed' = <<a>> \o v
    BY DEF InsertRecord
  <1> HIDE DEF u, v
  <1>5. /\ w \in Seq(Addrs) /\ Len(w) < Capacity /\ Len(w) <= Len(u)
        /\ \A i \in 1..Len(w) : w[i] = u[i]
    BY <1>1, <1>2, <1>3 DEF Front
  <1> HIDE DEF w
  <1>6. /\ log' \in Seq(Addrs) /\ Len(log') = Len(w) + 1
        /\ \A i \in 1..Len(log') : log'[i] = IF i = 1 THEN a ELSE u[i - 1]
    <2>1. /\ log' \in Seq(Addrs) /\ Len(log') = Len(w) + 1
          /\ \A i \in 1..(Len(w) + 1) : log'[i] = IF i = 1 THEN a ELSE w[i - 1]
      BY <1>4, <1>5, InFront
    <2>2. \A i \in 1..Len(log') : i # 1 => i - 1 \in 1..Len(w)
      BY <2>1, <1>5
    <2> QED
      BY <2>1, <2>2, <1>5
  <1>7. /\ freed' \in Seq(Addrs) /\ Len(freed') = Len(v) + 1
        /\ \A i \in 1..Len(freed') : freed'[i] = IF i = 1 THEN a ELSE v[i - 1]
    <2>1. /\ freed' \in Seq(Addrs) /\ Len(freed') = Len(v) + 1
          /\ \A i \in 1..(Len(v) + 1) : freed'[i] = IF i = 1 THEN a ELSE v[i - 1]
      <3>1. \A q \in Seq(Addrs) : \A r : r = <<a>> \o q =>
               /\ r \in Seq(Addrs) /\ Len(r) = Len(q) + 1
               /\ \A i \in 1..(Len(q) + 1) : r[i] = IF i = 1 THEN a ELSE q[i - 1]
        BY InFront
      <3> QED
        BY <3>1, <1>2, <1>4
    <2> QED
      BY <2>1
  <1>8. \A i \in 1..Len(v) : v[i] # a
    BY <1>2, RangeIs
  <1>9. Injective(freed')
    <2> SUFFICES ASSUME NEW i \in 1..Len(freed'), NEW j \in 1..Len(freed'), freed'[i] = freed'[j]
                 PROVE  i = j
      BY DEF Injective
    <2>1. \A k \in 1..Len(freed') : k # 1 => k - 1 \in 1..Len(v) /\ freed'[k] = v[k - 1] /\ freed'[k] # a
      <3>1. Len(v) \in Nat
        BY <1>2
      <3>2. \A k \in 1..(Len(v) + 1) : k # 1 => k - 1 \in 1..Len(v)
        BY <3>1
      <3> QED
        BY <3>2, <1>7, <1>8
    <2>2. freed'[1] = a
      BY <1>7
    <2>3. CASE i = 1 \/ j = 1
      BY <2>1, <2>2, <2>3
    <2>4. CASE i # 1 /\ j # 1
      <3>1. i - 1 = j - 1
        BY <2>1, <2>4, <1>2 DEF Injective
      <3> QED
        BY <3>1, <1>7
    <2> QED
      BY <2>3, <2>4
  <1>10. \A i \in 1..Len(log') : log'[i] = freed'[i]
    <2> SUFFICES ASSUME NEW i \in 1..Len(log') PROVE log'[i] = freed'[i]
      OBVIOUS
    <2>1. Len(w) \in Nat /\ Len(u) \in Nat /\ Len(v) \in Nat
      BY <1>2, <1>5
    <2>2. CASE i = 1
      BY <2>1, <2>2, <1>6, <1>7
    <2>3. CASE i # 1
      <3>1. i - 1 \in 1..Len(u) /\ i \in 1..Len(freed')
        BY <2>1, <2>3, <1>3, <1>5, <1>6, <1>7
      <3> QED
        BY <3>1, <2>3, <1>3, <1>6, <1>7
    <2> QED
      BY <2>2, <2>3
  <1>11. Len(log') <= Len(freed')
    BY <1>2, <1>3, <1>5, <1>6, <1>7
  <1>12. Injective(log')
    <2>1. Len(log') \in Nat /\ Len(freed') \in Nat
      BY <1>6, <1>7
    <2>2. \A i \in 1..Len(log') : i \in 1..Len(freed')
      BY <2>1, <1>11
    <2> QED
      BY <2>2, <1>9, <1>10 DEF Injective
  <1>13. Range(log') \subseteq Range(log) \cup {a}
    <2>1. \A i \in 1..Len(u) : u[i] \in Range(log)
      BY <1>2, RangeIs
    <2>2. \A i \in 1..Len(log') : log'[i] \in Range(log) \cup {a}
      <3> TAKE i \in 1..Len(log')
      <3>1. CASE i = 1
        BY <3>1, <1>6
      <3>2. CASE i # 1
        <4>1. i - 1 \in 1..Len(w) /\ Len(w) <= Len(u) /\ Len(u) \in Nat
          BY <3>2, <1>2, <1>5, <1>6
        <4>2. i - 1 \in 1..Len(u)
          BY <4>1
        <4>3. log'[i] = u[i - 1]
          BY <3>2, <1>6
        <4> QED
          BY <4>2, <4>3, <2>1, <1>2
      <3> QED
        BY <3>1, <3>2
    <2> QED
      BY <2>2, <1>6, RangeIs
  <1> QED
    BY <1>1, <1>2, <1>5, <1>6, <1>7, <1>9, <1>10, <1>11, <1>12, <1>13 DEF LogPrefix

\* A record is dropped when its address is used again.
LEMMA LogDrops ==
    ASSUME LogPrefix, NEW a, log' = Without(log, a), freed' = Without(freed, a)
    PROVE  LogPrefix' /\ Range(log') = Range(log) \ {a}
  <1>1. /\ log' \in Seq(Addrs) /\ Injective(log') /\ Range(log') = Range(log) \ {a}
        /\ freed' \in Seq(Addrs) /\ Injective(freed')
    BY WithoutIs DEF LogPrefix
  <1>2. /\ Len(log') <= Capacity /\ Len(log') <= Len(freed')
        /\ \A i \in 1..Len(log') : log'[i] = freed'[i]
    BY BothWithout
  <1> QED
    BY <1>1, <1>2 DEF LogPrefix

\* The thread is about to do something with a block that the program does not hold.
Pcs == {"out", "register", "free", "realloc", "record", "zero", "zero_free", "pop"}
Holding(t) == pc[t] \in {"register", "free", "realloc", "record", "zero", "zero_free"}

BlocksTyped ==
    /\ pc \in [Threads -> Pcs] /\ blk = [t \in Threads |-> blk[t]]
    /\ heap \subseteq Addrs /\ live \subseteq Addrs
    /\ rare \in BOOLEAN /\ corrupted \in BOOLEAN
    /\ ~corrupted => \A t \in Threads : Holding(t) => blk[t] \in Addrs

\* It is a block of the heap and of this thread alone.
BlocksHeld ==
    ~rare /\ ~corrupted =>
        /\ live \subseteq heap
        /\ \A t \in Threads : Holding(t) => blk[t] \in heap \ live /\ pc[t] # "record"
        /\ \A t, u \in Threads : Holding(t) /\ Holding(u) /\ blk[t] = blk[u] => t = u

LogInv == BlocksTyped /\ BlocksHeld /\ LogPrefix /\ ReuseForgotten

LEMMA LogInvInit == Init => LogInv
  <1> SUFFICES ASSUME Init PROVE LogInv
    OBVIOUS
  <1> USE AddrsAssumption, BoundsAssumption DEF Init
  <1>1. BlocksTyped /\ BlocksHeld
    BY DEF BlocksTyped, BlocksHeld, Pcs, Holding
  <1>2. LogPrefix
    BY DEF LogPrefix, Injective
  <1>3. ReuseForgotten
    BY DEF ReuseForgotten, NoFalseDoubleFree
  <1> QED
    BY <1>1, <1>2, <1>3 DEF LogInv

\* What follows a failed assertion or a wild access is nothing.
LEMMA CorruptKeepsLog ==
    ASSUME LogInv, NEW t \in Threads, NEW from, NEW to \in Pcs, Begin(t, from, to), Corrupt
    PROVE  LogInv'
  BY DEF Begin, Goes, MayRun, Corrupt, LogInv, BlocksTyped, BlocksHeld, Holding, LogPrefix,
         ReuseForgotten, NoFalseDoubleFree, lists, stats

\* A new block is not in the heap yet.
LEMMA MallocKeepsLog ==
    ASSUME LogInv, NEW t \in Threads, Malloc(t)
    PROVE  LogInv'
  <1> USE AddrsAssumption DEF Malloc, Begin, BeginRare, Goes, MayRun, lists, stats,
         Stamp
  <1>0. BlocksTyped /\ BlocksHeld /\ LogPrefix /\ ReuseForgotten
    BY DEF LogInv
  <1>1. BlocksTyped'
    BY <1>0 DEF BlocksTyped, Pcs, Holding
  <1>2. BlocksHeld'
    BY <1>0 DEF BlocksTyped, BlocksHeld, Holding
  <1>3. LogPrefix' /\ ReuseForgotten'
    BY <1>0 DEF LogPrefix, ReuseForgotten, NoFalseDoubleFree
  <1> QED
    BY <1>1, <1>2, <1>3 DEF LogInv

\* The block that is given back is nobody's.
LEMMA HeapFreeKeepsLog ==
    ASSUME LogInv, NEW t \in Threads, HeapFree(t)
    PROVE  LogInv'
  <1> USE AddrsAssumption DEF HeapFree, Begin, BeginRare, Goes, MayRun, lists, stats
  <1>0. BlocksTyped /\ BlocksHeld /\ LogPrefix /\ ReuseForgotten
    BY DEF LogInv
  <1>1. BlocksTyped'
    BY <1>0 DEF BlocksTyped, Pcs, Holding
  <1>2. BlocksHeld'
    BY <1>0 DEF BlocksTyped, BlocksHeld, Holding
  <1>3. LogPrefix' /\ ReuseForgotten'
    BY <1>0 DEF LogPrefix, ReuseForgotten, NoFalseDoubleFree
  <1> QED
    BY <1>1, <1>2, <1>3 DEF LogInv

\* The block that moves is nobody's.
LEMMA ReallocMovesKeepsLog ==
    ASSUME LogInv, NEW t \in Threads, ReallocMoves(t)
    PROVE  LogInv'
  <1> USE AddrsAssumption DEF ReallocMoves, Begin, BeginRare, Goes, MayRun, lists,
         stats, Stamp
  <1>0. BlocksTyped /\ BlocksHeld /\ LogPrefix /\ ReuseForgotten
    BY DEF LogInv
  <1>1. BlocksTyped'
    BY <1>0 DEF BlocksTyped, Pcs, Holding
  <1>2. BlocksHeld'
    BY <1>0 DEF BlocksTyped, BlocksHeld, Holding
  <1>3. LogPrefix' /\ ReuseForgotten'
    BY <1>0 DEF LogPrefix, ReuseForgotten, NoFalseDoubleFree
  <1> QED
    BY <1>1, <1>2, <1>3 DEF LogInv

\* A realloc that fails keeps the block.
LEMMA ReallocKeepsKeepsLog ==
    ASSUME LogInv, NEW t \in Threads, ReallocKeeps(t)
    PROVE  LogInv'
  <1> USE AddrsAssumption DEF ReallocKeeps, Begin, BeginRare, Goes, MayRun, lists,
         stats
  <1>0. BlocksTyped /\ BlocksHeld /\ LogPrefix /\ ReuseForgotten
    BY DEF LogInv
  <1>1. BlocksTyped'
    BY <1>0 DEF BlocksTyped, Pcs, Holding
  <1>2. BlocksHeld'
    BY <1>0 DEF BlocksTyped, BlocksHeld, Holding
  <1>3. LogPrefix' /\ ReuseForgotten'
    BY <1>0 DEF LogPrefix, ReuseForgotten, NoFalseDoubleFree
  <1> QED
    BY <1>1, <1>2, <1>3 DEF LogInv

\* A realloc that fails may free the block.
LEMMA ReallocFreesKeepsLog ==
    ASSUME LogInv, NEW t \in Threads, ReallocFrees(t)
    PROVE  LogInv'
  <1> USE AddrsAssumption DEF ReallocFrees, Begin, BeginRare, Goes, MayRun, lists,
         stats
  <1>0. BlocksTyped /\ BlocksHeld /\ LogPrefix /\ ReuseForgotten
    BY DEF LogInv
  <1>1. BlocksTyped'
    BY <1>0 DEF BlocksTyped, Pcs, Holding
  <1>2. BlocksHeld'
    BY <1>0 DEF BlocksTyped, BlocksHeld, Holding
  <1>3. LogPrefix' /\ ReuseForgotten'
    BY <1>0 DEF LogPrefix, ReuseForgotten, NoFalseDoubleFree
  <1> QED
    BY <1>1, <1>2, <1>3 DEF LogInv

\* A realloc to size 0 frees the block.
LEMMA ReallocZeroKeepsLog ==
    ASSUME LogInv, NEW t \in Threads, ReallocZero(t)
    PROVE  LogInv'
  <1> USE AddrsAssumption DEF ReallocZero, Begin, BeginRare, Goes, MayRun, lists,
         stats
  <1>0. BlocksTyped /\ BlocksHeld /\ LogPrefix /\ ReuseForgotten
    BY DEF LogInv
  <1>1. BlocksTyped'
    BY <1>0 DEF BlocksTyped, Pcs, Holding
  <1>2. BlocksHeld'
    BY <1>0 DEF BlocksTyped, BlocksHeld, Holding
  <1>3. LogPrefix' /\ ReuseForgotten'
    BY <1>0 DEF LogPrefix, ReuseForgotten, NoFalseDoubleFree
  <1> QED
    BY <1>1, <1>2, <1>3 DEF LogInv

\* A tracepoint that is pushed has no blocks.
LEMMA PushKeepsLog ==
    ASSUME LogInv, NEW t \in Threads, Push(t)
    PROVE  LogInv'
  <1> USE AddrsAssumption DEF Push, Begin, BeginRare, Goes, MayRun, lists, stats
  <1>0. BlocksTyped /\ BlocksHeld /\ LogPrefix /\ ReuseForgotten
    BY DEF LogInv
  <1>1. BlocksTyped'
    BY <1>0 DEF BlocksTyped, Pcs, Holding
  <1>2. BlocksHeld'
    BY <1>0 DEF BlocksTyped, BlocksHeld, Holding
  <1>3. LogPrefix' /\ ReuseForgotten'
    BY <1>0 DEF LogPrefix, ReuseForgotten, NoFalseDoubleFree
  <1> QED
    BY <1>1, <1>2, <1>3 DEF LogInv

\* A pop moves entries only.
LEMMA PopCleanKeepsLog ==
    ASSUME LogInv, NEW t \in Threads, PopClean(t)
    PROVE  LogInv'
  <1> USE AddrsAssumption DEF PopClean, Begin, BeginRare, Goes, MayRun, lists,
         stats, Collapse
  <1>0. BlocksTyped /\ BlocksHeld /\ LogPrefix /\ ReuseForgotten
    BY DEF LogInv
  <1>1. BlocksTyped'
    BY <1>0 DEF BlocksTyped, Pcs, Holding
  <1>2. BlocksHeld'
    BY <1>0 DEF BlocksTyped, BlocksHeld, Holding
  <1>3. LogPrefix' /\ ReuseForgotten'
    BY <1>0 DEF LogPrefix, ReuseForgotten, NoFalseDoubleFree
  <1> QED
    BY <1>1, <1>2, <1>3 DEF LogInv

\* A pop looks at the lists first.
LEMMA PopLeaksKeepsLog ==
    ASSUME LogInv, NEW t \in Threads, PopLeaks(t)
    PROVE  LogInv'
  <1> USE AddrsAssumption DEF PopLeaks, Begin, BeginRare, Goes, MayRun, lists, stats
  <1>0. BlocksTyped /\ BlocksHeld /\ LogPrefix /\ ReuseForgotten
    BY DEF LogInv
  <1>1. BlocksTyped'
    BY <1>0 DEF BlocksTyped, Pcs, Holding
  <1>2. BlocksHeld'
    BY <1>0 DEF BlocksTyped, BlocksHeld, Holding
  <1>3. LogPrefix' /\ ReuseForgotten'
    BY <1>0 DEF LogPrefix, ReuseForgotten, NoFalseDoubleFree
  <1> QED
    BY <1>1, <1>2, <1>3 DEF LogInv

\* The record of an address is dropped when the address is registered.
LEMMA RegisterKeepsLog ==
    ASSUME LogInv, NEW t \in Threads, Register(t)
    PROVE  LogInv'
  <1> DEFINE a == blk[t]
  <1>0. BlocksTyped /\ BlocksHeld /\ LogPrefix /\ ReuseForgotten
    BY DEF LogInv
  <1>1. Begin(t, "register", "out")
    BY DEF Register
  <1>2. CASE Corrupt
    BY <1>1, <1>2, CorruptKeepsLog DEF Pcs
  <1>3. CASE ~Corrupt
    <2>1. /\ log' = Reuse(a) /\ freed' = Without(freed, a) /\ live' = live \cup {a}
          /\ blk' = [blk EXCEPT ![t] = Null] /\ UNCHANGED <<heap, corrupted>>
      BY <1>3 DEF Register
    <2> USE DEF Begin, Goes, MayRun
    <2>2. LogPrefix' /\ Range(log') = Range(log) \ {a}
      BY <1>0, <2>1, LogDrops DEF Reuse
    <2>3. BlocksTyped'
      BY <1>0, <1>1, <2>1 DEF BlocksTyped, Pcs, Holding
    <2>4. BlocksHeld'
      BY <1>0, <1>1, <2>1 DEF BlocksTyped, BlocksHeld, Holding
    <2>5. ReuseForgotten'
      BY <1>0, <1>1, <2>1, <2>2 DEF ReuseForgotten, NoFalseDoubleFree
    <2> QED
      BY <2>2, <2>3, <2>4, <2>5 DEF LogInv
  <1> QED
    BY <1>2, <1>3

\* A block that is freed is no longer live when its record is made.
LEMMA FreeKeepsLog ==
    ASSUME LogInv, NEW t \in Threads, NEW a \in Addrs, Free(t, a)
    PROVE  LogInv'
  <1>0. BlocksTyped /\ BlocksHeld /\ LogPrefix /\ ReuseForgotten /\ a \in live
    BY DEF LogInv, Free
  <1>1. CASE Begin(t, "out", "free") /\ Corrupt
    BY <1>1, CorruptKeepsLog DEF Pcs
  <1>2. CASE /\ Begin(t, "out", "out") /\ live' = live \ {a}
             /\ UNCHANGED <<heap, log, blk, freed, corrupted>>
    <2> USE <1>2 DEF Begin, Goes, MayRun
    <2>1. BlocksTyped'
      BY <1>0 DEF BlocksTyped, Pcs, Holding
    <2>2. BlocksHeld'
      BY <1>0 DEF BlocksTyped, BlocksHeld, Holding
    <2>3. LogPrefix' /\ ReuseForgotten'
      BY <1>0 DEF LogPrefix, ReuseForgotten, NoFalseDoubleFree
    <2> QED
      BY <2>1, <2>2, <2>3 DEF LogInv
  <1>3. CASE /\ Begin(t, "out", "free") /\ live' = live \ {a}
             /\ log' = InsertRecord(log, a) /\ freed' = <<a>> \o Without(freed, a)
             /\ blk' = [blk EXCEPT ![t] = a] /\ UNCHANGED <<heap, corrupted>>
    <2>1. LogPrefix' /\ Range(log') \subseteq Range(log) \cup {a}
      BY <1>0, <1>3, LogInserts
    <2> USE <1>3 DEF Begin, Goes, MayRun
    <2>2. BlocksTyped'
      BY <1>0 DEF BlocksTyped, Pcs, Holding
    <2>3. BlocksHeld'
      BY <1>0 DEF BlocksTyped, BlocksHeld, Holding
    <2>4. ReuseForgotten'
      BY <1>0, <2>1 DEF ReuseForgotten, NoFalseDoubleFree
    <2> QED
      BY <2>1, <2>2, <2>3, <2>4 DEF LogInv
  <1> QED
    BY <1>1, <1>2, <1>3 DEF Free, Unregister

\* The block that is resized is taken from the program.
LEMMA ReallocKeepsLog ==
    ASSUME LogInv, NEW t \in Threads, NEW a \in Addrs, NEW zero \in BOOLEAN,
           NEW keep \in BOOLEAN, Realloc(t, a, zero, keep)
    PROVE  LogInv'
  <1>0. BlocksTyped /\ BlocksHeld /\ LogPrefix /\ ReuseForgotten /\ a \in live
    BY DEF LogInv, Realloc
  <1>1. PICK to \in {"zero", "realloc"} : Begin(t, "out", to)
    BY DEF Realloc
  <1>2. CASE Corrupt
    BY <1>1, <1>2, CorruptKeepsLog DEF Pcs
  <1>3. CASE ~Corrupt
    <2>1. /\ live' = live \ {a} /\ blk' = [blk EXCEPT ![t] = a]
          /\ UNCHANGED <<heap, log, freed, corrupted>>
      BY <1>3 DEF Realloc, Unregister
    <2> USE <1>1, <2>1 DEF Begin, Goes, MayRun
    <2>2. BlocksTyped'
      BY <1>0 DEF BlocksTyped, Pcs, Holding
    <2>3. BlocksHeld'
      BY <1>0 DEF BlocksTyped, BlocksHeld, Holding
    <2>4. LogPrefix' /\ ReuseForgotten'
      BY <1>0 DEF LogPrefix, ReuseForgotten, NoFalseDoubleFree
    <2> QED
      BY <2>2, <2>3, <2>4 DEF LogInv
  <1> QED
    BY <1>2, <1>3

\* A free inside of a realloc is of a block that the program has given up.
LEMMA RecordFreeKeepsLog ==
    ASSUME LogInv, NEW t \in Threads, RecordFree(t)
    PROVE  LogInv'
  <1> USE DEF RecordFree, Begin, Goes, MayRun, lists, stats
  <1>0. BlocksTyped /\ BlocksHeld /\ LogPrefix /\ ReuseForgotten
    BY DEF LogInv
  <1>1. blk[t] \in Addrs
    BY <1>0 DEF BlocksTyped, Holding
  <1>2. LogPrefix' /\ Range(log') \subseteq Range(log) \cup {blk[t]}
    BY <1>0, <1>1, LogInserts
  <1>3. BlocksTyped'
    BY <1>0 DEF BlocksTyped, Pcs, Holding
  <1>4. BlocksHeld'
    BY <1>0 DEF BlocksTyped, BlocksHeld, Holding
  <1>5. ReuseForgotten'
    <2>1. ~rare => blk[t] \notin live
      BY <1>0 DEF BlocksHeld, Holding
    <2> QED
      BY <2>1, <1>0, <1>2 DEF ReuseForgotten, NoFalseDoubleFree
  <1> QED
    BY <1>2, <1>3, <1>4, <1>5 DEF LogInv

LEMMA PopFinishKeepsLog ==
    ASSUME LogInv, NEW t \in Threads, PopFinish(t)
    PROVE  LogInv'
  <1>1. Begin(t, "pop", "out")
    BY DEF PopFinish
  <1>2. CASE Corrupt
    BY <1>1, <1>2, CorruptKeepsLog DEF Pcs
  <1>3. CASE ~Corrupt
    <2>1. blk' = [blk EXCEPT ![t] = Null] /\ UNCHANGED <<heap, log, live, freed, corrupted>>
      BY <1>3 DEF PopFinish, Collapse
    <2> USE <1>1, <2>1 DEF Begin, Goes, MayRun
    <2>2. BlocksTyped' /\ BlocksHeld'
      BY DEF LogInv, BlocksTyped, BlocksHeld, Pcs, Holding
    <2>3. LogPrefix' /\ ReuseForgotten'
      BY DEF LogInv, LogPrefix, ReuseForgotten, NoFalseDoubleFree
    <2> QED
      BY <2>2, <2>3 DEF LogInv
  <1> QED
    BY <1>2, <1>3

LEMMA ResetKeepsLog ==
    ASSUME LogInv, NEW t \in Threads, Reset(t)
    PROVE  LogInv'
  <1> USE BoundsAssumption DEF Reset, Begin, Goes, MayRun, lists, stats
  <1>1. BlocksTyped' /\ BlocksHeld'
    BY DEF LogInv, BlocksTyped, BlocksHeld, Pcs, Holding
  <1>2. LogPrefix'
    BY DEF LogPrefix, Injective
  <1>3. ReuseForgotten'
    BY DEF ReuseForgotten, NoFalseDoubleFree, Range
  <1> QED
    BY <1>1, <1>2, <1>3 DEF LogInv

LEMMA LogInvStep == LogInv /\ [Next]_vars => LogInv'
  <1> SUFFICES ASSUME LogInv, [Next]_vars PROVE LogInv'
    OBVIOUS
  <1>1. CASE UNCHANGED vars
    BY <1>1 DEF vars, LogInv, BlocksTyped, BlocksHeld, Holding, LogPrefix, ReuseForgotten,
                NoFalseDoubleFree
  <1>2. ASSUME NEW t \in Threads,
               \/ Malloc(t) \/ Register(t) \/ HeapFree(t)
               \/ ReallocMoves(t) \/ ReallocKeeps(t) \/ ReallocFrees(t)
               \/ RecordFree(t) \/ ReallocZero(t)
               \/ Push(t) \/ PopClean(t) \/ PopLeaks(t) \/ PopFinish(t) \/ Reset(t)
        PROVE  LogInv'
    BY <1>2, MallocKeepsLog, RegisterKeepsLog, HeapFreeKeepsLog, ReallocMovesKeepsLog,
       ReallocKeepsKeepsLog, ReallocFreesKeepsLog, RecordFreeKeepsLog, ReallocZeroKeepsLog,
       PushKeepsLog, PopCleanKeepsLog, PopLeaksKeepsLog, PopFinishKeepsLog, ResetKeepsLog
  <1>3. ASSUME NEW t \in Threads, NEW a \in Addrs,
               Free(t, a) \/ \E zero, keep \in BOOLEAN : Realloc(t, a, zero, keep)
        PROVE  LogInv'
    BY <1>3, FreeKeepsLog, ReallocKeepsLog
  <1> QED
    BY <1>1, <1>2, <1>3 DEF Next

\* free_table_insert_locked and free_table_remove_locked: whatever two threads do, a
\* live block has no record unless a realloc has failed, and the records that are
\* dropped for want of room are the oldest ones.
THEOREM LogCorrect == Spec => []LogRight
  <1>1. Spec => []LogInv
    BY LogInvInit, LogInvStep, PTL DEF Spec
  <1>2. LogInv => ReuseForgotten
    BY DEF LogInv
  <1>3. LogInv => LogKeepsNewest
    <2> SUFFICES ASSUME LogPrefix, NEW i \in DOMAIN freed, freed[i] \notin Range(log),
                        NEW j \in DOMAIN freed, j > i
                 PROVE  freed[j] \notin Range(log)
      BY DEF LogInv, LogKeepsNewest
    <2>1. i \in 1..Len(freed) /\ j \in 1..Len(freed) /\ Len(log) \in Nat
      BY DEF LogPrefix
    <2>2. i > Len(log)
      BY <2>1, RangeIs DEF LogPrefix
    <2>3. \A k \in 1..Len(log) : log[k] # freed[j]
      BY <2>1, <2>2 DEF LogPrefix, Injective
    <2> QED
      BY <2>3, RangeIs DEF LogPrefix
  <1> QED
    BY <1>1, <1>2, <1>3, PTL DEF LogRight

-----------------------------------------------------------------------------
(* The lists.                                                              *)

\* There are no more entries in a list than addresses.
LEMMA ListIsShort ==
    ASSUME NEW q \in Seq(Addrs), Injective(q)
    PROVE  /\ Cardinality(Addrs) \in Nat /\ Len(q) <= Cardinality(Addrs)
           /\ Cardinality(Range(q)) = Len(q)
  <1>1. Range(q) \subseteq Addrs
    BY RangeIs
  <1>2. /\ IsFiniteSet(Range(q)) /\ Cardinality(Addrs) \in Nat
        /\ Cardinality(Range(q)) <= Cardinality(Addrs)
    BY <1>1, AddrsAssumption, FS_Subset, FS_CardinalityType
  <1>3. Len(q) \in Nat /\ q \in [1..Len(q) -> Range(q)]
    BY RangeIs
  <1>4. ExistsBijection(1..Len(q), Range(q))
    <2>1. q \in Injection(1..Len(q), Range(q))
      BY <1>3 DEF Injection, IsInjective, Injective
    <2>2. q \in Surjection(1..Len(q), Range(q))
      BY <1>3, RangeIs DEF Surjection
    <2> QED
      BY <2>1, <2>2 DEF ExistsBijection, Bijection
  <1>5. Cardinality(Range(q)) = Len(q)
    BY <1>2, <1>3, <1>4, FS_CountingElements
  <1> QED
    BY <1>2, <1>5

Prefix(q, k) == [j \in 1..k |-> q[j]]

\* A chain of next pointers is walked to its end.
LEMMA WalkIs ==
    ASSUME NEW q \in Seq(Addrs), Injective(q),
           NEW ptr, ptr = IF Len(q) = 0 THEN Null ELSE q[1],
           \A i \in 1..Len(q) : next[q[i]] = IF i = Len(q) THEN Null ELSE q[i + 1]
    PROVE  Walk(ptr) = q
  <1> DEFINE N == Cardinality(Addrs)
             D(g) == [n \in 0..Cardinality(Addrs) |->
                        IF n = 0 THEN IF ptr = Null THEN <<>> ELSE <<ptr>>
                        ELSE LET c == g[n - 1]
                             IN  IF c = <<>> \/ next[Last(c)] = Null THEN c
                                 ELSE Append(c, next[Last(c)])]
             C == CHOOSE g : g = D(g)
             k(n) == IF n + 1 < Len(q) THEN n + 1 ELSE Len(q)
             f == [n \in 0..N |-> Prefix(q, k(n))]
  <1>1. N \in Nat /\ Len(q) \in Nat /\ Len(q) <= N
    BY ListIsShort
  <1>2. \A m \in 0..Len(q) :
           /\ Prefix(q, m) \in Seq(Addrs) /\ Len(Prefix(q, m)) = m
           /\ \A j \in 1..m : Prefix(q, m)[j] = q[j]
    BY DEF Prefix
  <1>3. \A j \in 1..Len(q) : q[j] \in Addrs /\ q[j] # Null
    BY AddrsAssumption
  <1>4. Prefix(q, 0) = <<>> /\ (Len(q) > 0 => Prefix(q, 1) = <<q[1]>>) /\ Prefix(q, Len(q)) = q
    BY <1>1 DEF Prefix
  <1>5. f[0] = IF ptr = Null THEN <<>> ELSE <<ptr>>
    BY <1>1, <1>3, <1>4
  <1>6. ASSUME NEW n \in 1..N
        PROVE  f[n] = LET c == f[n - 1]
                      IN  IF c = <<>> \/ next[Last(c)] = Null THEN c ELSE Append(c, next[Last(c)])
    <2> DEFINE c == Prefix(q, k(n - 1))
    <2>0. f[n] = Prefix(q, k(n)) /\ f[n - 1] = c /\ n - 1 \in Nat
      BY <1>1
    <2>1. CASE Len(q) = 0
      BY <2>0, <2>1, <1>1, <1>4
    <2>2. CASE Len(q) # 0
      <3>0. k(n - 1) \in 1..Len(q)
        BY <2>0, <2>2, <1>1
      <3>1. c \in Seq(Addrs) /\ Len(c) = k(n - 1) /\ c # <<>> /\ Last(c) = q[k(n - 1)]
        BY <3>0, <1>2 DEF Last
      <3>2. CASE n < Len(q)
        <4>1. k(n - 1) = n /\ k(n) = n + 1
          BY <3>2, <1>1
        <4>2. next[Last(c)] = q[n + 1] /\ q[n + 1] # Null /\ q[n + 1] \in Addrs
          BY <4>1, <3>1, <3>2, <1>1, <1>3
        <4>3. Prefix(q, n + 1) = Append(c, q[n + 1])
          <5>1. n + 1 \in 0..Len(q) /\ n \in 1..Len(q)
            BY <3>2, <1>1
          <5>2. /\ Append(c, q[n + 1]) \in Seq(Addrs) /\ Len(Append(c, q[n + 1])) = n + 1
                /\ \A j \in 1..(n + 1) : Append(c, q[n + 1])[j] = q[j]
            BY <3>1, <4>1, <4>2, <5>1, <1>2
          <5> HIDE DEF c
          <5>3. /\ Prefix(q, n + 1) \in Seq(Addrs) /\ Len(Prefix(q, n + 1)) = n + 1
                /\ \A j \in 1..(n + 1) : Prefix(q, n + 1)[j] = q[j]
            BY <5>1, <1>2
          <5> QED
            BY <5>2, <5>3, SeqEqual
        <4> HIDE DEF c
        <4> QED
          BY <2>0, <3>1, <4>1, <4>2, <4>3
      <3>3. CASE n >= Len(q)
        <4>1. k(n - 1) = Len(q) /\ k(n) = Len(q)
          BY <3>3, <2>2, <1>1
        <4>2. next[Last(c)] = Null
          BY <4>1, <3>0, <3>1
        <4> HIDE DEF c
        <4> QED
          BY <2>0, <3>1, <4>1, <4>2 DEF c
      <3> QED
        BY <3>2, <3>3, <1>1
    <2> QED
      BY <2>1, <2>2
  <1>7. f[N] = q
    BY <1>1, <1>4
  <1>8. f = D(f)
    <2>1. \A n \in 0..N : n # 0 => n \in 1..N
      BY <1>1
    <2> QED
      BY <2>1, <1>5, <1>6
  <1>9. C = D(C)
    BY <1>8
  <1>10. Walk(ptr) = C[N]
    BY DEF Walk
  <1> HIDE DEF C
  <1>11. ASSUME NEW n \in 0..N, C[n] # f[n] PROVE FALSE
    <2> DEFINE T == {m \in 0..N : C[m] # f[m]}
    <2>1. PICK m \in T : \A j \in T : ~(j < m)
      <3>1. T \in SUBSET Nat /\ T # {}
        BY <1>11
      <3> HIDE DEF T
      <3> QED
        BY <3>1, LeastNumber
    <2>2. m \in 0..N /\ C[m] # f[m]
      BY <2>1
    <2>3. CASE m = 0
      <3>1. D(C)[0] = D(f)[0]
        BY <1>1
      <3> QED
        BY <2>2, <2>3, <3>1, <1>8, <1>9
    <2>4. CASE m # 0
      <3>1. m - 1 \in 0..N /\ C[m - 1] = f[m - 1]
        BY <2>1, <2>4, <1>1
      <3>2. D(C)[m] = D(f)[m]
        BY <3>1, <2>2, <2>4
      <3> QED
        BY <2>2, <3>2, <1>8, <1>9
    <2> QED
      BY <2>3, <2>4
  <1> QED
    BY <1>1, <1>7, <1>10, <1>11

\* The list of level l holds the entries of s[l], in this order.
Linked(s, l) ==
    /\ Injective(s[l])
    /\ head[l] = IF Len(s[l]) = 0 THEN Null ELSE s[l][1]
    /\ l > top => Len(s[l]) = 0
    /\ \A i \in 1..Len(s[l]) :
          /\ s[l][i] \in live /\ level[s[l][i]] = l
          /\ next[s[l][i]] = IF i = Len(s[l]) THEN Null ELSE s[l][i + 1]
          /\ prev[s[l][i]] = IF i = 1 THEN Null ELSE s[l][i - 1]

\* Every live block is in the list of its level.
Complete(s) == \A a \in live : level[a] \in Levels /\ \E i \in 1..Len(s[level[a]]) : s[level[a]][i] = a

Represents(s) == s \in [Levels -> Seq(Addrs)] /\ (\A l \in Levels : Linked(s, l)) /\ Complete(s)

ListTypes ==
    /\ live \subseteq Addrs /\ top \in Levels
    /\ level \in [Addrs -> Levels] /\ head \in [Levels -> Addrs \cup {Null}]
    /\ next \in [Addrs -> Addrs \cup {Null}] /\ prev \in [Addrs -> Addrs \cup {Null}]

\* register_alloc: a block is put in front of the list of the current level.
LEMMA RegisterKeepsLists ==
    ASSUME ListTypes, NEW s, Represents(s), NEW a \in Addrs \ live,
           level' = [level EXCEPT ![a] = top],
           next' = [next EXCEPT ![a] = head[top]],
           prev' = [b \in Addrs |-> IF b = a THEN Null ELSE IF b = head[top] THEN a ELSE prev[b]],
           head' = [head EXCEPT ![top] = a],
           live' = live \cup {a}, top' = top,
           NEW r, r = [s EXCEPT ![top] = <<a>> \o s[top]]
    PROVE  ListTypes' /\ Represents(r)'
  <1> USE AddrsAssumption
  <1>0. /\ live \subseteq Addrs /\ top \in Levels
        /\ level \in [Addrs -> Levels] /\ head \in [Levels -> Addrs \cup {Null}]
        /\ next \in [Addrs -> Addrs \cup {Null}] /\ prev \in [Addrs -> Addrs \cup {Null}]
        /\ s \in [Levels -> Seq(Addrs)] /\ \A l \in Levels : Linked(s, l)
        /\ Complete(s) /\ a \in Addrs /\ a \notin live
    BY DEF ListTypes, Represents
  <1>1. ListTypes'
    BY <1>0 DEF ListTypes
  <1>2. /\ r \in [Levels -> Seq(Addrs)] /\ \A l \in Levels \ {top} : r[l] = s[l]
        /\ r[top] \in Seq(Addrs) /\ Len(r[top]) = Len(s[top]) + 1
        /\ \A i \in 1..(Len(s[top]) + 1) : r[top][i] = IF i = 1 THEN a ELSE s[top][i - 1]
    <2> DEFINE q == <<a>> \o s[top]
    <2>1. /\ q \in Seq(Addrs) /\ Len(q) = Len(s[top]) + 1
          /\ \A i \in 1..(Len(s[top]) + 1) : q[i] = IF i = 1 THEN a ELSE s[top][i - 1]
      <3>1. s[top] \in Seq(Addrs)
        BY <1>0
      <3> QED
        BY <1>0, <3>1, InFront
    <2>2. r = [s EXCEPT ![top] = q]
      OBVIOUS
    <2> HIDE DEF q
    <2> QED
      BY <1>0, <2>1, <2>2
  <1>3. \A l \in Levels : \A i \in 1..Len(s[l]) : s[l][i] \in live /\ level[s[l][i]] = l
    BY <1>0 DEF Linked
  <1>4. ASSUME NEW l \in Levels, l # top PROVE Linked(r, l)'
    <2>1. r[l] = s[l] /\ Linked(s, l) /\ s[l] \in Seq(Addrs)
      BY <1>0, <1>2, <1>4
    <2>2. \A i \in 1..Len(s[l]) : s[l][i] \in Addrs /\ s[l][i] # a /\ s[l][i] # head[top]
      <3>1. head[top] \in Addrs => level[head[top]] = top
        <4>1. Linked(s, top) /\ s[top] \in Seq(Addrs)
          BY <1>0
        <4>2. Len(s[top]) # 0 => 1 \in 1..Len(s[top])
          BY <4>1
        <4> QED
          BY <4>1, <4>2 DEF Linked
      <3> QED
        BY <3>1, <1>0, <1>3, <1>4
    <2> QED
      BY <2>1, <2>2, <1>0, <1>4 DEF Linked
  <1>5. Linked(r, top)'
    <2> DEFINE q == s[top]
    <2>1. q \in Seq(Addrs) /\ Linked(s, top) /\ \A i \in 1..Len(q) : q[i] \in Addrs \ {a}
      BY <1>0, <1>3
    <2>2. Injective(r[top])
      <3> SUFFICES ASSUME NEW i \in 1..Len(r[top]), NEW j \in 1..Len(r[top]), r[top][i] = r[top][j]
                   PROVE  i = j
        BY DEF Injective
      <3>1. \A k \in 1..Len(r[top]) : k # 1 => k - 1 \in 1..Len(q) /\ r[top][k] = q[k - 1]
        BY <1>2, <2>1
      <3>2. r[top][1] = a /\ Len(q) \in Nat
        BY <1>2, <2>1
      <3>3. i - 1 \in 1..Len(q) /\ j - 1 \in 1..Len(q) /\ q[i - 1] = q[j - 1] => i - 1 = j - 1
        BY <2>1 DEF Linked, Injective
      <3> QED
        BY <2>1, <3>1, <3>2, <3>3, SMTT(30)
    <2>3. head'[top] = r[top][1] /\ Len(r[top]) # 0
      BY <1>0, <1>2, <2>1
    <2>4. ASSUME NEW i \in 1..Len(r[top])
          PROVE  /\ r[top][i] \in live' /\ level'[r[top][i]] = top
                 /\ next'[r[top][i]] = IF i = Len(r[top]) THEN Null ELSE r[top][i + 1]
                 /\ prev'[r[top][i]] = IF i = 1 THEN Null ELSE r[top][i - 1]
      <3>1. CASE i = 1
        <4>1. head[top] = IF Len(q) = 0 THEN Null ELSE q[1]
          BY <2>1 DEF Linked
        <4>2. r[top][1] = a /\ (Len(q) # 0 => r[top][2] = q[1])
          BY <1>2, <2>1
        <4> QED
          BY <1>0, <1>2, <2>1, <3>1, <4>1, <4>2
      <3>2. CASE i # 1
        <4>1. i - 1 \in 1..Len(q) /\ r[top][i] = q[i - 1]
          BY <1>2, <2>1, <2>4, <3>2
        <4>2. i # Len(r[top]) => r[top][i + 1] = q[i]
          BY <1>2, <2>1, <2>4, <3>2
        <4>3. r[top][i - 1] = IF i = 2 THEN a ELSE q[i - 2]
          BY <1>2, <2>1, <2>4, <3>2
        <4>4. /\ q[i - 1] \in live /\ level[q[i - 1]] = top
              /\ next[q[i - 1]] = IF i - 1 = Len(q) THEN Null ELSE q[i]
              /\ prev[q[i - 1]] = IF i = 2 THEN Null ELSE q[i - 2]
          <5>1. \A k \in 1..Len(q) : /\ q[k] \in live /\ level[q[k]] = top
                                     /\ next[q[k]] = IF k = Len(q) THEN Null ELSE q[k + 1]
                                     /\ prev[q[k]] = IF k = 1 THEN Null ELSE q[k - 1]
            BY <2>1 DEF Linked
          <5>2. (i - 1) + 1 = i /\ (i - 1) - 1 = i - 2 /\ (i - 1 = 1 <=> i = 2)
            BY <2>4
          <5> HIDE DEF q
          <5> QED
            BY <5>1, <5>2, <4>1
        <4>5. q[i - 1] = head[top] <=> i = 2
          <5>1. head[top] = q[1] /\ 1 \in 1..Len(q) /\ Injective(q)
            BY <2>1, <4>1 DEF Linked
          <5> HIDE DEF q
          <5>2. q[i - 1] = q[1] => i - 1 = 1
            BY <5>1, <4>1 DEF Injective
          <5> QED
            BY <5>1, <5>2, <2>4
        <4>6. q[i - 1] \in Addrs \ {a} /\ (i = Len(r[top]) <=> i - 1 = Len(q))
          BY <1>2, <2>1, <4>1
        <4> HIDE DEF q
        <4> QED
          BY <1>0, <3>2, <4>1, <4>2, <4>3, <4>4, <4>5, <4>6
      <3> QED
        BY <3>1, <3>2
    <2> QED
      <3>1. top \in Int
        BY <1>0, BoundsAssumption DEF Levels
      <3> QED
        BY <2>2, <2>3, <2>4, <3>1 DEF Linked
  <1>6. Complete(r)'
    <2> SUFFICES ASSUME NEW b \in live'
                 PROVE  level'[b] \in Levels /\ \E i \in 1..Len(r[level'[b]]) : r[level'[b]][i] = b
      BY DEF Complete
    <2>1. CASE b = a
      <3>1. level'[b] = top /\ 1 \in 1..Len(r[top]) /\ r[top][1] = a
        BY <2>1, <1>0, <1>2
      <3> QED
        BY <3>1, <2>1, <1>0
    <2>2. CASE b # a
      <3>1. b \in live /\ level'[b] = level[b] /\ level[b] \in Levels
        BY <2>2, <1>0
      <3>2. PICK i \in 1..Len(s[level[b]]) : s[level[b]][i] = b
        BY <3>1, <1>0 DEF Complete
      <3>3. CASE level[b] = top
        <4>1. i + 1 \in 1..Len(r[top]) /\ r[top][i + 1] = b
          BY <3>2, <3>3, <1>0, <1>2
        <4> QED
          BY <4>1, <3>1, <3>3
      <3> QED
        BY <3>1, <3>2, <3>3, <1>2
    <2> QED
      BY <2>1, <2>2
  <1> QED
    BY <1>0, <1>1, <1>2, <1>4, <1>5, <1>6 DEF Represents

\* unregister_alloc_locked: a block is taken out of the list of its level.
LEMMA UnregisterKeepsLists ==
    ASSUME ListTypes, NEW s, Represents(s), NEW a \in live, top' = top, Unregister(a),
           NEW k \in 1..Len(s[level[a]]), s[level[a]][k] = a,
           NEW r, r = [s EXCEPT ![level[a]] = Cut(s[level[a]], k)]
    PROVE  ListTypes' /\ Represents(r)'
  <1> USE AddrsAssumption
  <1> DEFINE la == level[a]  q == s[la]
  <1>0. /\ live \subseteq Addrs /\ top \in Levels
        /\ level \in [Addrs -> Levels] /\ head \in [Levels -> Addrs \cup {Null}]
        /\ next \in [Addrs -> Addrs \cup {Null}] /\ prev \in [Addrs -> Addrs \cup {Null}]
        /\ s \in [Levels -> Seq(Addrs)] /\ \A l \in Levels : Linked(s, l)
        /\ Complete(s) /\ a \in Addrs /\ la \in Levels
    BY DEF ListTypes, Represents
  <1>1. /\ next' = IF prev[a] # Null THEN [next EXCEPT ![prev[a]] = next[a]] ELSE next
        /\ head' = IF prev[a] # Null THEN head ELSE [head EXCEPT ![la] = next[a]]
        /\ prev' = IF next[a] = Null THEN prev ELSE [prev EXCEPT ![next[a]] = prev[a]]
        /\ live' = live \ {a} /\ level' = level /\ top' = top
    BY DEF Unregister, ListOf
  <1>2. ListTypes'
    BY <1>0, <1>1 DEF ListTypes
  <1>3. /\ q \in Seq(Addrs) /\ Injective(q) /\ Len(q) \in Nat /\ k \in 1..Len(q) /\ q[k] = a
        /\ head[la] = IF Len(q) = 0 THEN Null ELSE q[1]
        /\ la > top => Len(q) = 0
        /\ \A i \in 1..Len(q) :
              /\ q[i] \in live /\ level[q[i]] = la
              /\ next[q[i]] = IF i = Len(q) THEN Null ELSE q[i + 1]
              /\ prev[q[i]] = IF i = 1 THEN Null ELSE q[i - 1]
    BY <1>0 DEF Linked
  <1>4. /\ r \in [Levels -> Seq(Addrs)] /\ \A l \in Levels \ {la} : r[l] = s[l]
        /\ r[la] = Cut(q, k) /\ Len(r[la]) = Len(q) - 1
        /\ \A i \in 1..(Len(q) - 1) : r[la][i] = IF i < k THEN q[i] ELSE q[i + 1]
    <2>1. /\ Cut(q, k) \in Seq(Addrs) /\ Len(Cut(q, k)) = Len(q) - 1
          /\ \A i \in 1..(Len(q) - 1) : Cut(q, k)[i] = IF i < k THEN q[i] ELSE q[i + 1]
      <3>1. \A i \in 1..(Len(q) - 1) : Cut(q, k)[i] = IF i < k THEN q[i] ELSE q[i + 1]
        BY DEF Cut
      <3> QED
        BY <3>1, <1>3, CutIs
    <2> QED
      BY <2>1, <1>0
  <1>5. /\ prev[a] = IF k = 1 THEN Null ELSE q[k - 1]
        /\ next[a] = IF k = Len(q) THEN Null ELSE q[k + 1]
    BY <1>3
  <1> HIDE DEF q
  <1>6. ASSUME NEW l \in Levels, l # la PROVE Linked(r, l)'
    <2>1. r[l] = s[l] /\ Linked(s, l) /\ s[l] \in Seq(Addrs)
      BY <1>0, <1>4, <1>6
    <2>2. \A i \in 1..Len(s[l]) : level[s[l][i]] = l /\ s[l][i] \in Addrs
      BY <2>1 DEF Linked
    <2>3. (prev[a] # Null => level[prev[a]] = la) /\ (next[a] # Null => level[next[a]] = la)
      BY <1>3, <1>5
    <2>4. \A i \in 1..Len(s[l]) : s[l][i] # a /\ s[l][i] # prev[a] /\ s[l][i] # next[a]
      BY <2>2, <2>3, <1>6, AddrsAssumption
    <2>5. \A i \in 1..Len(s[l]) :
             next'[s[l][i]] = next[s[l][i]] /\ prev'[s[l][i]] = prev[s[l][i]]
      BY <2>2, <2>4, <1>0, <1>1
    <2>6. head'[l] = head[l]
      BY <1>0, <1>1, <1>6
    <2> QED
      BY <2>1, <2>4, <2>5, <2>6, <1>1 DEF Linked
  <1>7. ASSUME NEW l \in Levels, l = la PROVE Linked(r, l)'
    <2> DEFINE w == r[la]
    <2>1. /\ Len(w) = Len(q) - 1 /\ Len(w) \in Nat
          /\ \A i \in 1..Len(w) : w[i] = IF i < k THEN q[i] ELSE q[i + 1]
      <3>1. Len(w) = Len(q) - 1 /\ \A i \in 1..(Len(q) - 1) : w[i] = IF i < k THEN q[i] ELSE q[i + 1]
        BY <1>4
      <3>2. Len(q) - 1 \in Nat
        BY <1>3
      <3> HIDE DEF w
      <3> QED
        BY <3>1, <3>2
    <2> HIDE DEF w
    <2>0. /\ q \in Seq(Addrs) /\ Len(q) \in Nat /\ k \in 1..Len(q) /\ q[k] = a /\ la \in Levels
          /\ (\A i \in 1..Len(q) : q[i] \in Addrs /\ q[i] # Null) /\ Null \notin Addrs
          /\ next \in [Addrs -> Addrs \cup {Null}] /\ prev \in [Addrs -> Addrs \cup {Null}]
          /\ head \in [Levels -> Addrs \cup {Null}]
      BY <1>0, <1>3
    <2>2. \A i, j \in 1..Len(q) : q[i] = q[j] => i = j
      BY <1>3 DEF Injective
    <2>3. Injective(w)
      BY <2>1, <2>2, <1>3 DEF Injective
    <2>4. head'[la] = IF Len(w) = 0 THEN Null ELSE w[1]
      <3>1. CASE k = 1
        <4>1. head'[la] = next[a]
          BY <3>1, <2>0, <1>1, <1>5
        <4>2. Len(w) = 0 <=> k = Len(q)
          BY <3>1, <2>0, <2>1
        <4>3. Len(w) # 0 => w[1] = q[2]
          BY <3>1, <2>0, <2>1
        <4> QED
          BY <3>1, <4>1, <4>2, <4>3, <1>5
      <3>2. CASE k # 1
        <4>0. k - 1 \in 1..Len(q) /\ 1 < k /\ Len(q) # 0
          BY <3>2, <2>0
        <4>1. head'[la] = q[1]
          BY <3>2, <4>0, <2>0, <1>1, <1>3, <1>5
        <4>2. w[1] = q[1] /\ Len(w) # 0
          BY <4>0, <2>0, <2>1
        <4> QED
          BY <4>1, <4>2
      <3> QED
        BY <3>1, <3>2
    <2>5. \A j \in 1..Len(q) : j # k =>
             /\ next'[q[j]] = IF j = k - 1 THEN next[a] ELSE next[q[j]]
             /\ prev'[q[j]] = IF j = k + 1 THEN prev[a] ELSE prev[q[j]]
      <3> SUFFICES ASSUME NEW j \in 1..Len(q), j # k
                   PROVE  /\ next'[q[j]] = IF j = k - 1 THEN next[a] ELSE next[q[j]]
                          /\ prev'[q[j]] = IF j = k + 1 THEN prev[a] ELSE prev[q[j]]
        OBVIOUS
      <3>1. q[j] \in Addrs /\ q[j] # Null
        BY <1>3
      <3>2. prev[a] # Null => prev[a] \in Addrs /\ (q[j] = prev[a] <=> j = k - 1)
        <4> SUFFICES ASSUME prev[a] # Null PROVE prev[a] \in Addrs /\ (q[j] = prev[a] <=> j = k - 1)
          OBVIOUS
        <4>1. k - 1 \in 1..Len(q) /\ prev[a] = q[k - 1]
          BY <2>0, <1>5
        <4> QED
          BY <4>1, <2>0, <2>2
      <3>3. next[a] # Null => next[a] \in Addrs /\ (q[j] = next[a] <=> j = k + 1)
        <4> SUFFICES ASSUME next[a] # Null PROVE next[a] \in Addrs /\ (q[j] = next[a] <=> j = k + 1)
          OBVIOUS
        <4>1. k + 1 \in 1..Len(q) /\ next[a] = q[k + 1]
          BY <2>0, <1>5
        <4> QED
          BY <4>1, <2>0, <2>2
      <3>4. prev[a] = Null => j # k - 1
        BY <1>3, <1>5
      <3>5. next[a] = Null => j # k + 1
        BY <1>3, <1>5
      <3>6. next'[q[j]] = IF j = k - 1 THEN next[a] ELSE next[q[j]]
        BY <3>1, <3>2, <3>4, <1>0, <1>1
      <3>7. prev'[q[j]] = IF j = k + 1 THEN prev[a] ELSE prev[q[j]]
        BY <3>1, <3>3, <3>5, <1>0, <1>1
      <3> QED
        BY <3>6, <3>7
    <2>6. ASSUME NEW i \in 1..Len(w)
          PROVE  /\ w[i] \in live' /\ level'[w[i]] = la
                 /\ next'[w[i]] = IF i = Len(w) THEN Null ELSE w[i + 1]
                 /\ prev'[w[i]] = IF i = 1 THEN Null ELSE w[i - 1]
      <3>1. CASE i < k
        <4>1. i \in 1..Len(q) /\ w[i] = q[i] /\ i # k /\ i # k + 1 /\ q[i] # a
          BY <3>1, <2>1, <2>2, <1>3
        <4>2. next'[q[i]] = IF i = Len(w) THEN Null ELSE w[i + 1]
          <5>1. i = Len(w) => i = k - 1 /\ k = Len(q)
            BY <3>1, <2>0, <2>1
          <5>2. i # Len(w) => i + 1 \in 1..Len(w) /\ w[i + 1] = IF i + 1 < k THEN q[i + 1] ELSE q[i + 2]
            BY <4>1, <3>1, <2>0, <2>1
          <5>3. CASE i = k - 1
            <6>1. next'[q[i]] = next[a] /\ (k = Len(q) => i = Len(w))
              BY <5>3, <4>1, <2>0, <2>1, <2>5
            <6> QED
              BY <5>1, <5>2, <5>3, <6>1, <2>0, <1>5
          <5>4. CASE i # k - 1
            <6>1. next'[q[i]] = next[q[i]] /\ i # Len(q) /\ i + 1 < k /\ next[q[i]] = q[i + 1]
              BY <5>4, <4>1, <3>1, <2>0, <2>5, <1>3
            <6> QED
              BY <5>1, <5>2, <5>4, <6>1
          <5> QED
            BY <5>3, <5>4
        <4>3. prev'[q[i]] = IF i = 1 THEN Null ELSE w[i - 1]
          BY <4>1, <3>1, <2>1, <2>5, <1>3
        <4> QED
          BY <4>1, <4>2, <4>3, <1>1, <1>3
      <3>2. CASE i >= k
        <4> DEFINE j == i + 1
        <4>1. j \in 1..Len(q) /\ w[i] = q[j] /\ j # k /\ j # k - 1 /\ q[j] # a /\ i = j - 1
          BY <3>2, <2>1, <2>2, <1>3
        <4>2. (i # Len(w) => w[i + 1] = q[j + 1]) /\ (i = Len(w) <=> j = Len(q))
          BY <4>1, <3>2, <2>1, <1>3
        <4>3. i # 1 => w[i - 1] = IF i = k THEN q[i - 1] ELSE q[i]
          BY <4>1, <3>2, <2>1, <1>3
        <4>4. (i = k <=> j = k + 1) /\ j # 1
          BY <4>1, <1>3
        <4> HIDE DEF j
        <4>5. next'[q[j]] = IF i = Len(w) THEN Null ELSE w[i + 1]
          BY <4>1, <4>2, <2>5, <1>3, ZenonT(40), SMTT(40)
        <4>6. prev'[q[j]] = IF i = 1 THEN Null ELSE w[i - 1]
          <5>1. CASE i = k
            BY <5>1, <4>1, <4>3, <4>4, <2>5, <1>3, <1>5, ZenonT(40), SMTT(40)
          <5>2. CASE i # k
            <6>1. prev'[q[j]] = q[i] /\ i # 1
              BY <5>2, <4>1, <4>4, <3>2, <2>5, <1>3, ZenonT(40), SMTT(40)
            <6> QED
              BY <6>1, <5>2, <4>3
          <5> QED
            BY <5>1, <5>2
        <4> QED
          BY <4>1, <4>5, <4>6, <1>1, <1>3
      <3> QED
        BY <3>1, <3>2, <1>3
    <2>7. la > top' => Len(w) = 0
      BY <2>1, <1>1, <1>3
    <2> QED
      <3>1. r[l] = w
        BY <1>7 DEF w
      <3>2. /\ head'[l] = IF Len(w) = 0 THEN Null ELSE w[1]
            /\ l > top' => Len(w) = 0
            /\ \A i \in 1..Len(w) :
                  /\ w[i] \in live' /\ level'[w[i]] = l
                  /\ next'[w[i]] = IF i = Len(w) THEN Null ELSE w[i + 1]
                  /\ prev'[w[i]] = IF i = 1 THEN Null ELSE w[i - 1]
        BY <2>4, <2>6, <2>7, <1>7
      <3> QED
        BY <2>3, <3>1, <3>2 DEF Linked
  <1>8. Complete(r)'
    <2> SUFFICES ASSUME NEW b \in live'
                 PROVE  level'[b] \in Levels /\ \E i \in 1..Len(r[level'[b]]) : r[level'[b]][i] = b
      BY DEF Complete
    <2>1. b \in live /\ b # a /\ level'[b] = level[b] /\ level[b] \in Levels
      BY <1>0, <1>1
    <2>2. PICK i \in 1..Len(s[level[b]]) : s[level[b]][i] = b
      BY <2>1, <1>0 DEF Complete
    <2>3. CASE level[b] = la
      <3>1. i \in 1..Len(q) /\ q[i] = b /\ i # k
        BY <2>1, <2>2, <2>3, <1>3 DEF q
      <3>2. CASE i < k
        <4>1. i \in 1..Len(r[la]) /\ r[la][i] = b
          BY <3>1, <3>2, <1>3, <1>4, SMTT(30)
        <4> QED
          BY <4>1, <2>1, <2>3
      <3>3. CASE i > k
        <4>1. i - 1 \in 1..Len(r[la]) /\ r[la][i - 1] = b
          BY <3>1, <3>3, <1>3, <1>4
        <4> QED
          BY <4>1, <2>1, <2>3
      <3> QED
        BY <3>1, <3>2, <3>3, <1>3
    <2> QED
      BY <2>1, <2>2, <2>3, <1>4
  <1> QED
    BY <1>2, <1>4, <1>6, <1>7, <1>8 DEF Represents

\* The entries q, last one first, and then those of p.
Moved(q, p) == [i \in 1..(Len(q) + Len(p)) |-> IF i <= Len(q) THEN q[Len(q) + 1 - i] ELSE p[i - Len(q)]]

\* collapse_level_locked: the list of the last level goes in front of the one below.
LEMMA CollapseKeepsLists ==
    ASSUME ListTypes, NEW s, Represents(s), top > 0, NEW q, q = s[top], Collapse(top, q),
           NEW r, r = [l \in Levels |-> IF l = top THEN <<>>
                                        ELSE IF l = top - 1 THEN Moved(q, s[l]) ELSE s[l]]
    PROVE  ListTypes' /\ Represents(r)'
  <1> USE AddrsAssumption
  <1> DEFINE lo == top - 1  p == s[lo]  n == Len(q)  m == Len(p)  w == Moved(q, p)
  <1>0. /\ live \subseteq Addrs /\ top \in Levels
        /\ level \in [Addrs -> Levels] /\ head \in [Levels -> Addrs \cup {Null}]
        /\ next \in [Addrs -> Addrs \cup {Null}] /\ prev \in [Addrs -> Addrs \cup {Null}]
        /\ s \in [Levels -> Seq(Addrs)] /\ (\A l \in Levels : Linked(s, l)) /\ Complete(s)
    BY DEF ListTypes, Represents
  <1>1. Levels \subseteq Int /\ top \in Nat /\ lo \in Levels /\ lo # top /\ lo < top
    BY <1>0, BoundsAssumption DEF Levels
  <1>2. /\ q \in Seq(Addrs) /\ Injective(q) /\ n \in Nat
        /\ \A i \in 1..n : /\ q[i] \in Addrs /\ q[i] # Null /\ q[i] \in live /\ level[q[i]] = top
    BY <1>0 DEF Linked
  <1>3. /\ p \in Seq(Addrs) /\ Injective(p) /\ m \in Nat
        /\ head[lo] = IF m = 0 THEN Null ELSE p[1]
        /\ \A i \in 1..m :
              /\ p[i] \in Addrs /\ p[i] # Null /\ p[i] \in live /\ level[p[i]] = lo
              /\ next[p[i]] = IF i = m THEN Null ELSE p[i + 1]
              /\ prev[p[i]] = IF i = 1 THEN Null ELSE p[i - 1]
    BY <1>0, <1>1 DEF Linked
  <1>nat. n \in Nat /\ m \in Nat
    BY <1>2, <1>3
  <1> HIDE DEF n, m, p
  <1>4. \A j \in 1..n : /\ q[j] \in Range(q)
                        /\ [a \in Range(q) |-> CHOOSE i \in DOMAIN q : q[i] = a][q[j]] = j
    <2> SUFFICES ASSUME NEW j \in 1..n
                 PROVE  q[j] \in Range(q) /\ (CHOOSE i \in DOMAIN q : q[i] = q[j]) = j
      BY <1>2, RangeIs DEF n
    <2>1. q[j] \in Range(q) /\ DOMAIN q = 1..n
      BY <1>2, RangeIs DEF n
    <2> QED
      BY <2>1, <1>2 DEF Injective, n
  <1>5. \A a : a \in Range(q) <=> \E j \in 1..n : q[j] = a
    BY <1>2, RangeIs DEF n
  <1>6. /\ live' = live /\ top' = lo
        /\ level' = [a \in Addrs |-> IF a \in Range(q) THEN lo ELSE level[a]]
        /\ head' = [head EXCEPT ![top] = Null, ![lo] = IF n > 0 THEN q[n] ELSE head[lo]]
    BY DEF Collapse, MovedTo, n
  <1>7. \A j \in 1..n :
           /\ next'[q[j]] = IF j = 1 THEN head[lo] ELSE q[j - 1]
           /\ prev'[q[j]] = IF j = n THEN Null ELSE q[j + 1]
    <2> DEFINE place == [a \in Range(q) |-> CHOOSE i \in DOMAIN q : q[i] = a]
    <2>1. /\ next' = [a \in Addrs |->
                       IF a \notin Range(q) THEN next[a]
                       ELSE IF place[a] = 1 THEN head[lo] ELSE q[place[a] - 1]]
          /\ prev' = [a \in Addrs |->
                       IF a \in Range(q)
                       THEN IF place[a] = n THEN Null ELSE q[place[a] + 1]
                       ELSE IF a = head[lo] /\ n > 0 THEN q[1] ELSE prev[a]]
      BY DEF Collapse, n
    <2>2. \A j \in 1..n : q[j] \in Range(q) /\ place[q[j]] = j /\ q[j] \in Addrs
      BY <1>2, <1>4
    <2> HIDE DEF place
    <2> QED
      BY <2>1, <2>2
  <1>8. \A a \in Addrs : (\A j \in 1..n : q[j] # a) =>
           /\ next'[a] = next[a]
           /\ prev'[a] = IF a = head[lo] /\ n > 0 THEN q[1] ELSE prev[a]
    BY <1>5 DEF Collapse, n
  <1>9. ListTypes'
    <2>1. /\ level' \in [Addrs -> Levels] /\ live' \subseteq Addrs /\ top' \in Levels
          /\ head' \in [Levels -> Addrs \cup {Null}]
      BY <1>0, <1>1, <1>2, <1>6
    <2>2. \A a \in Addrs : next'[a] \in Addrs \cup {Null} /\ prev'[a] \in Addrs \cup {Null}
      <3> SUFFICES ASSUME NEW a \in Addrs
                   PROVE  next'[a] \in Addrs \cup {Null} /\ prev'[a] \in Addrs \cup {Null}
        OBVIOUS
      <3>0. head[lo] \in Addrs \cup {Null} /\ (n > 0 => q[1] \in Addrs)
        BY <1>0, <1>1, <1>2
      <3>1. CASE \E j \in 1..n : q[j] = a
        <4>1. PICK j \in 1..n : q[j] = a
          BY <3>1
        <4>2. (j # 1 => q[j - 1] \in Addrs) /\ (j # n => q[j + 1] \in Addrs)
          BY <1>2
        <4> QED
          BY <3>0, <4>1, <4>2, <1>7
      <3>2. CASE \A j \in 1..n : q[j] # a
        BY <3>0, <3>2, <1>0, <1>8
      <3> QED
        BY <3>1, <3>2
    <2>3. next' = [a \in Addrs |-> next'[a]] /\ prev' = [a \in Addrs |-> prev'[a]]
      BY DEF Collapse
    <2>4. next' \in [Addrs -> Addrs \cup {Null}] /\ prev' \in [Addrs -> Addrs \cup {Null}]
      BY <2>2, <2>3
    <2> QED
      BY <2>1, <2>4 DEF ListTypes
  <1>10. /\ w \in Seq(Addrs) /\ Len(w) = n + m
         /\ \A i \in 1..(n + m) : w[i] = IF i <= n THEN q[n + 1 - i] ELSE p[i - n]
    <2>1. \A i \in 1..(n + m) : (i <= n => n + 1 - i \in 1..n) /\ (i > n => i - n \in 1..m)
      BY <1>nat
    <2>2. w = [i \in 1..(n + m) |-> IF i <= n THEN q[n + 1 - i] ELSE p[i - n]]
      BY DEF Moved, n, m
    <2> HIDE DEF w
    <2>3. \A i \in 1..(n + m) : w[i] = IF i <= n THEN q[n + 1 - i] ELSE p[i - n]
      BY <2>2
    <2>4. \A i \in 1..(n + m) : w[i] \in Addrs
      <3> SUFFICES ASSUME NEW i \in 1..(n + m) PROVE w[i] \in Addrs
        OBVIOUS
      <3>1. CASE i <= n
        BY <3>1, <2>1, <2>3, <1>2
      <3>2. CASE i > n
        <4>1. i - n \in 1..m /\ w[i] = p[i - n]
          BY <3>2, <2>1, <2>3, <1>nat
        <4>2. \A j \in 1..m : p[j] \in Addrs
          BY <1>3
        <4> QED
          BY <4>1, <4>2
      <3> QED
        BY <3>1, <3>2, <1>nat
    <2>5. w \in [1..(n + m) -> Addrs] /\ n + m \in Nat
      BY <2>2, <2>4, <1>nat
    <2> QED
      BY <2>3, <2>5
  <1> HIDE DEF w
  <1>11. /\ r \in [Levels -> Seq(Addrs)] /\ r[top] = <<>> /\ r[lo] = w
         /\ \A l \in Levels \ {top, lo} : r[l] = s[l]
    BY <1>0, <1>1, <1>10 DEF w, p
  <1>12. ASSUME NEW l \in Levels, l # top, l # lo PROVE Linked(r, l)'
    <2>1. r[l] = s[l] /\ Linked(s, l) /\ s[l] \in Seq(Addrs)
      BY <1>0, <1>11, <1>12
    <2>2. \A i \in 1..Len(s[l]) : level[s[l][i]] = l /\ s[l][i] \in Addrs
      BY <2>1 DEF Linked
    <2>3. head[lo] # Null => head[lo] \in Addrs /\ level[head[lo]] = lo
      BY <1>3
    <2>4. \A i \in 1..Len(s[l]) : s[l][i] # head[lo] /\ \A j \in 1..n : q[j] # s[l][i]
      BY <2>2, <2>3, <1>2, <1>12, AddrsAssumption
    <2>5. \A i \in 1..Len(s[l]) :
             /\ next'[s[l][i]] = next[s[l][i]] /\ prev'[s[l][i]] = prev[s[l][i]]
             /\ level'[s[l][i]] = l
      BY <2>2, <2>4, <1>5, <1>6, <1>8
    <2>6. head'[l] = head[l] /\ (l > top' => l > top)
      BY <1>0, <1>1, <1>6, <1>12
    <2>7. l > top' => Len(s[l]) = 0
      BY <2>1, <2>6 DEF Linked
    <2>8. /\ head[l] = IF Len(s[l]) = 0 THEN Null ELSE s[l][1]
          /\ \A i \in 1..Len(s[l]) :
                /\ s[l][i] \in live
                /\ next[s[l][i]] = IF i = Len(s[l]) THEN Null ELSE s[l][i + 1]
                /\ prev[s[l][i]] = IF i = 1 THEN Null ELSE s[l][i - 1]
      BY <2>1 DEF Linked
    <2>9. Injective(s[l])
      BY <2>1 DEF Linked
    <2>10. /\ head'[l] = IF Len(s[l]) = 0 THEN Null ELSE s[l][1]
           /\ \A i \in 1..Len(s[l]) :
                 /\ s[l][i] \in live' /\ level'[s[l][i]] = l
                 /\ next'[s[l][i]] = IF i = Len(s[l]) THEN Null ELSE s[l][i + 1]
                 /\ prev'[s[l][i]] = IF i = 1 THEN Null ELSE s[l][i - 1]
      BY <2>5, <2>6, <2>8, <1>6
    <2> QED
      BY <2>1, <2>7, <2>9, <2>10 DEF Linked
  <1>13. ASSUME NEW l \in Levels, l = top PROVE Linked(r, l)'
    <2>1. r[l] = <<>> /\ head'[l] = Null
      BY <1>0, <1>1, <1>6, <1>11, <1>13
    <2> QED
      BY <2>1 DEF Linked, Injective
  <1>14. ASSUME NEW l \in Levels, l = lo PROVE Linked(r, l)'
    <2>1. \A i \in 1..(n + m) : /\ i <= n => n + 1 - i \in 1..n /\ w[i] = q[n + 1 - i]
                                /\ i > n => i - n \in 1..m /\ w[i] = p[i - n]
      BY <1>2, <1>3, <1>10
    <2>2. /\ \A i, j \in 1..n : q[i] = q[j] => i = j
          /\ \A i, j \in 1..m : p[i] = p[j] => i = j
          /\ \A i \in 1..n : \A j \in 1..m : q[i] # p[j]
      <3>1. \A i \in 1..n : \A j \in 1..m : q[i] # p[j]
        <4>1. (\A i \in 1..n : level[q[i]] = top) /\ (\A j \in 1..m : level[p[j]] = lo)
          BY <1>2, <1>3
        <4> QED
          BY <4>1, <1>1
      <3>2. /\ \A i, j \in 1..n : q[i] = q[j] => i = j
            /\ \A i, j \in 1..m : p[i] = p[j] => i = j
        BY <1>2, <1>3 DEF Injective, n, m
      <3> QED
        BY <3>1, <3>2
    <2>3. Injective(w)
      <3> SUFFICES ASSUME NEW i \in 1..(n + m), NEW j \in 1..(n + m), w[i] = w[j] PROVE i = j
        BY <1>10 DEF Injective
      <3>1. CASE i <= n /\ j <= n
        <4>1. n + 1 - i = n + 1 - j
          BY <3>1, <2>1, <2>2
        <4> QED
          BY <4>1, <1>2, <1>3
      <3>2. CASE i > n /\ j > n
        <4>1. i - n = j - n
          BY <3>2, <2>1, <2>2
        <4> QED
          BY <4>1, <1>2, <1>3
      <3>3. CASE (i <= n /\ j > n) \/ (j <= n /\ i > n)
        BY <3>3, <2>1, <2>2
      <3> QED
        BY <3>1, <3>2, <3>3, <1>2, <1>3
    <2>4. head'[l] = IF n + m = 0 THEN Null ELSE w[1]
      <3>1. CASE n > 0
        <4>1. 1 \in 1..(n + m) /\ n + 1 - 1 = n /\ n + m # 0 /\ 1 <= n
          BY <3>1, <1>2, <1>3
        <4>2. w[1] = q[n]
          BY <4>1, <1>10
        <4> QED
          BY <3>1, <4>1, <4>2, <1>0, <1>6, <1>14
      <3>2. CASE n = 0
        <4>1. m # 0 => w[1] = p[1]
          <5>1. m # 0 => 1 \in 1..(n + m) /\ 1 > n /\ 1 - n = 1
            BY <3>2, <1>3
          <5> QED
            BY <5>1, <2>1
        <4>2. head'[l] = head[lo]
          BY <3>2, <1>0, <1>1, <1>6, <1>14
        <4> QED
          BY <3>2, <4>1, <4>2, <1>3
      <3> QED
        BY <3>1, <3>2, <1>2
    <2>5. ASSUME NEW i \in 1..(n + m)
          PROVE  /\ w[i] \in live' /\ level'[w[i]] = l
                 /\ next'[w[i]] = IF i = n + m THEN Null ELSE w[i + 1]
                 /\ prev'[w[i]] = IF i = 1 THEN Null ELSE w[i - 1]
      <3>1. CASE i <= n
        <4>1. PICK j \in 1..n : j = n + 1 - i /\ w[i] = q[j]
          BY <3>1, <2>1
        <4>2. w[i] \in live' /\ level'[w[i]] = l
          BY <4>1, <1>2, <1>5, <1>6, <1>14
        <4>3. next'[w[i]] = IF i = n + m THEN Null ELSE w[i + 1]
          <5>1. CASE i = n
            <6>1. j = 1 /\ next'[w[i]] = head[lo]
              BY <5>1, <4>1, <1>2, <1>7
            <6>2. m # 0 => w[i + 1] = p[1]
              <7>1. m # 0 => i + 1 \in 1..(n + m) /\ i + 1 > n /\ (i + 1) - n = 1
                BY <5>1, <1>2, <1>3
              <7> QED
                BY <7>1, <2>1
            <6>3. i = n + m <=> m = 0
              BY <5>1, <1>2, <1>3
            <6> QED
              BY <6>1, <6>2, <6>3, <1>3
          <5>2. CASE i < n
            <6>1. j # 1 /\ next'[w[i]] = q[j - 1]
              BY <5>2, <4>1, <1>2, <1>7
            <6>2. i + 1 \in 1..(n + m) /\ i + 1 <= n /\ n + 1 - (i + 1) = j - 1 /\ i # n + m
              BY <5>2, <4>1, <1>2, <1>3
            <6> QED
              BY <6>1, <6>2, <2>1
          <5> QED
            BY <5>1, <5>2, <3>1, <1>2
        <4>4. prev'[w[i]] = IF i = 1 THEN Null ELSE w[i - 1]
          <5>1. CASE i = 1
            <6>1. j = n
              BY <5>1, <4>1, <1>2
            <6> QED
              BY <6>1, <5>1, <4>1, <1>7
          <5>2. CASE i # 1
            <6>1. j # n /\ prev'[w[i]] = q[j + 1]
              BY <5>2, <4>1, <1>2, <1>7, SMTT(30)
            <6>2. i - 1 \in 1..(n + m) /\ i - 1 <= n /\ n + 1 - (i - 1) = j + 1
              BY <5>2, <4>1, <3>1, <1>2, <1>3
            <6> QED
              BY <5>2, <6>1, <6>2, <2>1
          <5> QED
            BY <5>1, <5>2
        <4> QED
          BY <4>2, <4>3, <4>4
      <3>2. CASE i > n
        <4>1. PICK j \in 1..m : j = i - n /\ w[i] = p[j]
          BY <3>2, <2>1
        <4>2. p[j] \in Addrs /\ \A k \in 1..n : q[k] # p[j]
          BY <2>2, <1>3
        <4>3. w[i] \in live' /\ level'[w[i]] = l
          BY <4>1, <4>2, <1>3, <1>5, <1>6, <1>14
        <4>4. next'[w[i]] = IF i = n + m THEN Null ELSE w[i + 1]
          <5>1. next'[p[j]] = IF j = m THEN Null ELSE p[j + 1]
            BY <4>2, <1>3, <1>8, SMTT(30)
          <5>2. i = n + m <=> j = m
            BY <4>1, <3>2, <1>2, <1>3
          <5>3. i # n + m => i + 1 \in 1..(n + m) /\ i + 1 > n /\ (i + 1) - n = j + 1
            BY <4>1, <3>2, <1>2, <1>3
          <5> QED
            BY <4>1, <5>1, <5>2, <5>3, <2>1
        <4>5. prev'[w[i]] = IF i = 1 THEN Null ELSE w[i - 1]
          <5>1. p[j] = head[lo] <=> j = 1
            <6>1. head[lo] = p[1] /\ 1 \in 1..m
              BY <1>3
            <6> QED
              BY <6>1, <2>2
          <5>2. CASE j = 1 /\ n > 0
            <6>1. prev'[w[i]] = q[1]
              BY <4>1, <4>2, <5>1, <5>2, <1>8
            <6>2. i - 1 = n /\ i # 1 /\ i - 1 \in 1..(n + m) /\ n + 1 - (i - 1) = 1
              BY <4>1, <5>2, <1>2, <1>3
            <6> QED
              BY <6>1, <6>2, <2>1
          <5>3. CASE j = 1 /\ n = 0
            <6>1. i = 1 /\ prev'[p[j]] = Null
              BY <4>1, <4>2, <5>3, <1>3, <1>8
            <6> QED
              BY <4>1, <6>1
          <5>4. CASE j # 1
            <6>1. prev'[p[j]] = p[j - 1]
              BY <4>2, <5>1, <5>4, <1>3, <1>8
            <6>2. i # 1 /\ i - 1 \in 1..(n + m) /\ i - 1 > n /\ (i - 1) - n = j - 1
              BY <4>1, <5>4, <1>2, <1>3
            <6> QED
              BY <4>1, <6>1, <6>2, <2>1
          <5> QED
            BY <5>2, <5>3, <5>4, <1>2
        <4> QED
          BY <4>3, <4>4, <4>5
      <3> QED
        BY <3>1, <3>2, <1>2
    <2>6. ~(l > top')
      BY <1>1, <1>6, <1>14
    <2>7. r[l] = w /\ Len(w) = n + m
      BY <1>10, <1>11, <1>14
    <2>8. /\ head'[l] = IF Len(w) = 0 THEN Null ELSE w[1]
          /\ \A i \in 1..Len(w) :
                /\ w[i] \in live' /\ level'[w[i]] = l
                /\ next'[w[i]] = IF i = Len(w) THEN Null ELSE w[i + 1]
                /\ prev'[w[i]] = IF i = 1 THEN Null ELSE w[i - 1]
      BY <2>4, <2>5, <2>7
    <2> QED
      BY <2>3, <2>6, <2>7, <2>8, ZenonT(40), SMTT(40) DEF Linked
  <1>15. Complete(r)'
    <2> SUFFICES ASSUME NEW b \in live'
                 PROVE  level'[b] \in Levels /\ \E i \in 1..Len(r[level'[b]]) : r[level'[b]][i] = b
      BY DEF Complete
    <2>1. b \in live /\ b \in Addrs /\ level[b] \in Levels
      BY <1>0, <1>6
    <2>2. PICK i \in 1..Len(s[level[b]]) : s[level[b]][i] = b
      BY <2>1, <1>0 DEF Complete
    <2>3. CASE level[b] = top
      <3>1. i \in 1..n /\ q[i] = b
        BY <2>2, <2>3 DEF n
      <3>2. level'[b] = lo
        BY <3>1, <2>1, <1>5, <1>6
      <3>3. n + 1 - i \in 1..(n + m) /\ n + 1 - i <= n /\ n + 1 - (n + 1 - i) = i
        BY <3>1, <1>2, <1>3
      <3>4. w[n + 1 - i] = b
        BY <3>1, <3>3, <1>10
      <3> QED
        BY <3>2, <3>3, <3>4, <1>1, <1>10, <1>11
    <2>4. CASE level[b] # top
      <3>1. level'[b] = level[b]
        BY <2>1, <2>4, <1>2, <1>5, <1>6
      <3>2. CASE level[b] = lo
        <4>1. i \in 1..m /\ p[i] = b
          BY <2>2, <3>2 DEF m, p
        <4>2. n + i \in 1..(n + m) /\ n + i > n /\ (n + i) - n = i
          BY <4>1, <1>2, <1>3
        <4>3. w[n + i] = b
          BY <4>1, <4>2, <1>2, <1>10
        <4> QED
          BY <3>1, <3>2, <4>2, <4>3, <1>1, <1>10, <1>11
      <3>3. CASE level[b] # lo
        BY <2>1, <2>2, <2>4, <3>1, <3>3, <1>11
      <3> QED
        BY <3>2, <3>3
    <2> QED
      BY <2>3, <2>4
  <1> QED
    BY <1>9, <1>11, <1>12, <1>13, <1>14, <1>15 DEF Represents

-----------------------------------------------------------------------------
(* The counts.                                                             *)

\* f adds up the counts c from level 0.
IsSum(f, c) == \A l \in Levels : f[l] = c[l] + IF l = 0 THEN 0 ELSE f[l - 1]

Counted ==
    /\ current \in [Levels -> 0..(SizeMod - 1)]
    /\ \E f \in [Levels -> Int] :
          IsSum(f, current) /\ \E j \in Int : f[top] = Cardinality(live) + j * SizeMod

LEMMA LevelsAre == /\ Levels \subseteq Nat /\ SizeMod \in Nat \ {0}
                   /\ \A l \in Levels : l # 0 => l - 1 \in Levels
  BY BoundsAssumption DEF Levels

\* One level changes its count, for which the sum makes up.
LEMMA Recounted ==
    ASSUME current \in [Levels -> 0..(SizeMod - 1)], NEW f \in [Levels -> Int], IsSum(f, current),
           NEW k \in Levels, top' \in Levels, k <= top', NEW v \in 0..(SizeMod - 1),
           current' = [current EXCEPT ![k] = v],
           \E j \in Int : f[top'] + (v - current[k]) = Cardinality(live') + j * SizeMod
    PROVE  Counted'
  <1>0. PICK j \in Int : f[top'] + (v - current[k]) = Cardinality(live') + j * SizeMod
    OBVIOUS
  <1> DEFINE g == [l \in Levels |-> IF l < k THEN f[l] ELSE f[l] + (v - current[k])]
  <1>1. k \in Nat /\ top' \in Nat /\ v \in Int /\ current[k] \in Int
    BY LevelsAre
  <1>2. g \in [Levels -> Int] /\ g[top'] = Cardinality(live') + j * SizeMod
    BY <1>0, <1>1
  <1>3. current' \in [Levels -> 0..(SizeMod - 1)]
    OBVIOUS
  <1>4. IsSum(g, current')
    <2> SUFFICES ASSUME NEW l \in Levels
                 PROVE  g[l] = current'[l] + IF l = 0 THEN 0 ELSE g[l - 1]
      BY DEF IsSum
    <2>1. /\ l \in Nat /\ (l # 0 => l - 1 \in Levels /\ f[l - 1] \in Int)
          /\ f[l] = current[l] + IF l = 0 THEN 0 ELSE f[l - 1]
          /\ current[l] \in Int /\ f[l] \in Int
      BY LevelsAre DEF IsSum
    <2>2. CASE l < k
      <3>1. l # 0 => g[l - 1] = f[l - 1]
        BY <2>1, <2>2, <1>1
      <3> QED
        BY <2>1, <2>2, <3>1, <1>1
    <2>3. CASE l = k
      <3>1. l # 0 => g[l - 1] = f[l - 1]
        BY <2>1, <2>3, <1>1
      <3>2. current'[l] = v /\ g[l] = f[l] + (v - current[l])
        BY <2>3, <1>1
      <3> QED
        BY <2>1, <3>1, <3>2, <1>1
    <2>4. CASE l > k
      <3>1. l # 0 /\ g[l - 1] = f[l - 1] + (v - current[k])
        BY <2>1, <2>4, <1>1
      <3>2. current'[l] = current[l] /\ g[l] = f[l] + (v - current[k])
        BY <2>1, <2>4, <1>1
      <3> QED
        BY <2>1, <3>1, <3>2, <1>1
    <2> QED
      BY <2>1, <2>2, <2>3, <2>4, <1>1
  <1> HIDE DEF g
  <1> QED
    BY <1>2, <1>3, <1>4 DEF Counted

\* What is kept from a number differs from it by a multiple of the modulus.
LEMMA Remainder ==
    ASSUME NEW x \in Int, NEW m \in Nat \ {0}
    PROVE  x % m \in 0..(m - 1) /\ \E k \in Int : x % m = x - k * m
  <1>1. x % m \in 0..(m - 1)
    OBVIOUS
  <1>2. x = (x \div m) * m + (x % m) /\ x \div m \in Int
    OBVIOUS
  <1>3. \A k \in Int : x = k * m + (x % m) => x % m = x - k * m
    BY <1>1
  <1> QED
    BY <1>1, <1>2, <1>3

LEMMA SameRemainder ==
    ASSUME NEW x \in Int, NEW k \in Int, NEW m \in Nat \ {0}
    PROVE  (x + k * m) % m = x % m
  <1> DEFINE a == (x + k * m) % m  b == x % m  p == (x + k * m) \div m  q == x \div m
  <1>1. a \in 0..(m - 1) /\ b \in 0..(m - 1) /\ p \in Int /\ q \in Int
    BY x + k * m \in Int
  <1>2. x + k * m = p * m + a /\ x = q * m + b
    BY x + k * m \in Int
  <1> SUFFICES a = b
    OBVIOUS
  <1> HIDE DEF a, b, p, q
  <1>3. (q + k - p) * m = a - b
    BY <1>1, <1>2
  <1>4. CASE q + k - p >= 1
    <2>1. (q + k - p) * m >= m
      BY <1>1, <1>4
    <2> QED
      BY <2>1, <1>1, <1>3
  <1>5. CASE q + k - p <= -1
    <2>1. (q + k - p) * m <= -m
      BY <1>1, <1>5
    <2> QED
      BY <2>1, <1>1, <1>3
  <1>6. CASE q + k - p = 0
    <2>1. (q + k - p) * m = 0
      BY <1>1, <1>6
    <2> QED
      BY <2>1, <1>1, <1>3
  <1> QED
    BY <1>1, <1>4, <1>5, <1>6

LEMMA CountIs ==
    ASSUME current \in [Levels -> 0..(SizeMod - 1)], NEW l \in Levels
    PROVE  current[l] \in Int
  <1>1. current[l] \in 0..(SizeMod - 1)
    OBVIOUS
  <1> QED
    BY <1>1, LevelsAre

LEMMA CountsAre == Counted /\ top \in Levels /\ IsFiniteSet(live) => CountsAddUp
  <1> SUFFICES ASSUME Counted, top \in Levels, IsFiniteSet(live) PROVE CountsAddUp
    OBVIOUS
  <1>1. PICK f \in [Levels -> Int] :
           IsSum(f, current) /\ \E j \in Int : f[top] = Cardinality(live) + j * SizeMod
    BY DEF Counted
  <1>2. PICK j \in Int : f[top] = Cardinality(live) + j * SizeMod
    BY <1>1
  <1> DEFINE D(g) == [l \in Levels |-> current[l] + IF l = 0 THEN 0 ELSE g[l - 1]]
             C == CHOOSE g : g = D(g)
  <1>3. f = D(f)
    BY <1>1 DEF IsSum
  <1>4. C = D(C)
    BY <1>3
  <1>5. CountsAddUp <=> (~rare => C[top] % SizeMod = Cardinality(live) % SizeMod)
    BY DEF CountsAddUp
  <1> HIDE DEF C
  <1>6. ASSUME NEW n \in Levels, C[n] # f[n] PROVE FALSE
    <2> DEFINE T == {l \in Levels : C[l] # f[l]}
    <2>1. PICK l \in T : \A i \in T : ~(i < l)
      <3>1. T \in SUBSET Nat /\ T # {}
        BY <1>6, LevelsAre
      <3> HIDE DEF T
      <3> QED
        BY <3>1, LeastNumber
    <2>2. l \in Levels /\ C[l] # f[l]
      BY <2>1
    <2>3. CASE l = 0
      <3>1. D(C)[l] = D(f)[l]
        BY <2>2, <2>3
      <3> QED
        BY <2>2, <3>1, <1>3, <1>4
    <2>4. CASE l # 0
      <3>1. l - 1 \in Levels /\ C[l - 1] = f[l - 1]
        BY <2>1, <2>4, LevelsAre
      <3>2. D(C)[l] = D(f)[l]
        BY <3>1, <2>2, <2>4
      <3> QED
        BY <2>2, <3>2, <1>3, <1>4
    <2> QED
      BY <2>3, <2>4
  <1>7. C[top] = Cardinality(live) + j * SizeMod
    BY <1>2, <1>6
  <1>8. Cardinality(live) \in Int
    BY FS_CardinalityType
  <1> DEFINE x == Cardinality(live)
  <1>9. (x + j * SizeMod) % SizeMod = x % SizeMod
    BY <1>8, LevelsAre, SameRemainder
  <1> QED
    BY <1>5, <1>7, <1>9

LEMMA OneMore ==
    ASSUME Counted, top \in Levels, live \subseteq Addrs, NEW a \in Addrs \ live,
           current' = [current EXCEPT ![top] = (@ + 1) % SizeMod],
           live' = live \cup {a}, top' = top
    PROVE  Counted'
  <1>1. PICK f \in [Levels -> Int] :
           IsSum(f, current) /\ \E j \in Int : f[top] = Cardinality(live) + j * SizeMod
    BY DEF Counted
  <1>2. PICK j \in Int : f[top] = Cardinality(live) + j * SizeMod
    BY <1>1
  <1>3. Cardinality(live') = Cardinality(live) + 1 /\ Cardinality(live) \in Int
    <2>1. IsFiniteSet(live)
      BY AddrsAssumption, FS_Subset
    <2> QED
      BY <2>1, FS_AddElement, FS_CardinalityType
  <1> DEFINE c == current[top]  v == (c + 1) % SizeMod
  <1>4. c \in Int /\ f[top] \in Int /\ SizeMod \in Nat \ {0} /\ top \in Nat
    BY LevelsAre, CountIs DEF Counted
  <1>5. PICK k \in Int : v = (c + 1) - k * SizeMod
    <2> DEFINE y == c + 1
    <2>1. y \in Int
      BY <1>4
    <2> HIDE DEF y
    <2>2. \E k \in Int : y % SizeMod = y - k * SizeMod
      BY <2>1, <1>4, Remainder
    <2>3. v = y % SizeMod
      BY DEF y
    <2> HIDE DEF v
    <2>4. PICK k \in Int : v = y - k * SizeMod
      BY <2>2, <2>3
    <2> QED
      BY <2>4 DEF y
  <1>6. v \in 0..(SizeMod - 1)
    <2>1. c + 1 \in Int
      BY <1>4
    <2> QED
      BY <2>1, <1>4, Remainder
  <1>7. current' = [current EXCEPT ![top] = v]
    OBVIOUS
  <1> HIDE DEF v
  <1>8. f[top'] + (v - c) = Cardinality(live') + (j - k) * SizeMod
    <2> HIDE DEF c
    <2> QED
      BY <1>2, <1>3, <1>4, <1>5
  <1>9. j - k \in Int /\ top <= top' /\ top' \in Levels /\ current \in [Levels -> 0..(SizeMod - 1)]
    BY <1>4 DEF Counted
  <1>10. \E d \in Int : f[top'] + (v - current[top]) = Cardinality(live') + d * SizeMod
    BY <1>8, <1>9
  <1> HIDE DEF c
  <1> QED
    BY <1>1, <1>6, <1>7, <1>9, <1>10, Recounted

LEMMA OneLess ==
    ASSUME Counted, top \in Levels, live \subseteq Addrs, NEW a \in live,
           current' = [current EXCEPT ![top] = (@ - 1) % SizeMod],
           live' = live \ {a}, top' = top
    PROVE  Counted'
  <1>1. PICK f \in [Levels -> Int] :
           IsSum(f, current) /\ \E j \in Int : f[top] = Cardinality(live) + j * SizeMod
    BY DEF Counted
  <1>2. PICK j \in Int : f[top] = Cardinality(live) + j * SizeMod
    BY <1>1
  <1>3. Cardinality(live') = Cardinality(live) - 1 /\ Cardinality(live) \in Int
    <2>1. IsFiniteSet(live)
      BY AddrsAssumption, FS_Subset
    <2>2. Cardinality(live \ {a}) = Cardinality(live) - 1
      BY <2>1, FS_RemoveElement
    <2> QED
      BY <2>1, <2>2, FS_CardinalityType
  <1> DEFINE c == current[top]  v == (c - 1) % SizeMod
  <1>4. c \in Int /\ f[top] \in Int /\ SizeMod \in Nat \ {0} /\ top \in Nat
    BY LevelsAre, CountIs DEF Counted
  <1>5. PICK k \in Int : v = c - 1 - k * SizeMod
    <2> DEFINE y == c - 1
    <2>1. y \in Int
      BY <1>4
    <2> HIDE DEF y
    <2>2. \E k \in Int : y % SizeMod = y - k * SizeMod
      BY <2>1, <1>4, Remainder
    <2>3. v = y % SizeMod
      BY DEF y
    <2> HIDE DEF v
    <2>4. PICK k \in Int : v = y - k * SizeMod
      BY <2>2, <2>3
    <2> QED
      BY <2>4 DEF y
  <1>6. v \in 0..(SizeMod - 1)
    <2>1. c - 1 \in Int
      BY <1>4
    <2> QED
      BY <2>1, <1>4, Remainder
  <1>7. current' = [current EXCEPT ![top] = v]
    OBVIOUS
  <1> HIDE DEF v
  <1>8. f[top'] + (v - c) = Cardinality(live') + (j - k) * SizeMod
    <2> HIDE DEF c
    <2> QED
      BY <1>2, <1>3, <1>4, <1>5
  <1>9. j - k \in Int /\ top <= top' /\ top' \in Levels /\ current \in [Levels -> 0..(SizeMod - 1)]
    BY <1>4 DEF Counted
  <1>10. \E d \in Int : f[top'] + (v - current[top]) = Cardinality(live') + d * SizeMod
    BY <1>8, <1>9
  <1> HIDE DEF c
  <1> QED
    BY <1>1, <1>6, <1>7, <1>9, <1>10, Recounted

LEMMA OneLevelMore ==
    ASSUME Counted, top \in Levels, IsFiniteSet(live), top' = top + 1, top' \in Levels,
           current' = [current EXCEPT ![top + 1] = 0], live' = live
    PROVE  Counted'
  <1>1. PICK f \in [Levels -> Int] :
           IsSum(f, current) /\ \E j \in Int : f[top] = Cardinality(live) + j * SizeMod
    BY DEF Counted
  <1>2. PICK j \in Int : f[top] = Cardinality(live) + j * SizeMod
    BY <1>1
  <1>3. /\ current[top + 1] \in Int /\ f[top] \in Int /\ f[top + 1] \in Int
        /\ SizeMod \in Nat \ {0} /\ top \in Nat /\ Cardinality(live) \in Nat
    BY LevelsAre, CountIs, FS_CardinalityType DEF Counted
  <1>4. f[top + 1] = current[top + 1] + f[top]
    <2>1. f[top + 1] = current[top + 1] + IF top + 1 = 0 THEN 0 ELSE f[(top + 1) - 1]
      BY <1>1 DEF IsSum
    <2>2. top + 1 # 0 /\ (top + 1) - 1 = top
      BY <1>3
    <2> QED
      BY <2>1, <2>2
  <1>5. f[top'] + (0 - current[top + 1]) = Cardinality(live') + j * SizeMod
    BY <1>2, <1>3, <1>4
  <1>6. /\ 0 \in 0..(SizeMod - 1) /\ top + 1 <= top' /\ top + 1 \in Levels
        /\ current \in [Levels -> 0..(SizeMod - 1)]
    BY <1>3 DEF Counted
  <1> QED
    BY <1>1, <1>5, <1>6, Recounted

LEMMA OneLevelLess ==
    ASSUME Counted, top \in Levels, top > 0, IsFiniteSet(live), top' = top - 1,
           current' = [current EXCEPT ![top - 1] = (@ + current[top]) % SizeMod], live' = live
    PROVE  Counted'
  <1>1. PICK f \in [Levels -> Int] :
           IsSum(f, current) /\ \E j \in Int : f[top] = Cardinality(live) + j * SizeMod
    BY DEF Counted
  <1>2. PICK j \in Int : f[top] = Cardinality(live) + j * SizeMod
    BY <1>1
  <1> DEFINE lo == top - 1  c == current[lo]  v == (c + current[top]) % SizeMod
  <1>3. /\ lo \in Levels /\ top \in Nat /\ SizeMod \in Nat \ {0} /\ Cardinality(live) \in Nat
    BY LevelsAre, FS_CardinalityType
  <1>4. c \in Int /\ current[top] \in Int /\ f[top] \in Int /\ f[lo] \in Int
    BY <1>3, CountIs DEF Counted
  <1>5. f[top] = current[top] + f[lo]
    BY <1>1, <1>3 DEF IsSum
  <1>6. PICK k \in Int : v = (c + current[top]) - k * SizeMod
    <2> DEFINE y == c + current[top]
    <2>1. y \in Int
      BY <1>4
    <2> HIDE DEF y
    <2>2. \E k \in Int : y % SizeMod = y - k * SizeMod
      BY <2>1, <1>3, Remainder
    <2>3. v = y % SizeMod
      BY DEF y
    <2> HIDE DEF v
    <2>4. PICK k \in Int : v = y - k * SizeMod
      BY <2>2, <2>3
    <2> QED
      BY <2>4 DEF y
  <1>7. v \in 0..(SizeMod - 1)
    <2>1. c + current[top] \in Int
      BY <1>4
    <2> QED
      BY <2>1, <1>3, Remainder
  <1>8. current' = [current EXCEPT ![lo] = v]
    OBVIOUS
  <1> HIDE DEF v
  <1>9. f[top'] + (v - c) = Cardinality(live') + (j - k) * SizeMod
    <2>1. f[lo] + (v - c) = Cardinality(live) + (j - k) * SizeMod
      <3> DEFINE y == f[lo]  z == f[top]  d == current[top]  x == Cardinality(live)
      <3>1. /\ y \in Int /\ z \in Int /\ d \in Int /\ c \in Int /\ x \in Int /\ SizeMod \in Int
            /\ z = x + j * SizeMod /\ z = d + y /\ v = (c + d) - k * SizeMod
        BY <1>2, <1>3, <1>4, <1>5, <1>6
      <3>2. y + (v - c) = x + (j - k) * SizeMod
        <4> HIDE DEF y, z, d, x, c
        <4> QED
          BY <3>1
      <3> QED
        BY <3>2
    <2> QED
      BY <2>1
  <1>10. j - k \in Int /\ lo <= top' /\ top' \in Levels /\ current \in [Levels -> 0..(SizeMod - 1)]
    BY <1>3 DEF Counted
  <1>11. \E d \in Int : f[top'] + (v - current[lo]) = Cardinality(live') + d * SizeMod
    BY <1>9, <1>10
  <1> HIDE DEF c, lo
  <1> QED
    BY <1>1, <1>3, <1>7, <1>8, <1>10, <1>11, Recounted, ZenonT(40), SMTT(40)

-----------------------------------------------------------------------------
(* Live blocks and their lists, when no other thread calls the tracker     *)
(* during a pop: then the entry that a pop has read before it reports the  *)
(* leaks is still the first one of the last level when it goes on.         *)

LinksSound == ListTypes /\ Counted /\ \E s : Represents(s)

\* A block that is live or about to be registered has its header.
MagicKept ==
    /\ magic \in [Addrs -> {"none", "alloc", "dealloc"}]
    /\ \A a \in live : magic[a] = "alloc"
    /\ \A t \in Threads : pc[t] = "register" => magic[blk[t]] = "alloc"

PopAlone ==
    /\ arg = [t \in Threads |-> arg[t]]
    /\ \A t \in Threads : pc[t] = "pop" =>
          /\ top > 0 /\ arg[t] = top /\ blk[t] = head[top] /\ head[top] # Null
          /\ \A u \in Threads \ {t} : pc[u] = "out"

ListInv == ~rare => ~corrupted /\ LinksSound /\ MagicKept /\ PopAlone

Links == <<level, next, prev, head, top, current, live>>

LEMMA LinksStay == LinksSound /\ UNCHANGED Links => LinksSound'
  <1> SUFFICES ASSUME LinksSound, UNCHANGED Links PROVE LinksSound'
    OBVIOUS
  <1>1. ListTypes'
    BY DEF Links, LinksSound, ListTypes
  <1>2. Counted'
    BY DEF Links, LinksSound, Counted, IsSum
  <1>3. PICK s : Represents(s)
    BY DEF LinksSound
  <1>4. Represents(s)'
    BY <1>3 DEF Links, Represents, Linked, Complete
  <1> QED
    BY <1>1, <1>2, <1>4 DEF LinksSound

\* What the steps need to know of a state in which no rare case has occurred.
Ordinary ==
    /\ ~rare /\ ~corrupted /\ BlocksTyped /\ BlocksHeld /\ ReuseForgotten
    /\ LinksSound /\ MagicKept /\ PopAlone /\ Quiet

LEMMA ListInvInit == Init => ListInv
  <1> SUFFICES ASSUME Init PROVE ListInv
    OBVIOUS
  <1>1. SizeMod \in Nat \ {0} /\ Levels \subseteq Nat /\ 0 \in Levels
    BY BoundsAssumption DEF Levels
  <1>2. ListTypes
    BY <1>1 DEF Init, ListTypes
  <1>3. Counted
    <2> DEFINE f == [l \in Levels |-> 0]
    <2>1. f \in [Levels -> Int] /\ IsSum(f, current)
      BY <1>1, LevelsAre DEF Init, IsSum
    <2>2. f[top] = Cardinality(live) + 0 * SizeMod
      BY <1>1, FS_EmptySet DEF Init
    <2>3. current \in [Levels -> 0..(SizeMod - 1)]
      BY <1>1 DEF Init
    <2> HIDE DEF f
    <2> QED
      BY <2>1, <2>2, <2>3 DEF Counted
  <1>4. Represents([l \in Levels |-> <<>>])
    BY DEF Init, Represents, Linked, Complete, Injective
  <1>5. MagicKept /\ PopAlone /\ ~corrupted
    BY DEF Init, MagicKept, PopAlone
  <1> QED
    BY <1>2, <1>3, <1>4, <1>5 DEF ListInv, LinksSound

\* A step that leaves the lists, the counts and the live blocks alone.

\* A new block gets its header.
LEMMA MallocKeepsLists ==
    ASSUME Ordinary, NEW t \in Threads, Malloc(t), ~rare'
    PROVE  ListInv'
  <1> USE AddrsAssumption DEF Malloc, Begin, BeginRare, Goes, MayRun, lists, stats, Stamp
  <1>0. /\ ~corrupted /\ BlocksTyped /\ BlocksHeld /\ LinksSound /\ MagicKept /\ PopAlone /\ Quiet
    BY DEF Ordinary
  <1>1. LinksSound'
    BY <1>0, LinksStay DEF Links
  <1>2. MagicKept'
    BY <1>0 DEF MagicKept, BlocksTyped, BlocksHeld, Holding
  <1>3. PopAlone'
    BY <1>0 DEF PopAlone
  <1> QED
    BY <1>0, <1>1, <1>2, <1>3 DEF ListInv

\* A block that is given back is not live.
LEMMA HeapFreeKeepsLists ==
    ASSUME Ordinary, NEW t \in Threads, HeapFree(t), ~rare'
    PROVE  ListInv'
  <1> USE AddrsAssumption DEF HeapFree, Begin, BeginRare, Goes, MayRun, lists, stats
  <1>0. /\ ~corrupted /\ BlocksTyped /\ BlocksHeld /\ LinksSound /\ MagicKept /\ PopAlone /\ Quiet
    BY DEF Ordinary
  <1>1. LinksSound'
    BY <1>0, LinksStay DEF Links
  <1>2. MagicKept'
    BY <1>0 DEF MagicKept, BlocksTyped, BlocksHeld, Holding
  <1>3. PopAlone'
    BY <1>0 DEF PopAlone
  <1> QED
    BY <1>0, <1>1, <1>2, <1>3 DEF ListInv

\* A block that moves gets its header where it is then.
LEMMA ReallocMovesKeepsLists ==
    ASSUME Ordinary, NEW t \in Threads, ReallocMoves(t), ~rare'
    PROVE  ListInv'
  <1> USE AddrsAssumption DEF ReallocMoves, Begin, BeginRare, Goes, MayRun, lists, stats, Stamp
  <1>0. /\ ~corrupted /\ BlocksTyped /\ BlocksHeld /\ LinksSound /\ MagicKept /\ PopAlone /\ Quiet
    BY DEF Ordinary
  <1>1. LinksSound'
    BY <1>0, LinksStay DEF Links
  <1>2. MagicKept'
    BY <1>0 DEF MagicKept, BlocksTyped, BlocksHeld, Holding
  <1>3. PopAlone'
    BY <1>0 DEF PopAlone
  <1> QED
    BY <1>0, <1>1, <1>2, <1>3 DEF ListInv

\* The log is not about live blocks.
LEMMA RecordFreeKeepsLists ==
    ASSUME Ordinary, NEW t \in Threads, RecordFree(t), ~rare'
    PROVE  ListInv'
  <1> USE AddrsAssumption DEF RecordFree, Begin, BeginRare, Goes, MayRun, lists, stats
  <1>0. /\ ~corrupted /\ BlocksTyped /\ BlocksHeld /\ LinksSound /\ MagicKept /\ PopAlone /\ Quiet
    BY DEF Ordinary
  <1>1. LinksSound'
    BY <1>0, LinksStay DEF Links
  <1>2. MagicKept'
    BY <1>0 DEF MagicKept, BlocksTyped, BlocksHeld, Holding
  <1>3. PopAlone'
    <2>1. \A u \in Threads : pc'[u] # "pop"
      BY <1>0 DEF BlocksTyped
    <2>2. arg' = [u \in Threads |-> arg'[u]]
      BY <1>0 DEF PopAlone
    <2> QED
      BY <2>1, <2>2 DEF PopAlone
  <1> QED
    BY <1>0, <1>1, <1>2, <1>3 DEF ListInv

\* A block that is freed by realloc is not live.
LEMMA ReallocZeroKeepsLists ==
    ASSUME Ordinary, NEW t \in Threads, ReallocZero(t), ~rare'
    PROVE  ListInv'
  <1> USE AddrsAssumption DEF ReallocZero, Begin, BeginRare, Goes, MayRun, lists, stats
  <1>0. /\ ~corrupted /\ BlocksTyped /\ BlocksHeld /\ LinksSound /\ MagicKept /\ PopAlone /\ Quiet
    BY DEF Ordinary
  <1>1. LinksSound'
    BY <1>0, LinksStay DEF Links
  <1>2. MagicKept'
    BY <1>0 DEF MagicKept, BlocksTyped, BlocksHeld, Holding
  <1>3. PopAlone'
    <2>1. \A u \in Threads : pc'[u] # "pop"
      BY <1>0 DEF BlocksTyped
    <2>2. arg' = [u \in Threads |-> arg'[u]]
      BY <1>0 DEF PopAlone
    <2> QED
      BY <2>1, <2>2 DEF PopAlone
  <1> QED
    BY <1>0, <1>1, <1>2, <1>3 DEF ListInv

\* A pop reads the last level and its first entry.
LEMMA PopLeaksKeepsLists ==
    ASSUME Ordinary, NEW t \in Threads, PopLeaks(t), ~rare'
    PROVE  ListInv'
  <1> USE AddrsAssumption DEF PopLeaks, Begin, BeginRare, Goes, MayRun, lists, stats
  <1>0. /\ ~corrupted /\ BlocksTyped /\ BlocksHeld /\ LinksSound /\ MagicKept /\ PopAlone /\ Quiet
    BY DEF Ordinary
  <1>1. LinksSound'
    BY <1>0, LinksStay DEF Links
  <1>2. MagicKept'
    BY <1>0 DEF MagicKept, BlocksTyped, BlocksHeld, Holding
  <1>3. PopAlone'
    <2>1. /\ pc' = [pc EXCEPT ![t] = "pop"] /\ top > 0 /\ head[top] # Null
          /\ blk' = [blk EXCEPT ![t] = head[top]] /\ arg' = [arg EXCEPT ![t] = top]
          /\ UNCHANGED <<top, head>>
      OBVIOUS
    <2>2. \A u \in Threads : pc[u] = "out"
      BY <1>0
    <2>3. \A u \in Threads : pc'[u] = IF u = t THEN "pop" ELSE "out"
      BY <1>0, <2>1, <2>2 DEF BlocksTyped
    <2>4. arg'[t] = top /\ blk'[t] = head[top] /\ arg' = [u \in Threads |-> arg'[u]]
      BY <1>0, <2>1 DEF BlocksTyped, PopAlone
    <2> QED
      BY <2>1, <2>3, <2>4 DEF PopAlone
  <1> QED
    BY <1>0, <1>1, <1>2, <1>3 DEF ListInv

\* The statistics that are reset are not the counts.
LEMMA ResetKeepsLists ==
    ASSUME Ordinary, NEW t \in Threads, Reset(t), ~rare'
    PROVE  ListInv'
  <1> USE AddrsAssumption DEF Reset, Begin, BeginRare, Goes, MayRun, lists, stats
  <1>0. /\ ~corrupted /\ BlocksTyped /\ BlocksHeld /\ LinksSound /\ MagicKept /\ PopAlone /\ Quiet
    BY DEF Ordinary
  <1>1. LinksSound'
    BY <1>0, LinksStay DEF Links
  <1>2. MagicKept'
    BY <1>0 DEF MagicKept, BlocksTyped, BlocksHeld, Holding
  <1>3. PopAlone'
    BY <1>0 DEF PopAlone
  <1> QED
    BY <1>0, <1>1, <1>2, <1>3 DEF ListInv

\* The new level has no entry.
LEMMA PushKeepsLists ==
    ASSUME Ordinary, NEW t \in Threads, Push(t), ~rare'
    PROVE  ListInv'
  <1> USE DEF Push, Begin, Goes, MayRun, lists
  <1>0. /\ ~corrupted /\ LinksSound /\ MagicKept /\ PopAlone /\ Quiet /\ ListTypes /\ Counted
        /\ top \in Levels /\ live \subseteq Addrs
    BY DEF Ordinary, LinksSound, ListTypes
  <1>1. top + 1 \in Levels /\ Levels \subseteq Int
    BY <1>0, BoundsAssumption DEF Levels
  <1>2. Counted'
    <2>1. IsFiniteSet(live)
      BY <1>0, AddrsAssumption, FS_Subset
    <2> QED
      BY <2>1, <1>0, <1>1, OneLevelMore
  <1>3. ListTypes'
    BY <1>0, <1>1 DEF ListTypes
  <1>4. PICK s : Represents(s)
    BY <1>0 DEF LinksSound
  <1>5. Represents(s)'
    <2>1. \A l \in Levels : l > top' => l > top
      BY <1>0, <1>1
    <2> QED
      BY <2>1, <1>4 DEF Represents, Linked, Complete
  <1>6. MagicKept' /\ PopAlone'
    BY <1>0 DEF MagicKept, PopAlone
  <1> QED
    BY <1>0, <1>2, <1>3, <1>5, <1>6 DEF ListInv, LinksSound

\* The first entry of the level is live, so that the assert on its magic holds.
LEMMA RegisterIsSound ==
    ASSUME Ordinary, NEW t \in Threads, Register(t), ~rare'
    PROVE  ListInv'
  <1> DEFINE a == blk[t]
  <1>0. /\ ~corrupted /\ BlocksTyped /\ BlocksHeld /\ LinksSound /\ MagicKept /\ PopAlone /\ Quiet
        /\ ListTypes /\ Counted /\ top \in Levels /\ live \subseteq Addrs /\ live \subseteq heap
    BY DEF Ordinary, LinksSound, ListTypes, BlocksHeld
  <1>1. pc[t] = "register" /\ pc' = [pc EXCEPT ![t] = "out"]
    BY DEF Register, Begin, Goes
  <1>2. a \in Addrs \ live /\ magic[a] = "alloc"
    BY <1>0, <1>1 DEF Ordinary, BlocksTyped, BlocksHeld, Holding, MagicKept
  <1>3. PICK s : Represents(s)
    BY <1>0 DEF LinksSound
  <1>4. head[top] = Null \/ head[top] \in live
    <2>1. Linked(s, top) /\ s[top] \in Seq(Addrs)
      BY <1>0, <1>3 DEF Represents
    <2>2. Len(s[top]) # 0 => 1 \in 1..Len(s[top])
      BY <2>1
    <2> QED
      BY <2>1, <2>2 DEF Linked
  <1>5. Safe(head[top]) /\ Asserted(head[top])
    BY <1>0, <1>4 DEF Safe, Asserted, MagicKept
  <1>6. /\ level' = [level EXCEPT ![a] = top]
        /\ next' = [next EXCEPT ![a] = head[top]]
        /\ prev' = [b \in Addrs |-> IF b = a THEN Null ELSE IF b = head[top] THEN a ELSE prev[b]]
        /\ head' = [head EXCEPT ![top] = a]
        /\ current' = [current EXCEPT ![top] = (@ + 1) % SizeMod]
        /\ live' = live \cup {a}
        /\ blk' = [blk EXCEPT ![t] = Null] /\ arg' = [arg EXCEPT ![t] = Null]
        /\ UNCHANGED <<magic, top, corrupted>>
    BY <1>5 DEF Register
  <1> HIDE DEF a
  <1>7. ListTypes' /\ \E r : Represents(r)'
    <2>1. \A r : r = [s EXCEPT ![top] = <<a>> \o s[top]] => ListTypes' /\ Represents(r)'
      BY <1>0, <1>2, <1>3, <1>6, RegisterKeepsLists
    <2> QED
      BY <2>1
  <1>8. Counted'
    BY <1>0, <1>2, <1>6, OneMore
  <1>9. MagicKept'
    BY <1>0, <1>1, <1>2, <1>6 DEF MagicKept, BlocksTyped
  <1>10. PopAlone'
    BY <1>0, <1>1, <1>6 DEF PopAlone, BlocksTyped
  <1> QED
    BY <1>0, <1>6, <1>7, <1>8, <1>9, <1>10 DEF ListInv, LinksSound

\* The neighbours of a live block are live, so that the asserts on them hold.
LEMMA LiveIsUnlinkable ==
    ASSUME Ordinary, NEW a \in live
    PROVE  Unlinkable(a) /\ magic[a] = "alloc"
  <1>1. PICK s : Represents(s)
    BY DEF Ordinary, LinksSound
  <1> DEFINE l == level[a]
  <1>2. l \in Levels /\ s[l] \in Seq(Addrs) /\ Linked(s, l) /\ top \in Levels
    BY <1>1 DEF Represents, Complete, Ordinary, LinksSound, ListTypes
  <1>3. PICK k \in 1..Len(s[l]) : s[l][k] = a
    BY <1>1 DEF Represents, Complete
  <1>4. prev[a] = Null \/ prev[a] \in live
    <2>1. k # 1 => k - 1 \in 1..Len(s[l])
      BY <1>2, <1>3
    <2> QED
      BY <2>1, <1>2, <1>3 DEF Linked
  <1>5. next[a] = Null \/ next[a] \in live
    <2>1. k # Len(s[l]) => k + 1 \in 1..Len(s[l])
      BY <1>2, <1>3
    <2> QED
      BY <2>1, <1>2, <1>3 DEF Linked
  <1>6. l <= top
    <2>1. Len(s[l]) # 0 /\ l \in Int /\ top \in Int
      BY <1>2, <1>3, BoundsAssumption DEF Levels
    <2> QED
      BY <2>1, <1>2 DEF Linked
  <1>7. /\ \A b \in live : b \in heap /\ magic[b] = "alloc"
    BY DEF Ordinary, BlocksHeld, MagicKept
  <1> QED
    BY <1>4, <1>5, <1>6, <1>7 DEF Unlinkable, Safe, Asserted

\* A block that the program gives up is taken out of its list, once.
LEMMA UnregisterIsSound ==
    ASSUME Ordinary, NEW t \in Threads, NEW a \in live, NEW to \in {"free", "realloc", "zero"},
           Begin(t, "out", to), Unregister(a), top' = top, corrupted' = corrupted,
           blk' = [blk EXCEPT ![t] = a], arg' = [u \in Threads |-> arg'[u]]
    PROVE  ListInv'
  <1>0. /\ ~corrupted /\ BlocksTyped /\ BlocksHeld /\ LinksSound /\ MagicKept /\ PopAlone /\ Quiet
        /\ ListTypes /\ Counted /\ top \in Levels /\ live \subseteq Addrs
    BY DEF Ordinary, LinksSound, ListTypes
  <1>1. pc[t] = "out" /\ pc' = [pc EXCEPT ![t] = to] /\ \A u \in Threads \ {t} : pc[u] # "pop"
    BY <1>0 DEF Begin, Goes, MayRun
  <1>2. PICK s : Represents(s)
    BY <1>0 DEF LinksSound
  <1>3. PICK k \in 1..Len(s[level[a]]) : s[level[a]][k] = a
    BY <1>2 DEF Represents, Complete
  <1>4. ListTypes' /\ \E r : Represents(r)'
    <2>1. \A r : r = [s EXCEPT ![level[a]] = Cut(s[level[a]], k)] => ListTypes' /\ Represents(r)'
      BY <1>0, <1>2, <1>3, UnregisterKeepsLists
    <2> QED
      BY <2>1
  <1>5. Counted'
    BY <1>0, OneLess DEF Unregister
  <1>6. MagicKept'
    <2>1. magic' = [magic EXCEPT ![a] = "dealloc"] /\ live' = live \ {a}
      BY DEF Unregister
    <2>2. \A u \in Threads : pc'[u] = "register" => pc[u] = "register" /\ blk'[u] = blk[u] /\ blk[u] # a
      BY <1>0, <1>1 DEF BlocksTyped, BlocksHeld, Holding, Ordinary
    <2> QED
      BY <2>1, <2>2, <1>0 DEF MagicKept
  <1>7. PopAlone'
    BY <1>0, <1>1 DEF PopAlone, BlocksTyped
  <1> QED
    BY <1>0, <1>4, <1>5, <1>6, <1>7 DEF ListInv, LinksSound

\* A live block has its header and no record, so that its free is not reported.
LEMMA FreeKeepsLists ==
    ASSUME Ordinary, NEW t \in Threads, NEW a \in Addrs, Free(t, a), ~rare'
    PROVE  ListInv'
  <1>1. a \in live /\ a \notin Range(log) /\ magic[a] = "alloc" /\ Unlinkable(a)
    BY LiveIsUnlinkable DEF Free, Ordinary, ReuseForgotten, NoFalseDoubleFree
  <1>2. /\ Begin(t, "out", "free") /\ Unregister(a) /\ blk' = [blk EXCEPT ![t] = a]
        /\ top' = top /\ corrupted' = corrupted /\ arg' = arg
    BY <1>1 DEF Free
  <1>3. arg' = [u \in Threads |-> arg'[u]]
    BY <1>2 DEF Ordinary, PopAlone
  <1> QED
    BY <1>1, <1>2, <1>3, UnregisterIsSound

LEMMA ReallocKeepsLists ==
    ASSUME Ordinary, NEW t \in Threads, NEW a \in Addrs, NEW zero \in BOOLEAN,
           NEW keep \in BOOLEAN, Realloc(t, a, zero, keep), ~rare'
    PROVE  ListInv'
  <1>1. a \in live /\ magic[a] = "alloc" /\ Unlinkable(a)
    BY LiveIsUnlinkable DEF Realloc
  <1>2. PICK to \in {"realloc", "zero"} : Begin(t, "out", to)
    BY DEF Realloc
  <1>3. /\ Unregister(a) /\ blk' = [blk EXCEPT ![t] = a]
        /\ top' = top /\ corrupted' = corrupted /\ arg' = [arg EXCEPT ![t] = [keep |-> keep]]
    BY <1>1 DEF Realloc
  <1>4. arg' = [u \in Threads |-> arg'[u]]
    BY <1>3 DEF Ordinary, PopAlone
  <1> QED
    BY <1>1, <1>2, <1>3, <1>4, UnregisterIsSound

\* The last level is merged into the one below, whichever its entries are.
LEMMA CollapseIsSound ==
    ASSUME Ordinary, NEW t \in Threads, NEW from, Begin(t, from, "out"), top > 0,
           NEW s, Represents(s), Collapse(top, s[top]), arg' = Released(t),
           \A u \in Threads \ {t} : blk'[u] = blk[u]
    PROVE  ListInv'
  <1>0. /\ ~corrupted /\ BlocksTyped /\ BlocksHeld /\ LinksSound /\ MagicKept /\ PopAlone /\ Quiet
        /\ ListTypes /\ Counted /\ top \in Levels /\ live \subseteq Addrs
    BY DEF Ordinary, LinksSound, ListTypes
  <1>1. pc' = [pc EXCEPT ![t] = "out"] /\ \A u \in Threads \ {t} : pc[u] # "pop"
    BY <1>0 DEF Begin, Goes, MayRun
  <1>2. /\ top' = top - 1 /\ live' = live /\ magic' = magic /\ corrupted' = corrupted
        /\ current' = [current EXCEPT ![top - 1] = (@ + current[top]) % SizeMod]
    BY DEF Collapse, Merged
  <1>3. ListTypes' /\ \E r : Represents(r)'
    <2>1. \A r : r = [l \in Levels |-> IF l = top THEN <<>>
                                       ELSE IF l = top - 1 THEN Moved(s[top], s[l]) ELSE s[l]]
                 => ListTypes' /\ Represents(r)'
      <3>1. \A q : q = s[top] => \A r :
               r = [l \in Levels |-> IF l = top THEN <<>>
                                     ELSE IF l = top - 1 THEN Moved(q, s[l]) ELSE s[l]]
                 => ListTypes' /\ Represents(r)'
        BY <1>0, CollapseKeepsLists
      <3> QED
        BY <3>1
    <2> QED
      BY <2>1
  <1>4. Counted'
    <2>1. IsFiniteSet(live)
      BY <1>0, AddrsAssumption, FS_Subset
    <2> QED
      BY <2>1, <1>0, <1>2, OneLevelLess
  <1>5. MagicKept'
    BY <1>0, <1>1, <1>2 DEF MagicKept, BlocksTyped
  <1>6. PopAlone'
    BY <1>0, <1>1 DEF PopAlone, Released, BlocksTyped
  <1> QED
    BY <1>0, <1>2, <1>3, <1>4, <1>5, <1>6 DEF ListInv, LinksSound

LEMMA PopCleanKeepsLists ==
    ASSUME Ordinary, NEW t \in Threads, PopClean(t), ~rare'
    PROVE  ListInv'
  <1>1. PICK s : Represents(s)
    BY DEF Ordinary, LinksSound
  <1>2. s[top] = <<>>
    <2>1. top \in Levels /\ s[top] \in Seq(Addrs) /\ Linked(s, top) /\ head[top] = Null
      BY <1>1 DEF Represents, Ordinary, LinksSound, ListTypes, PopClean
    <2>2. Len(s[top]) # 0 => s[top][1] \in Addrs
      BY <2>1
    <2>3. Len(s[top]) = 0
      BY <2>1, <2>2, AddrsAssumption DEF Linked
    <2> QED
      BY <2>1, <2>3
  <1>3. /\ Begin(t, "out", "out") /\ top > 0 /\ Collapse(top, s[top]) /\ arg' = Released(t)
        /\ blk' = blk
    BY <1>2 DEF PopClean
  <1> QED
    BY <1>1, <1>3, CollapseIsSound

\* What is walked are the entries of the last level.
LEMMA PopFinishKeepsLists ==
    ASSUME Ordinary, NEW t \in Threads, PopFinish(t), ~rare'
    PROVE  ListInv'
  <1>1. PICK s : Represents(s)
    BY DEF Ordinary, LinksSound
  <1>2. pc[t] = "pop" /\ Begin(t, "pop", "out")
    BY DEF PopFinish, Begin, Goes
  <1>3. top > 0 /\ arg[t] = top /\ blk[t] = head[top]
    BY <1>2 DEF Ordinary, PopAlone
  <1> DEFINE q == s[top]
  <1>4. /\ top \in Levels /\ q \in Seq(Addrs) /\ Injective(q)
        /\ head[top] = IF Len(q) = 0 THEN Null ELSE q[1]
        /\ \A i \in 1..Len(q) : /\ q[i] \in live /\ level[q[i]] = top
                                /\ next[q[i]] = IF i = Len(q) THEN Null ELSE q[i + 1]
    BY <1>1 DEF Represents, Linked, Ordinary, LinksSound, ListTypes
  <1> HIDE DEF q
  <1>5. Walk(blk[t]) = q
    BY <1>3, <1>4, WalkIs
  <1>6. ~Stale(top, q)
    <2>1. Cardinality(Addrs) \in Nat /\ Len(q) <= Cardinality(Addrs)
      BY <1>4, ListIsShort
    <2>2. \A i \in 1..Len(q) : i # Cardinality(Addrs) + 1
      BY <2>1, <1>4
    <2>3. live \subseteq heap
      BY DEF Ordinary, BlocksHeld
    <2>4. DOMAIN q = 1..Len(q)
      BY <1>4
    <2> QED
      BY <2>2, <2>3, <2>4, <1>4 DEF Stale, Safe
  <1>7. Collapse(top, s[top]) /\ blk' = [blk EXCEPT ![t] = Null] /\ arg' = Released(t)
    BY <1>3, <1>5, <1>6 DEF PopFinish, q
  <1>8. \A u \in Threads \ {t} : blk'[u] = blk[u]
    BY <1>7 DEF Ordinary, BlocksTyped
  <1> QED
    BY <1>1, <1>2, <1>3, <1>7, <1>8, CollapseIsSound

LEMMA ListInvStep == Quiet /\ LogInv /\ ListInv /\ [Next]_vars => ListInv'
  <1> SUFFICES ASSUME Quiet, LogInv, ListInv, [Next]_vars, ~rare' PROVE ListInv'
    BY DEF ListInv
  <1>1. CASE UNCHANGED vars
    <2>1. ~rare /\ ~corrupted /\ LinksSound /\ MagicKept /\ PopAlone /\ UNCHANGED Links
      BY <1>1 DEF ListInv, vars, lists, stats, Links
    <2>2. MagicKept' /\ PopAlone' /\ ~corrupted'
      BY <1>1, <2>1 DEF MagicKept, PopAlone, vars, lists, stats
    <2> QED
      BY <2>1, <2>2, LinksStay DEF ListInv
  <1>2. CASE Next
    <2>1. PICK t \in Threads :
             \/ Malloc(t) \/ Register(t) \/ HeapFree(t)
             \/ \E a \in Addrs : Free(t, a) \/ \E zero, keep \in BOOLEAN : Realloc(t, a, zero, keep)
             \/ ReallocMoves(t) \/ ReallocKeeps(t) \/ ReallocFrees(t)
             \/ RecordFree(t) \/ ReallocZero(t)
             \/ Push(t) \/ PopClean(t) \/ PopLeaks(t) \/ PopFinish(t)
             \/ Reset(t)
      BY <1>2 DEF Next
    <2>2. ~rare /\ ~ReallocKeeps(t) /\ ~ReallocFrees(t)
      BY <2>1 DEF Malloc, Register, HeapFree, Free, Realloc, ReallocMoves, ReallocKeeps,
                  ReallocFrees, RecordFree, ReallocZero, Push, PopClean, PopLeaks, PopFinish,
                  Reset, Begin, BeginRare, LogInv, BlocksTyped
    <2>3. Ordinary
      BY <2>2 DEF Ordinary, ListInv, LogInv
    <2>4. ASSUME NEW a \in Addrs, Free(t, a) \/ \E zero, keep \in BOOLEAN : Realloc(t, a, zero, keep)
          PROVE  ListInv'
      BY <2>3, <2>4, FreeKeepsLists, ReallocKeepsLists
    <2> QED
      BY <2>1, <2>2, <2>3, <2>4, MallocKeepsLists, RegisterIsSound, HeapFreeKeepsLists,
         ReallocMovesKeepsLists, RecordFreeKeepsLists, ReallocZeroKeepsLists,
         PushKeepsLists, PopCleanKeepsLists, PopLeaksKeepsLists, PopFinishKeepsLists,
         ResetKeepsLists
  <1> QED
    BY <1>1, <1>2

\* The lists that are walked hold the live blocks.
LEMMA ListsAre == LogInv /\ ListInv => BlocksAccounted
  <1> SUFFICES ASSUME LogInv, ListInv, ~rare PROVE BlocksAccounted
    BY DEF BlocksAccounted, ListsSound, CountsAddUp
  <1>0. /\ ~corrupted /\ ListTypes /\ Counted /\ top \in Levels /\ live \subseteq Addrs
        /\ live \subseteq heap /\ level \in [Addrs -> Levels]
    BY DEF ListInv, LinksSound, ListTypes, LogInv, BlocksHeld
  <1>1. PICK s : Represents(s)
    BY DEF ListInv, LinksSound
  <1>2. ASSUME NEW l \in Levels
        PROVE  /\ s[l] \in Seq(Addrs) /\ Linked(s, l) /\ Walk(head[l]) = s[l]
               /\ Cardinality(Range(s[l])) = Len(s[l])
    <2>1. s[l] \in Seq(Addrs) /\ Linked(s, l)
      BY <1>1 DEF Represents
    <2>2. /\ Injective(s[l]) /\ head[l] = IF Len(s[l]) = 0 THEN Null ELSE s[l][1]
          /\ \A i \in 1..Len(s[l]) : next[s[l][i]] = IF i = Len(s[l]) THEN Null ELSE s[l][i + 1]
      BY <2>1 DEF Linked
    <2>3. \A q \in Seq(Addrs) :
             /\ Injective(q) /\ head[l] = IF Len(q) = 0 THEN Null ELSE q[1]
             /\ \A i \in 1..Len(q) : next[q[i]] = IF i = Len(q) THEN Null ELSE q[i + 1]
             => Walk(head[l]) = q /\ Cardinality(Range(q)) = Len(q)
      BY WalkIs, ListIsShort
    <2> QED
      BY <2>1, <2>2, <2>3
  <1>3. top \in Nat /\ 0..top \subseteq Levels /\ Levels \subseteq Int
    BY <1>0, BoundsAssumption DEF Levels
  <1>4. live = UNION {Listed(l) : l \in 0..top}
    <2>1. ASSUME NEW a \in live PROVE \E l \in 0..top : a \in Listed(l)
      <3>1. level[a] \in Levels /\ \E i \in 1..Len(s[level[a]]) : s[level[a]][i] = a
        BY <1>1 DEF Represents, Complete
      <3>2. level[a] \in 0..top
        <4>1. Len(s[level[a]]) # 0 => ~(level[a] > top)
          BY <3>1, <1>2 DEF Linked
        <4>2. Len(s[level[a]]) # 0
          BY <3>1, <1>2
        <4>3. level[a] \in Nat /\ top \in Nat
          BY <3>1, <1>3, LevelsAre
        <4> QED
          BY <4>1, <4>2, <4>3
      <3>3. a \in Range(s[level[a]])
        BY <3>1, <1>2, RangeIs
      <3> QED
        BY <3>1, <3>2, <3>3, <1>2 DEF Listed
    <2>2. ASSUME NEW l \in 0..top, NEW a \in Listed(l) PROVE a \in live
      <3>1. l \in Levels /\ a \in Range(s[l]) /\ s[l] \in Seq(Addrs) /\ Linked(s, l)
        BY <1>2, <1>3 DEF Listed
      <3> QED
        BY <3>1, RangeIs DEF Linked
    <2> QED
      BY <2>1, <2>2
  <1>5. ASSUME NEW l \in 0..top, NEW w, w = Walk(head[l])
        PROVE  /\ Len(w) = Cardinality(Range(w))
               /\ \A i \in DOMAIN w :
                     /\ level[w[i]] = l /\ w[i] \in heap
                     /\ prev[w[i]] = IF i = 1 THEN Null ELSE w[i - 1]
    <2>1. /\ l \in Levels /\ w = s[l] /\ s[l] \in Seq(Addrs) /\ Linked(s, l)
          /\ Cardinality(Range(s[l])) = Len(s[l])
      BY <1>2, <1>3, <1>5
    <2>2. DOMAIN w = 1..Len(w)
      BY <2>1
    <2> QED
      BY <2>1, <2>2, <1>0 DEF Linked
  <1>6. ListsSound
    BY <1>0, <1>4, <1>5 DEF ListsSound
  <1>7. CountsAddUp
    BY <1>0, CountsAre, AddrsAssumption, FS_Subset
  <1> QED
    BY <1>6, <1>7 DEF BlocksAccounted

\* register_alloc, unregister_alloc_locked and ucb_mem_tracking_pop: as long as no thread
\* calls the tracker while another one reports the leaks of a pop, and no realloc fails,
\* the lists hold the live blocks, each of them once and at its level, the counts of
\* the levels add up to them, no assert of the tracker fails and no list has an entry
\* that is not in the heap.
THEOREM ListsCorrect ==
    ASSUME Quiet
    PROVE  Spec => []BlocksAccounted
  <1>1. Init => LogInv /\ ListInv
    BY LogInvInit, ListInvInit
  <1>2. LogInv /\ ListInv /\ [Next]_vars => (LogInv /\ ListInv)'
    BY LogInvStep, ListInvStep
  <1>3. LogInv /\ ListInv => BlocksAccounted
    BY ListsAre
  <1> QED
    BY <1>1, <1>2, <1>3, PTL DEF Spec

===============================================================================
