----------------------------- MODULE VectorSpec -----------------------------
(***************************************************************************)
(* What include/ucb/container/vector_generic.h promises of its vectors:    *)
(* each is a sequence of values.  Vector implements it.                    *)
(***************************************************************************)
EXTENDS Integers, SequencesExt

CONSTANTS Vecs, Values, Null

VARIABLE seq        \* seq[v]: the values in vector v, Null if there is no such vector

Exists(v) == seq[v] # Null
Becomes(v, s) == seq' = [seq EXCEPT ![v] = s]

Init == seq = [v \in Vecs |-> Null]

New(v)  == ~Exists(v) /\ Becomes(v, <<>>)
Free(v) == Exists(v) /\ Becomes(v, Null)
Clear(v) == Exists(v) /\ Becomes(v, <<>>)

Insert(v, i, x)  == Exists(v) /\ i \in 1..(Len(seq[v]) + 1) /\ Becomes(v, InsertAt(seq[v], i, x))
RemoveElem(v, i) == Exists(v) /\ i \in DOMAIN seq[v] /\ Becomes(v, RemoveAt(seq[v], i))
Set(v, i, x)     == Exists(v) /\ i \in DOMAIN seq[v] /\ Becomes(v, ReplaceAt(seq[v], i, x))

Copy(d, s) == Exists(d) /\ Exists(s) /\ Becomes(d, seq[s])
CopyPart(d, s, n) == Exists(d) /\ Exists(s) /\ n < Len(seq[s]) /\ Becomes(d, SubSeq(seq[s], 1, n))
Clone(d, s) == ~Exists(d) /\ Exists(s) /\ Becomes(d, seq[s])
Take(d, s) == Exists(d) /\ Exists(s) /\ d # s /\ seq' = [seq EXCEPT ![d] = seq[s], ![s] = <<>>]

Next ==
    \/ \E v \in Vecs : New(v) \/ Free(v) \/ Clear(v)
    \/ \E v \in Vecs : Exists(v) /\ \E i \in 1..(Len(seq[v]) + 1) :
          RemoveElem(v, i) \/ \E x \in Values : Insert(v, i, x) \/ Set(v, i, x)
    \/ \E d, s \in Vecs :
          \/ Copy(d, s) \/ Clone(d, s) \/ Take(d, s)
          \/ Exists(s) /\ \E n \in 0..Len(seq[s]) : CopyPart(d, s, n)

Spec == Init /\ [][Next]_seq
=============================================================================
