-------------------------- MODULE ShuffleTheorems ---------------------------
(***************************************************************************)
(* What the operations of Shuffle preserve, for every finite set of        *)
(* objects: the lemmas that the proofs about WeakShuffle and Members use.  *)
(***************************************************************************)
EXTENDS Shuffle, Integers, FiniteSetTheorems, SequenceTheorems, TLAPS

\* The inductive invariant of one shuffle s of objects of O: its type, the
\* agreement of the dictionaries, and the length of the list.
ShuffleInv(O, s) ==
  /\ s \in ShuffleType(O)
  /\ s.vals = {v \in O : s.indexes[v] # NoIndex}
  /\ Len(s.values) = Cardinality(s.vals)

\* An empty shuffle satisfies the invariant (WeakShuffle.__init__).
LEMMA EmptyInv ==
  ASSUME NEW O
  PROVE  ShuffleInv(O, EmptyShuffle(O))
  BY FS_EmptySet, EmptySeq DEF ShuffleInv, EmptyShuffle, ShuffleType, NoIndex

\* add extends the set by its argument and keeps the invariant.
LEMMA AddInv ==
  ASSUME NEW O, IsFiniteSet(O), NEW s, ShuffleInv(O, s), NEW v \in O
  PROVE  /\ ShuffleInv(O, add(s, v))
         /\ add(s, v).vals = s.vals \cup {v}
<1> DEFINE t == add(s, v)
<1>1. CASE v \in s.vals
  BY <1>1 DEF add
<1>2. CASE v \notin s.vals
  <2>1. s.vals \in SUBSET O /\ s.indexes \in [O -> Nat] /\ s.values \in Seq(O)
    BY DEF ShuffleInv, ShuffleType
  <2>2. Len(s.values) \in Nat
    BY <2>1, LenProperties
  <2>3. /\ t.vals = s.vals \cup {v}
        /\ t.indexes = [s.indexes EXCEPT ![v] = Len(s.values) + 1]
        /\ t.values = Append(s.values, v)
        /\ t = [vals |-> t.vals, indexes |-> t.indexes, values |-> t.values]
    BY <1>2 DEF add
  <2> HIDE DEF t
  <2>4. t.values \in Seq(O) /\ Len(t.values) = Len(s.values) + 1
    BY <2>1, <2>3
  <2>5. t.vals \in SUBSET O /\ t.indexes \in [O -> Nat]
    BY <2>1, <2>2, <2>3
  <2>6. t.vals = {x \in O : t.indexes[x] # NoIndex}
    <3>1. ASSUME NEW x \in O PROVE x \in t.vals <=> t.indexes[x] # NoIndex
      <4>1. x \in s.vals <=> s.indexes[x] # NoIndex
        BY DEF ShuffleInv
      <4>2. t.indexes[x] = IF x = v THEN Len(s.values) + 1 ELSE s.indexes[x]
        BY <2>1, <2>3
      <4> QED
        BY <2>2, <2>3, <4>1, <4>2 DEF NoIndex
    <3> QED
      BY <2>5, <3>1
  <2>7. t \in ShuffleType(O)
    BY <2>3, <2>4, <2>5 DEF ShuffleType
  <2>8. IsFiniteSet(s.vals)
    BY <2>1, FS_Subset
  <2>9. Len(t.values) = Cardinality(t.vals)
    BY <1>2, <2>3, <2>4, <2>8, FS_AddElement DEF ShuffleInv
  <2> QED
    BY <2>3, <2>6, <2>7, <2>9 DEF ShuffleInv, t
<1> QED
  BY <1>1, <1>2

\* Whatever index it finds, _finalize takes one reference off the list: the
\* invariant survives the removal of v from the set, by discard or by the
\* garbage collector.
LEMMA RemoveInv ==
  ASSUME NEW O, IsFiniteSet(O), NEW s, ShuffleInv(O, s), NEW v \in O
  PROVE  /\ ShuffleInv(O, finalize([s EXCEPT !.vals = @ \ {v}], v))
         /\ finalize([s EXCEPT !.vals = @ \ {v}], v).vals = s.vals \ {v}
<1> DEFINE r == [s EXCEPT !.vals = @ \ {v}]
           t == finalize(r, v)
<1>1. s.vals \in SUBSET O /\ s.indexes \in [O -> Nat] /\ s.values \in Seq(O)
  BY DEF ShuffleInv, ShuffleType
<1>2. /\ r.vals = s.vals \ {v} /\ r.indexes = s.indexes
      /\ r.values = s.values
      /\ r \in ShuffleType(O)
  BY <1>1 DEF ShuffleInv, ShuffleType
<1>3. IsFiniteSet(s.vals)
  BY <1>1, FS_Subset
<1>4. CASE s.indexes[v] = NoIndex
  <2>1. v \notin s.vals
    BY <1>4 DEF ShuffleInv
  <2>2. t = r /\ r = s
    BY <1>1, <1>2, <1>4, <2>1 DEF finalize, ShuffleInv, ShuffleType
  <2> QED
    BY <2>1, <2>2
<1>5. CASE s.indexes[v] # NoIndex
  <2> DEFINE end   == Len(s.values)
             index == s.indexes[v]
             moved == IF index < end
                      THEN [s.values EXCEPT ![index] = s.values[end]]
                      ELSE s.values
  <2>1. v \in s.vals
    BY <1>5 DEF ShuffleInv
  <2>2. /\ end \in Nat /\ end = Cardinality(s.vals) /\ end # 0
        /\ index \in Nat /\ index # 0
    BY <1>1, <1>3, <1>5, <2>1, FS_EmptySet, LenProperties
       DEF ShuffleInv, NoIndex
  <2>3. moved \in Seq(O) /\ Len(moved) = end
    <3>1. CASE index < end
      <4>1. index \in 1..Len(s.values) /\ end \in 1..Len(s.values)
        BY <2>2, <3>1
      <4>2. s.values[end] \in O
        BY <1>1, <4>1, ElementOfSeq
      <4> QED
        BY <1>1, <3>1, <4>1, <4>2, ExceptSeq
    <3>2. CASE ~(index < end)
      BY <1>1, <3>2
    <3> QED
      BY <3>1, <3>2
  <2>4. /\ SubSeq(moved, 1, end - 1) \in Seq(O)
        /\ Len(SubSeq(moved, 1, end - 1)) = end - 1
    <3>1. \A i \in 1..(end - 1) : moved[i] \in O
      BY <2>2, <2>3, ElementOfSeq
    <3> HIDE DEF moved, end
    <3> QED
      BY <2>2, <3>1, SubSeqProperties
  <2>5. t = [r EXCEPT !.indexes[v] = NoIndex,
                      !.values     = SubSeq(moved, 1, end - 1)]
    BY <1>2, <1>5 DEF finalize
  <2> HIDE DEF r, t, moved, end, index
  <2>6. /\ t.vals = s.vals \ {v}
        /\ t.indexes = [s.indexes EXCEPT ![v] = NoIndex]
        /\ t.values = SubSeq(moved, 1, end - 1)
        /\ t \in ShuffleType(O)
    BY <1>1, <1>2, <2>4, <2>5 DEF ShuffleType, NoIndex
  <2>7. t.vals = {x \in O : t.indexes[x] # NoIndex}
    BY <1>1, <2>6 DEF ShuffleInv, NoIndex
  <2>8. Len(t.values) = Cardinality(t.vals)
    BY <1>3, <2>1, <2>2, <2>4, <2>6, FS_RemoveElement
  <2> QED
    BY <2>6, <2>7, <2>8 DEF ShuffleInv, t, r
<1> QED
  BY <1>4, <1>5

\* discard takes its argument out of the set and keeps the invariant.
LEMMA DiscardInv ==
  ASSUME NEW O, IsFiniteSet(O), NEW s, ShuffleInv(O, s), NEW v \in O
  PROVE  /\ ShuffleInv(O, discard(s, v))
         /\ discard(s, v).vals = s.vals \ {v}
  BY RemoveInv DEF discard

\* add puts nothing on the list but its argument: choice never draws what was
\* never added.
LEMMA AddListed ==
  ASSUME NEW O, NEW s, ShuffleInv(O, s), NEW v \in O
  PROVE  Listed(add(s, v)) \subseteq Listed(s) \cup {v}
<1>1. s.values \in Seq(O)
  BY DEF ShuffleInv, ShuffleType
<1>2. CASE v \in s.vals
  BY <1>2 DEF add
<1>3. CASE v \notin s.vals
  <2> DEFINE q == Append(s.values, v)
  <2>1. add(s, v).values = q
    BY <1>3 DEF add
  <2>2. /\ DOMAIN q = 1..(Len(s.values) + 1)
        /\ DOMAIN s.values = 1..Len(s.values) /\ Len(s.values) \in Nat
        /\ \A i \in 1..Len(s.values) : q[i] = s.values[i]
        /\ q[Len(s.values) + 1] = v
    BY <1>1, AppendProperties, LenProperties
  <2>3. ASSUME NEW i \in DOMAIN q PROVE q[i] \in Listed(s) \cup {v}
    <3>1. i \in 1..Len(s.values) \/ i = Len(s.values) + 1
      BY <2>2
    <3> QED
      BY <2>2, <3>1 DEF Listed
  <2> HIDE DEF q
  <2> QED
    BY <2>1, <2>3 DEF Listed
<1> QED
  BY <1>2, <1>3

\* discard only takes references off the list, if not always the right one.
LEMMA DiscardListed ==
  ASSUME NEW O, IsFiniteSet(O), NEW s, ShuffleInv(O, s), NEW v \in O
  PROVE  Listed(discard(s, v)) \subseteq Listed(s)
<1> DEFINE r     == [s EXCEPT !.vals = @ \ {v}]
           end   == Len(s.values)
           index == s.indexes[v]
           moved == IF index < end
                    THEN [s.values EXCEPT ![index] = s.values[end]]
                    ELSE s.values
           q     == SubSeq(moved, 1, end - 1)
<1>1. s.values \in Seq(O) /\ s.indexes \in [O -> Nat] /\ s.vals \in SUBSET O
  BY DEF ShuffleInv, ShuffleType
<1>2. /\ end \in Nat /\ index \in Nat
      /\ DOMAIN s.values = 1..end
  BY <1>1, LenProperties
<1>3. CASE v \notin s.vals
  BY <1>3 DEF discard
<1>4. CASE v \in s.vals
  <2>1. index # NoIndex /\ r.indexes = s.indexes /\ r.values = s.values
    BY <1>1, <1>4 DEF ShuffleInv, ShuffleType
  <2>2. discard(s, v).values = q
    <3>1. discard(s, v) = [r EXCEPT !.indexes[v] = NoIndex, !.values = q]
      BY <1>4, <2>1 DEF discard, finalize
    <3>2. r \in ShuffleType(O)
      BY <1>1 DEF ShuffleInv, ShuffleType
    <3> HIDE DEF r, q
    <3> QED
      BY <3>1, <3>2 DEF ShuffleType
  <2>3. ASSUME NEW i \in 1..(end - 1) PROVE moved[i] \in Listed(s)
    <3>1. i \in 1..end /\ end \in 1..end
      BY <1>2
    <3>2. s.values[i] \in Listed(s) /\ s.values[end] \in Listed(s)
      BY <1>2, <3>1 DEF Listed
    <3> QED
      BY <1>1, <1>2, <3>1, <3>2
  <2> HIDE DEF moved, end
  <2>4. /\ q \in Seq(Listed(s))
    BY <1>2, <2>3, SubSeqProperties
  <2>5. \A i \in DOMAIN q : q[i] \in Listed(s)
    BY <2>4, ElementOfSeq, LenProperties
  <2> HIDE DEF q
  <2> QED
    BY <2>2, <2>5 DEF Listed
<1> QED
  BY <1>3, <1>4

\* A shuffle made of a sequence without repetitions holds its elements and
\* satisfies the invariant.
LEMMA ShuffleOfInv ==
  ASSUME NEW O, NEW init \in Seq(O),
         \A i, j \in DOMAIN init : init[i] = init[j] => i = j
  PROVE  /\ ShuffleInv(O, ShuffleOf(O, init))
         /\ ShuffleOf(O, init).vals = {init[i] : i \in DOMAIN init}
<1> DEFINE vals    == {init[i] : i \in DOMAIN init}
           indexes == [x \in O |->
                         IF \E i \in DOMAIN init : init[i] = x
                         THEN CHOOSE i \in DOMAIN init : init[i] = x
                         ELSE NoIndex]
<1>1. DOMAIN init = 1..Len(init) /\ Len(init) \in Nat
  BY LenProperties
<1>2. vals \in SUBSET O
  BY <1>1, ElementOfSeq
<1>3. ASSUME NEW x \in O
      PROVE  indexes[x] \in Nat /\ (x \in vals <=> indexes[x] # NoIndex)
  <2>1. CASE \E i \in DOMAIN init : init[i] = x
    <3>1. indexes[x] \in DOMAIN init
      BY <2>1
    <3> QED
      BY <1>1, <2>1, <3>1 DEF NoIndex
  <2>2. CASE ~\E i \in DOMAIN init : init[i] = x
    BY <2>2 DEF NoIndex
  <2> QED
    BY <2>1, <2>2
<1>4. indexes \in [O -> Nat] /\ vals = {x \in O : indexes[x] # NoIndex}
  <2>1. vals = {x \in O : indexes[x] # NoIndex}
    <3> HIDE DEF vals, indexes
    <3> QED
      BY <1>2, <1>3
  <2> QED
    BY <1>3, <2>1
<1>5. Cardinality(vals) = Len(init)
  <2>1. init \in [1..Len(init) -> vals]
    BY <1>1
  <2>2. init \in Injection(1..Len(init), vals)
    BY <1>1, <2>1 DEF Injection, IsInjective
  <2>3. init \in Surjection(1..Len(init), vals)
    BY <1>1, <2>1 DEF Surjection
  <2>4. ExistsBijection(1..Len(init), vals)
    BY <2>2, <2>3 DEF ExistsBijection, Bijection
  <2> QED
    BY <1>1, <2>4, FS_CountingElements
<1>6. ShuffleOf(O, init) = [vals |-> vals, indexes |-> indexes, values |-> init]
  BY DEF ShuffleOf
<1> HIDE DEF vals, indexes
<1>7. ShuffleInv(O, ShuffleOf(O, init)) /\ ShuffleOf(O, init).vals = vals
  BY <1>2, <1>4, <1>5, <1>6 DEF ShuffleInv, ShuffleType
<1> QED
  BY <1>7 DEF vals

=============================================================================
