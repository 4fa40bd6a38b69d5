------------------------- MODULE WeakShuffleProofs --------------------------
(***************************************************************************)
(* The invariants of WeakShuffle, for any finite set of objects.           *)
(***************************************************************************)
EXTENDS WeakShuffle, ShuffleTheorems

\* The inductive invariant: that of the shuffle itself (ShuffleTheorems).
Inv == ShuffleInv(Objects, shuffle) /\ alive \subseteq Objects

\* It holds for any number of objects, whatever the garbage collector does.
LEMMA InvAlways == Spec => []Inv
<1>1. Init => Inv
  BY EmptyInv DEF Init, Inv
<1>2. Inv /\ [Next]_vars => Inv'
  <2> SUFFICES ASSUME Inv, [Next]_vars PROVE Inv'
    OBVIOUS
  <2> USE ObjectsAssumption DEF Inv
  <2>1. CASE UNCHANGED vars
    BY <2>1 DEF vars
  <2>2. ASSUME NEW v \in Objects, Add(v) PROVE Inv'
    BY <2>2, AddInv DEF Add
  <2>3. ASSUME NEW v \in Objects, Discard(v) PROVE Inv'
    BY <2>3, DiscardInv DEF Discard
  <2>4. ASSUME NEW v \in Objects, Disappear(v) PROVE Inv'
    BY <2>4, RemoveInv DEF Disappear
  <2> QED
    BY <2>1, <2>2, <2>3, <2>4 DEF Next, Stop
<1> QED
  BY <1>1, <1>2, PTL DEF Spec

\* The attributes of a WeakShuffle keep their types: no slot of its list is
\* left empty and no index leaves the range of indexes.
THEOREM ShuffleTyped == Spec => []TypeOK
<1>1. Inv => TypeOK
  BY DEF Inv, ShuffleInv, TypeOK
<1> QED
  BY <1>1, InvAlways, PTL

\* The dictionaries of indexes and of references keep the same keys.
THEOREM ShuffleKeys == Spec => []KeysAgree
<1>1. Inv => KeysAgree
  BY DEF Inv, ShuffleInv, KeysAgree
<1> QED
  BY <1>1, InvAlways, PTL

\* The list stays as long as the set, in spite of the indexes that _finalize
\* leaves stale.
THEOREM ShuffleLengths == Spec => []LengthsAgree
<1>1. Inv => LengthsAgree
  BY DEF Inv, ShuffleInv, LengthsAgree
<1> QED
  BY <1>1, InvAlways, PTL

=============================================================================
