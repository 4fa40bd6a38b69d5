------------------------------ MODULE Shuffle -------------------------------
(***************************************************************************)
(* swimprotocol/shuffle.py: the operations of WeakShuffle as functions     *)
(* from one shuffle to the next.  A shuffle is a record                    *)
(*   vals     the keys of _weak_vals, i.e. the elements of the set;        *)
(*            _weak_vals_rev is the same relation read backwards           *)
(*   indexes  _indexes: where add put the weak reference of each element,  *)
(*            NoIndex where the dictionary has no key                      *)
(*   values   _values: the list that choice draws from                     *)
(* Positions count from 1.  A weak reference is named by the object it     *)
(* refers to: Python compares live references by their referents.          *)
(***************************************************************************)
EXTENDS Naturals, Sequences

NoIndex == 0

\* The shuffles of objects of the set Objects.
ShuffleType(Objects) == [vals    : SUBSET Objects,
                         indexes : [Objects -> Nat],
                         values  : Seq(Objects)]

\* Every object the list holds a reference to: what choice can draw.
Listed(s) == {s.values[i] : i \in DOMAIN s.values}

\* WeakShuffle()
EmptyShuffle(Objects) ==
  [vals |-> {}, indexes |-> [x \in Objects |-> NoIndex], values |-> << >>]

\* WeakShuffle(init), for a sequence without repetitions.
ShuffleOf(Objects, init) ==
  [vals    |-> {init[i] : i \in DOMAIN init},
   indexes |-> [x \in Objects |->
                  IF \E i \in DOMAIN init : init[i] = x
                  THEN CHOOSE i \in DOMAIN init : init[i] = x ELSE NoIndex],
   values  |-> init]

add(s, v) ==
  IF v \in s.vals THEN s
  ELSE [vals    |-> s.vals \cup {v},
        indexes |-> [s.indexes EXCEPT ![v] = Len(s.values) + 1],
        values  |-> Append(s.values, v)]

\* Mutants of finalize: it leaves a hole, keeps the index, or shortens the
\* list only when it has moved a reference.
finalize_Hole(s, v) ==
  IF s.indexes[v] = NoIndex \/ s.indexes[v] > Len(s.values) THEN s
  ELSE [s EXCEPT !.indexes[v] = NoIndex, !.values[s.indexes[v]] = NoIndex]

finalize_KeepsIndex(s, v) ==
  IF s.indexes[v] = NoIndex \/ s.values = << >> THEN s
  ELSE [s EXCEPT !.values = SubSeq(@, 1, Len(@) - 1)]

finalize_KeepsLast(s, v) ==
  LET index == s.indexes[v]
      end   == Len(s.values)
  IN  IF index = NoIndex THEN s
      ELSE [s EXCEPT
              !.indexes[v] = NoIndex,
              !.values = IF index < end
                         THEN SubSeq([@ EXCEPT ![index] = @[end]], 1, end - 1)
                         ELSE @]

\* _finalize: drop the index of v, move the last reference into its place and
\* shorten the list.  The index of the moved reference is not updated.
finalize(s, v) ==
  LET index == s.indexes[v]
      end   == Len(s.values)
      moved == IF index < end
               THEN [s.values EXCEPT ![index] = s.values[end]]
               ELSE s.values
  IN  IF index = NoIndex THEN s
      ELSE [s EXCEPT !.indexes[v] = NoIndex,
                     !.values     = SubSeq(moved, 1, end - 1)]

\* Mutant of discard: the set keeps the element.
discard_KeepsVal(s, v) == IF v \notin s.vals THEN s ELSE finalize(s, v)

discard(s, v) ==
  IF v \notin s.vals THEN s
  ELSE finalize([s EXCEPT !.vals = @ \ {v}], v)

=============================================================================
