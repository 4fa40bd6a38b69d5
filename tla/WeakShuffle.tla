----------------------------- MODULE WeakShuffle ----------------------------
(***************************************************************************)
(* One WeakShuffle (swimprotocol/shuffle.py) under every sequence of       *)
(* calls, and under the garbage collector, which may take any object that  *)
(* its owner has released: the shuffle holds weak references only.  An     *)
(* object that is gone does not return.                                    *)
(***************************************************************************)
EXTENDS Shuffle, FiniteSets

CONSTANT Objects
ASSUME ObjectsAssumption == IsFiniteSet(Objects)

VARIABLES shuffle,  \* the WeakShuffle
          alive     \* the objects that still exist
vars == <<shuffle, alive>>

Init == shuffle = EmptyShuffle(Objects) /\ alive = Objects

-----------------------------------------------------------------------------
Add(v) ==
  /\ v \in alive
  /\ shuffle' = add(shuffle, v)
  /\ UNCHANGED alive

Discard(v) ==
  /\ v \in alive
  /\ shuffle' = discard(shuffle, v)
  /\ UNCHANGED alive

\* The object goes away: the weak dictionaries lose their entry and the
\* callback of its reference, _finalize, runs.
Disappear(v) ==
  /\ v \in alive
  /\ alive' = alive \ {v}
  /\ shuffle' = finalize([shuffle EXCEPT !.vals = @ \ {v}], v)

\* choice(): every object it can return, the ones that are gone included.
choice(s) == Listed(s)

Stop == alive = {} /\ UNCHANGED vars

Next == \/ \E v \in Objects : Add(v) \/ Discard(v) \/ Disappear(v)
        \/ Stop

Spec == Init /\ [][Next]_vars

-----------------------------------------------------------------------------
\* The parts of the shuffle have the types of the attributes of the class.
TypeOK == shuffle \in ShuffleType(Objects) /\ alive \subseteq Objects

\* The dictionaries of the class have the same keys: what is in the set has an
\* index, and nothing else keeps one, so a callback never shortens the list
\* for an object that was discarded before.
KeysAgree == {v \in Objects : shuffle.indexes[v] # NoIndex} = shuffle.vals

\* The list is as long as the set.  This is why `del values[end_index]` never
\* meets an empty list, why choice raises KeyError exactly when the set is
\* empty, and it holds in spite of the indexes that _finalize leaves stale.
LengthsAgree == Len(shuffle.values) = Cardinality(shuffle.vals)

\* shuffle.py:25 and 83: "Choose an object from the set at random and return
\* it": what choice returns is in the set.
ChoiceFromSet == choice(shuffle) \subseteq shuffle.vals

=============================================================================
