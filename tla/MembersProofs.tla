--------------------------- MODULE MembersProofs ----------------------------
(***************************************************************************)
(* The safety properties of Members, for any finite set of names, any      *)
(* clocks, statuses and metadata in the gossip received and any sequence   *)
(* of calls.                                                               *)
(***************************************************************************)
EXTENDS Members, MembersTheorems

\* The inductive invariant is that of the table (MembersTheorems).
Inv == TableInv(Local, members)

\* The constructor establishes the invariant.
LEMMA InvInit == Init => Inv
  BY LocalAssumption, InitInv DEF Init, Inv

\* Every call of the users of Members advances the table.
LEMMA InvStep ==
  ASSUME Inv, [Next]_vars
  PROVE  Inv' /\ Advance(Local, members, members')
<1> DEFINE StepOK == Inv' /\ Advance(Local, members, members')
<1>1. Local \in Names
  BY LocalAssumption
<1>2. /\ TableInv(Local, members)
      /\ members.next_clock \in Nat
      /\ \A n \in Names : members.table[n].clock \in Nat
  BY DEF Inv, TableInv, MembersType, MemberState
<1>3. CASE UNCHANGED vars
  BY <1>2, <1>3 DEF vars, Inv, Advance
<1>4. ASSUME NEW name \in Names, NEW v \in Validities \cup {NoValidity},
             Get(name, v)
      PROVE  StepOK
  <2>1. v \in Nat \cup {NoValidity}
    BY InputAssumption
  <2>2. Advance(Local, members, get(members, name, v))
    BY <1>1, <1>2, <2>1, GetAdvances
  <2> QED
    BY <1>2, <1>4, <2>2 DEF Get, Inv, Advance
<1>5. ASSUME NEW name \in Names,
             NEW st \in RealStatus \cup {NoStatus},
             NEW md \in Metadata \cup {Unknown}, Update(name, st, md)
      PROVE  StepOK
  <2>1. st \in StatusArg /\ md \in MetadataArg
    BY DEF StatusArg, MetadataArg
  <2>2. /\ name \in Present(members)
        /\ members' = update_member(members, name, NoMember,
                                    members.next_clock, st, md)
    BY <1>5 DEF Update, update
  <2>3. Advance(Local, members,
                update_member(members, name, NoMember, members.next_clock,
                              st, md))
    BY <1>1, <1>2, <2>1, <2>2, UpdateAdvances
  <2> QED
    BY <1>2, <2>2, <2>3 DEF Inv, Advance
<1>6. ASSUME NEW name \in Names, NEW source \in Names,
             NEW clock \in 1..MaxClock, NEW st \in RealStatus,
             NEW md \in Metadata, Apply(name, source, clock, st, md)
      PROVE  StepOK
  <2>1. /\ st \in StatusArg /\ md \in MetadataArg /\ clock \in Nat
        /\ source # NoMember
    BY InputAssumption, MemberAssumption DEF StatusArg, MetadataArg
  <2>2. /\ name \in Present(members)
        /\ members' = update_member(members, name, source, clock, st, md)
    BY <1>6 DEF Apply, apply
  <2>3. Advance(Local, members,
                update_member(members, name, source, clock, st, md))
    BY <1>1, <1>2, <2>1, <2>2, UpdateAdvances
  <2> QED
    BY <1>2, <2>2, <2>3 DEF Inv, Advance
<1>7. ASSUME NEW name \in Names, NEW source \in Names,
             NEW clock \in AckClocks, AckGossip(name, source, clock)
      PROVE  StepOK
  <2>1. clock \in Nat
    BY InputAssumption
  <2>2. /\ source \in members.non_local
        /\ members' = ack_gossip(members, name, source, clock)
    BY <1>7 DEF AckGossip
  <2>3. Advance(Local, members, ack_gossip(members, name, source, clock))
    BY <1>1, <1>2, <2>1, <2>2, AckAdvances
  <2> QED
    BY <1>2, <2>2, <2>3 DEF Inv, Advance
<1> QED
  BY <1>3, <1>4, <1>5, <1>6, <1>7 DEF Next

\* What the invariant says of the state: the properties of Members.
LEMMA InvImplies ==
  ASSUME Inv PROVE TypeOK /\ LamportAhead /\ IndexAgrees
  BY DEF Inv, TableInv, ShuffleInv, TypeOK, LamportAhead, IndexAgrees

\* A find for one member never draws from an empty list, and has enough to
\* draw when the list is not empty.
LEMMA InvFindOne ==
  ASSUME Inv PROVE FindOneReturns
<1> SUFFICES ASSUME NEW st \in Tracked, NEW n \in members.non_local
             PROVE  find(members, 1, st, {n}) # {}
  BY DEF FindOneReturns
<1> DEFINE s   == members.statuses[st]
           num == NumResults(members, 1, st, {n})
<1>1. /\ s.vals \in SUBSET Names /\ s.values \in Seq(Names)
      /\ Len(s.values) = Cardinality(s.vals)
  BY DEF Inv, TableInv, ShuffleInv, ShuffleType
<1>2. IsFiniteSet(s.vals)
  BY <1>1, MemberAssumption, FS_Subset
<1>3. Cardinality(s.vals) \in Nat
  BY <1>2, FS_CardinalityType
<1>4. Cardinality({n} \cap s.vals) = IF n \in s.vals THEN 1 ELSE 0
  <2>1. CASE n \in s.vals
    <3>1. {n} \cap s.vals = {n}
      BY <2>1
    <3> QED
      BY <2>1, <3>1, FS_Singleton
  <2>2. CASE n \notin s.vals
    <3>1. {n} \cap s.vals = {}
      BY <2>2
    <3> QED
      BY <2>2, <3>1, FS_EmptySet
  <2> QED
    BY <2>1, <2>2
<1>5. n \in s.vals => Cardinality(s.vals) # 0
  BY <1>2, FS_EmptySet
<1>6. num = 0 \/ (num = 1 /\ Len(s.values) # 0)
  <2> HIDE DEF s
  <2>1. num = LET rest == Cardinality(s.vals) - Cardinality({n} \cap s.vals)
              IN  IF rest < 1 THEN rest ELSE 1
    BY DEF NumResults, s
  <2> QED
    BY <1>1, <1>3, <1>4, <1>5, <2>1
<1>7. find(members, 1, st, {n}) =
        {found \in SUBSET Listed(s) : Cardinality(found) = num}
  BY DEF find
<1> HIDE DEF s, num
<1>8. CASE num = 0
  BY <1>7, <1>8, FS_EmptySet
<1>9. CASE num = 1 /\ Len(s.values) # 0
  <2>1. 1 \in DOMAIN s.values
    BY <1>1, <1>9, LenProperties
  <2>2. {s.values[1]} \in SUBSET Listed(s) /\ Cardinality({s.values[1]}) = 1
    BY <2>1, FS_Singleton DEF Listed
  <2> QED
    BY <1>7, <1>9, <2>2
<1> QED
  BY <1>6, <1>8, <1>9

\* Only get changes a validity, and the member has then acknowledged nothing.
LEMMA ResyncStep ==
  ASSUME Inv, [Next]_vars, NEW t \in Names,
         members'.table[t].validity # members.table[t].validity
  PROVE  /\ members'.table[t].known = [n \in Names |-> NoClock]
         /\ Inv'
<1>1. Local \in Names /\ TableInv(Local, members)
  BY LocalAssumption DEF Inv
<1>2. ASSUME NEW name \in Names, NEW v \in Validities \cup {NoValidity},
             Get(name, v)
      PROVE  members'.table[t].known = [n \in Names |-> NoClock]
  <2>1. v \in Nat \cup {NoValidity}
    BY InputAssumption
  <2> QED
    BY <1>1, <1>2, <2>1, GetEffect DEF Get
<1>3. ASSUME NEW name \in Names, NEW source, NEW clock,
             NEW st \in StatusArg, NEW md \in MetadataArg,
             members' = update_member(members, name, source, clock, st, md)
      PROVE  FALSE
  BY <1>1, <1>3, UpdateEffect
<1>4. ASSUME NEW name \in Names, NEW source \in Names,
             NEW clock \in AckClocks, AckGossip(name, source, clock)
      PROVE  FALSE
  BY <1>1, <1>4, InputAssumption, AckEffect DEF AckGossip
<1>5. members'.table[t].known = [n \in Names |-> NoClock]
  <2>1. ASSUME NEW name \in Names,
               NEW st \in RealStatus \cup {NoStatus},
               NEW md \in Metadata \cup {Unknown}, Update(name, st, md)
        PROVE  FALSE
    BY <1>3, <2>1 DEF Update, update, StatusArg, MetadataArg
  <2>2. ASSUME NEW name \in Names, NEW source \in Names,
               NEW clock \in 1..MaxClock, NEW st \in RealStatus,
               NEW md \in Metadata, Apply(name, source, clock, st, md)
        PROVE  FALSE
    BY <1>3, <2>2 DEF Apply, apply, StatusArg, MetadataArg
  <2> QED
    BY <1>2, <1>4, <2>1, <2>2 DEF Next, vars
<1> QED
  BY <1>5, InvStep

-----------------------------------------------------------------------------
\* The invariant holds throughout.
LEMMA InvAlways == Spec => []Inv
<1>1. Init => Inv
  BY InvInit
<1>2. Inv /\ [Next]_vars => Inv'
  BY InvStep
<1> QED
  BY <1>1, <1>2, PTL DEF Spec

\* The Members object keeps the shape of its class, the local flags included.
THEOREM MembersTyped == Spec => []TypeOK
<1>1. Inv => TypeOK
  BY InvImplies
<1> QED
  BY <1>1, InvAlways, PTL

\* The next clock stays ahead of every clock in the table, whatever clocks the
\* gossip carries.
THEOREM MembersAhead == Spec => []LamportAhead
<1>1. Inv => LamportAhead
  BY InvImplies
<1> QED
  BY <1>1, InvAlways, PTL

\* Every shuffle in _statuses holds, as a set, exactly the members that their
\* status puts there.
THEOREM MembersIndexed == Spec => []IndexAgrees
<1>1. Inv => IndexAgrees
  BY InvImplies
<1> QED
  BY <1>1, InvAlways, PTL

\* A call of find for one member always returns.
THEOREM MembersFindOne == Spec => []FindOneReturns
<1>1. Inv => FindOneReturns
  BY InvFindOne
<1> QED
  BY <1>1, InvAlways, PTL

\* No call takes a clock back.
THEOREM MembersClocks == Spec => ClockMonotonic
<1>1. Inv /\ [Next]_vars =>
        [ /\ members'.next_clock >= members.next_clock
          /\ \A n \in Names :
               members'.table[n].clock >= members.table[n].clock ]_vars
  BY InvStep DEF Advance
<1> QED
  BY <1>1, InvAlways, PTL DEF Spec, ClockMonotonic

\* No sequence of calls lets a status skip SUSPECT on the way to OFFLINE or
\* return to it from there.
THEOREM MembersSteps == Spec => StatusPath
<1>1. Inv /\ [Next]_vars =>
        [ \A n \in Names :
            LET old == members.table[n].status
                new == members'.table[n].status
            IN  <<old, new>> \notin {<<"ONLINE", "OFFLINE">>,
                                     <<"OFFLINE", "SUSPECT">>} ]_vars
  BY InvStep DEF Advance
<1> QED
  BY <1>1, InvAlways, PTL DEF Spec, StatusPath

\* A local Member that changes, by a call of the application or in spite of a
\* peer's gossip, has a clock that no member had before.
THEOREM MembersRefutes == Spec => LocalChangeIsNewest
<1>1. Inv /\ [Next]_vars =>
        [ members'.table[Local] # members.table[Local] =>
            \A n \in Names :
              members.table[n].clock < members'.table[Local].clock ]_vars
  BY InvStep DEF Advance, Inv, TableInv
<1> QED
  BY <1>1, InvAlways, PTL DEF Spec, LocalChangeIsNewest

\* A new validity of a member, whatever calls came before it, makes everything
\* that the process can tell gossip for that member again.
THEOREM MembersResync == Spec => ResyncGossipsAll
<1> DEFINE Told(t) == {n \in Present(members') :
                         n = Local \/ members'.table[n].metadata # Unknown}
<1>1. ASSUME Inv, [Next]_vars, NEW t \in Names,
             members'.table[t].validity # members.table[t].validity
      PROVE  get_gossip(members', t) = Told(t)
  <2>1. /\ members'.table[t].known = [n \in Names |-> NoClock]
        /\ Inv'
    BY <1>1, ResyncStep
  <2>2. /\ members'.local = Local /\ Present(members') \subseteq Names
        /\ \A n \in Names : members'.table[n].clock \in Nat
    BY <2>1, LocalAssumption
       DEF Inv, TableInv, MembersType, MemberState, Present
  <2>3. \A n \in Present(members') :
          needs_gossip(members'.table[t], n, members'.table[n].clock)
    BY <2>1, <2>2 DEF needs_gossip, NoClock
  <2> QED
    BY <2>2, <2>3 DEF get_gossip
<1>2. Inv /\ [Next]_vars =>
        [ \A t \in Names :
            members'.table[t].validity # members.table[t].validity =>
              get_gossip(members', t) =
                {n \in Present(members') :
                   n = Local \/ members'.table[n].metadata # Unknown} ]_vars
  BY <1>1
<1> QED
  BY <1>2, InvAlways, PTL DEF Spec, ResyncGossipsAll

=============================================================================
