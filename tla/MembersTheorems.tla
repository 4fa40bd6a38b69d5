-------------------------- MODULE MembersTheorems ---------------------------
(***************************************************************************)
(* What the operations of MembersOps preserve, for any finite set of       *)
(* names: the lemmas that the proofs about Members and the cluster use.    *)
(***************************************************************************)
EXTENDS MembersOps, ShuffleTheorems

\* The inductive invariant of the Members object ms of the process local: its
\* type, which Member is the local one, clocks that are behind the next clock,
\* and shuffles that hold the members their status asks for and draw from
\* members of the table, never from the local one.
TableInv(local, ms) ==
  /\ ms \in MembersType(local)
  /\ \A n \in Names : ms.table[n].local <=> n = local
  /\ \A n \in Names : ms.table[n].clock < ms.next_clock
  /\ \A st \in Tracked :
       /\ ShuffleInv(Names, ms.statuses[st])
       /\ ms.statuses[st].vals =
            {n \in ms.non_local : Has(ms.table[n].status, st)}
       /\ Listed(ms.statuses[st]) \subseteq ms.non_local

\* What an operation may do to the table ms of the process local: no clock
\* goes back, no status skips SUSPECT on its way to OFFLINE or returns to it
\* from there, and a local Member that changes gets the clock that was next.
Advance(local, ms, t) ==
  /\ TableInv(local, t)
  /\ t.next_clock >= ms.next_clock
  /\ ms.non_local \subseteq t.non_local
  /\ \A n \in Names :
       /\ t.table[n].clock >= ms.table[n].clock
       /\ ~(ms.table[n].status = "ONLINE" /\ t.table[n].status = "OFFLINE")
       /\ ~(ms.table[n].status = "OFFLINE" /\ t.table[n].status = "SUSPECT")
  /\ t.table[local] # ms.table[local] =>
       t.table[local].clock = ms.next_clock

\* What the callers pass to an update.
StatusArg   == RealStatus \cup {NoStatus}
MetadataArg == Metadata \cup {Unknown}

\* transition leads from real statuses to real statuses, and along two paths
\* it never leads.
LEMMA TransitionPath ==
  ASSUME NEW from \in RealStatus, NEW to \in RealStatus
  PROVE  /\ transition(from, to) \in RealStatus
         /\ ~(from = "ONLINE" /\ transition(from, to) = "OFFLINE")
         /\ ~(from = "OFFLINE" /\ transition(from, to) = "SUSPECT")
  BY DEF RealStatus, transition

\* What _save does to a Member, whatever the update: it stays a Member, its
\* clock does not go back, its status moves along the edges of transition,
\* and without a report of a change there is none.
LEMMA SaveProps ==
  ASSUME NEW name, NEW source, NEW mem \in MemberState,
         NEW clock \in Nat, NEW status \in StatusArg,
         NEW metadata \in MetadataArg, NEW next_clock \in Nat,
         mem.clock < next_clock
  PROVE  LET pend  == Pending(mem, clock, status, metadata)
             saved == save(name, mem, source, pend, next_clock)
         IN  /\ saved \in MemberState
             /\ saved.local = mem.local
             /\ saved.clock >= mem.clock
             /\ ~(mem.status = "ONLINE" /\ saved.status = "OFFLINE")
             /\ ~(mem.status = "OFFLINE" /\ saved.status = "SUSPECT")
             /\ ~Updated(name, source, pend) => saved = mem
             /\ Updated(name, source, pend) /\ Ignored(mem, source)
                  => saved.clock = next_clock
             /\ Updated(name, source, pend) /\ source = NoMember
                  /\ clock = next_clock => saved.clock = next_clock
<1> DEFINE pend  == Pending(mem, clock, status, metadata)
           saved == save(name, mem, source, pend, next_clock)
<1>1. /\ mem.clock \in Nat /\ mem.status \in RealStatus
      /\ mem.metadata \in Metadata \cup {Unknown}
  BY DEF MemberState
<1>2. pend.clock = NoClock \/ (pend.clock \in Nat /\ pend.clock > mem.clock)
  BY <1>1 DEF Pending, set_clock
<1>3. \/ pend.status = NoStatus
      \/ /\ pend.status \in RealStatus
         /\ ~(mem.status = "ONLINE" /\ pend.status = "OFFLINE")
         /\ ~(mem.status = "OFFLINE" /\ pend.status = "SUSPECT")
  <2>1. CASE status = NoStatus
    BY <2>1 DEF Pending, set_status
  <2>2. CASE status \in RealStatus
    BY <1>1, <2>2, TransitionPath DEF Pending, set_status
  <2> QED
    BY <2>1, <2>2 DEF StatusArg
<1>4. pend.metadata \in Metadata \cup {Unknown}
  BY DEF Pending, set_metadata, MetadataArg
<1>5. clock = next_clock => pend.clock = next_clock
  BY <1>1 DEF Pending, set_clock
<1> HIDE DEF pend
<1>6. CASE ~Updated(name, source, pend)
  <2>1. saved = mem
    BY <1>6 DEF save
  <2> HIDE DEF saved
  <2> QED
    BY <1>1, <1>6, <2>1 DEF pend, saved
<1>7. CASE Updated(name, source, pend)
  <2> DEFINE st == IF Ignored(mem, source) \/ pend.status = NoStatus
                   THEN mem.status ELSE pend.status
             md == IF Ignored(mem, source) \/ pend.metadata = Unknown
                   THEN mem.metadata ELSE pend.metadata
             pc == IF Ignored(mem, source) THEN next_clock ELSE pend.clock
             cl == IF pc = NoClock THEN mem.clock ELSE pc
  <2>1. saved = [mem EXCEPT !.status = st, !.metadata = md, !.clock = cl]
    BY <1>7 DEF save, SavedClock
  <2>2. /\ st \in RealStatus
        /\ ~(mem.status = "ONLINE" /\ st = "OFFLINE")
        /\ ~(mem.status = "OFFLINE" /\ st = "SUSPECT")
    BY <1>1, <1>3 DEF RealStatus
  <2>3. md \in Metadata \cup {Unknown}
    BY <1>1, <1>4
  <2>4. cl \in Nat /\ cl >= mem.clock
    BY <1>1, <1>2 DEF NoClock
  <2>5. /\ Ignored(mem, source) => cl = next_clock
        /\ source = NoMember /\ clock = next_clock => cl = next_clock
    BY <1>2, <1>5 DEF Ignored, NoClock
  <2> HIDE DEF st, md, pc, cl, saved
  <2>6. /\ saved.status = st /\ saved.clock = cl /\ saved.local = mem.local
        /\ saved \in MemberState
    BY <2>1, <2>2, <2>3, <2>4 DEF MemberState
  <2> QED
    BY <1>7, <2>2, <2>4, <2>5, <2>6 DEF pend, saved
<1> QED
  BY <1>6, <1>7 DEF pend

-----------------------------------------------------------------------------
\* A new status of a non-local member moves it between the shuffles, and
\* nothing else in them.
LEMMA RefreshInv ==
  ASSUME NEW local \in Names, NEW ms, TableInv(local, ms),
         NEW name \in ms.non_local, NEW status \in RealStatus,
         NEW st \in Tracked
  PROVE  /\ ShuffleInv(Names, refresh_statuses(ms, name, status)[st])
         /\ Has(status, st) => refresh_statuses(ms, name, status)[st].vals =
                                 ms.statuses[st].vals \cup {name}
         /\ ~Has(status, st) => refresh_statuses(ms, name, status)[st].vals =
                                  ms.statuses[st].vals \ {name}
         /\ Listed(refresh_statuses(ms, name, status)[st]) \subseteq
              ms.non_local
<1>1. IsFiniteSet(Names) /\ name \in Names /\ name # ms.local
  BY MemberAssumption DEF TableInv, MembersType
<1>2. /\ ShuffleInv(Names, ms.statuses[st])
      /\ Listed(ms.statuses[st]) \subseteq ms.non_local
  BY DEF TableInv
<1> DEFINE t == refresh_statuses(ms, name, status)[st]
<1>3. t = IF Has(status, st) THEN add(ms.statuses[st], name)
                             ELSE discard(ms.statuses[st], name)
  BY <1>1 DEF refresh_statuses
<1> HIDE DEF t
<1>4. /\ ShuffleInv(Names, t)
      /\ Has(status, st) => t.vals = ms.statuses[st].vals \cup {name}
      /\ ~Has(status, st) => t.vals = ms.statuses[st].vals \ {name}
      /\ Listed(t) \subseteq ms.non_local
  <2>1. CASE Has(status, st)
    <3>1. Listed(t) \subseteq Listed(ms.statuses[st]) \cup {name}
      BY <1>1, <1>2, <1>3, <2>1, AddListed
    <3> QED
      BY <1>1, <1>2, <1>3, <2>1, <3>1, AddInv
  <2>2. CASE ~Has(status, st)
    <3>1. Listed(t) \subseteq Listed(ms.statuses[st])
      BY <1>1, <1>2, <1>3, <2>2, DiscardListed
    <3> QED
      BY <1>1, <1>2, <1>3, <2>2, <3>1, DiscardInv
  <2> QED
    BY <2>1, <2>2
<1> QED
  BY <1>4 DEF t

\* _update, called with the next clock by the process itself or with any clock
\* on behalf of a peer, is such an operation, and changes one Member.
LEMMA UpdateAdvances ==
  ASSUME NEW local \in Names, NEW ms, TableInv(local, ms),
         NEW name \in Present(ms), NEW source, NEW clock \in Nat,
         NEW status \in StatusArg, NEW metadata \in MetadataArg,
         source # NoMember \/ clock = ms.next_clock
  PROVE  Advance(local, ms,
                 update_member(ms, name, source, clock, status, metadata))
<1> DEFINE mem   == ms.table[name]
           pend  == Pending(mem, clock, status, metadata)
           saved == save(name, mem, source, pend, ms.next_clock)
           sts   == IF Updated(name, source, pend)
                    THEN refresh_statuses(ms, name, saved.status)
                    ELSE ms.statuses
           nc    == IF saved.clock >= ms.next_clock THEN saved.clock + 1
                                                    ELSE ms.next_clock
           t     == update_member(ms, name, source, clock, status, metadata)
<1>1. /\ ms.local = local /\ ms.next_clock \in Nat
      /\ ms.non_local \in SUBSET (Names \ {local})
      /\ ms.table \in [Names -> MemberState]
      /\ ms.statuses \in [Tracked -> ShuffleType(Names)]
      /\ ms \in MembersType(local)
  BY DEF TableInv, MembersType
<1>2. name \in Names /\ mem \in MemberState /\ mem.clock < ms.next_clock
  BY <1>1 DEF Present, TableInv
<1>3. /\ saved \in MemberState
      /\ saved.local = mem.local
      /\ saved.clock >= mem.clock
      /\ ~(mem.status = "ONLINE" /\ saved.status = "OFFLINE")
      /\ ~(mem.status = "OFFLINE" /\ saved.status = "SUSPECT")
      /\ ~Updated(name, source, pend) => saved = mem
      /\ Updated(name, source, pend) /\ Ignored(mem, source)
           => saved.clock = ms.next_clock
      /\ Updated(name, source, pend) /\ source = NoMember
           /\ clock = ms.next_clock => saved.clock = ms.next_clock
  <2> HIDE DEF mem
  <2> QED
    BY <1>1, <1>2, SaveProps
<1>4. saved.clock \in Nat /\ saved.status \in RealStatus
  BY <1>3 DEF MemberState
<1>5. t = [ms EXCEPT !.table = [ms.table EXCEPT ![name] = saved],
                     !.statuses = sts, !.next_clock = nc]
  BY DEF update_member, Beyond
<1>6. ASSUME NEW st \in Tracked
      PROVE  /\ ShuffleInv(Names, sts[st])
             /\ sts[st].vals =
                  {n \in ms.non_local :
                     Has(IF n = name THEN saved.status ELSE ms.table[n].status,
                         st)}
             /\ Listed(sts[st]) \subseteq ms.non_local
  <2>1. /\ ShuffleInv(Names, ms.statuses[st])
        /\ ms.statuses[st].vals =
             {n \in ms.non_local : Has(ms.table[n].status, st)}
        /\ Listed(ms.statuses[st]) \subseteq ms.non_local
    BY DEF TableInv
  <2>2. CASE ~Updated(name, source, pend)
    BY <1>3, <2>1, <2>2
  <2>3. CASE Updated(name, source, pend) /\ name = local
    BY <1>1, <2>1, <2>3 DEF refresh_statuses
  <2>4. CASE Updated(name, source, pend) /\ name # local
    <3>1. name \in ms.non_local
      BY <1>1, <2>4 DEF Present
    <3> HIDE DEF saved, pend
    <3>2. /\ ShuffleInv(Names, sts[st])
          /\ Has(saved.status, st) =>
               sts[st].vals = ms.statuses[st].vals \cup {name}
          /\ ~Has(saved.status, st) =>
               sts[st].vals = ms.statuses[st].vals \ {name}
          /\ Listed(sts[st]) \subseteq ms.non_local
      <4>1. sts = refresh_statuses(ms, name, saved.status)
        BY <2>4
      <4> HIDE DEF sts
      <4> QED
        BY <1>4, <3>1, <4>1, RefreshInv
    <3> QED
      BY <2>1, <3>1, <3>2
  <2> QED
    BY <2>2, <2>3, <2>4
<1>7. sts \in [Tracked -> ShuffleType(Names)]
  <2>1. \A st \in Tracked : sts[st] \in ShuffleType(Names)
    <3> HIDE DEF sts
    <3> QED
      BY <1>6 DEF ShuffleInv
  <2>2. sts = [st \in Tracked |-> sts[st]]
    BY <1>1 DEF refresh_statuses
  <2> QED
    BY <2>1, <2>2
<1>8. nc \in Nat /\ nc >= ms.next_clock /\ saved.clock < nc
  BY <1>1, <1>4
<1> HIDE DEF sts, nc, saved, t, pend
<1>9. /\ t.table = [ms.table EXCEPT ![name] = saved]
      /\ t.statuses = sts /\ t.next_clock = nc /\ t.non_local = ms.non_local
      /\ t \in MembersType(local)
  BY <1>1, <1>3, <1>5, <1>7, <1>8 DEF MembersType
<1>10. ASSUME NEW n \in Names
       PROVE  t.table[n] = IF n = name THEN saved ELSE ms.table[n]
  BY <1>1, <1>9
<1>11. ASSUME NEW n \in Names
       PROVE  /\ ms.table[n].clock \in Nat
              /\ ms.table[n].clock < ms.next_clock
              /\ ms.table[n].local <=> n = local
  BY <1>1 DEF TableInv, MemberState
<1>12. TableInv(local, t)
  <2>1. \A n \in Names : t.table[n].local <=> n = local
    BY <1>3, <1>10, <1>11
  <2>2. \A n \in Names : t.table[n].clock < t.next_clock
    BY <1>1, <1>8, <1>9, <1>10, <1>11
  <2>3. ASSUME NEW st \in Tracked
        PROVE  /\ ShuffleInv(Names, t.statuses[st])
               /\ t.statuses[st].vals =
                    {n \in t.non_local : Has(t.table[n].status, st)}
               /\ Listed(t.statuses[st]) \subseteq t.non_local
    <3>1. \A n \in ms.non_local :
            t.table[n].status =
              IF n = name THEN saved.status ELSE ms.table[n].status
      BY <1>1, <1>10
    <3> QED
      BY <1>6, <1>9, <3>1
  <2> QED
    BY <1>9, <2>1, <2>2, <2>3 DEF TableInv
<1>13. ASSUME NEW n \in Names
       PROVE  /\ t.table[n].clock >= ms.table[n].clock
              /\ ~(ms.table[n].status = "ONLINE" /\ t.table[n].status = "OFFLINE")
              /\ ~(ms.table[n].status = "OFFLINE" /\ t.table[n].status = "SUSPECT")
  <2>1. CASE n = name
    BY <1>3, <1>10, <2>1
  <2>2. CASE n # name
    BY <1>10, <1>11, <2>2
  <2> QED
    BY <2>1, <2>2
<1>14. ASSUME t.table[local] # ms.table[local]
       PROVE  t.table[local].clock = ms.next_clock
  <2>1. name = local /\ Updated(name, source, pend)
    BY <1>3, <1>10, <1>14
  <2>2. mem.local
    BY <1>11, <2>1
  <2> QED
    BY <1>3, <1>10, <2>1, <2>2 DEF Ignored
<1>15. t.next_clock >= ms.next_clock /\ t.non_local = ms.non_local
  BY <1>8, <1>9
<1>16. Advance(local, ms, t)
  BY <1>12, <1>13, <1>14, <1>15 DEF Advance
<1> QED
  BY <1>16 DEF t

\* So is get, after which the member it returns is present.
LEMMA GetAdvances ==
  ASSUME NEW local \in Names, NEW ms, TableInv(local, ms),
         NEW name \in Names, NEW validity \in Nat \cup {NoValidity}
  PROVE  /\ Advance(local, ms, get(ms, name, validity))
         /\ name \in Present(get(ms, name, validity))
<1> DEFINE mem     == ms.table[name]
           created == name \notin Present(ms)
           resync  == name # ms.local /\ validity # NoValidity
                        /\ mem.validity # validity
           fresh   == IF resync
                      THEN [mem EXCEPT !.known = [n \in Names |-> NoClock],
                                       !.validity = validity]
                      ELSE mem
           nl      == IF created THEN ms.non_local \cup {name}
                                 ELSE ms.non_local
           sts     == IF created
                      THEN [st \in Tracked |-> IF Has(mem.status, st)
                                               THEN add(ms.statuses[st], name)
                                               ELSE ms.statuses[st]]
                      ELSE ms.statuses
           t       == get(ms, name, validity)
<1>1. /\ ms.local = local /\ ms.next_clock \in Nat
      /\ ms.non_local \in SUBSET (Names \ {local})
      /\ ms.table \in [Names -> MemberState]
      /\ ms.statuses \in [Tracked -> ShuffleType(Names)]
      /\ ms \in MembersType(local)
      /\ mem \in MemberState
  BY DEF TableInv, MembersType
<1>2. /\ fresh \in MemberState /\ fresh.local = mem.local
      /\ fresh.clock = mem.clock /\ fresh.status = mem.status
      /\ fresh.metadata = mem.metadata
      /\ name = local => fresh = mem
  BY <1>1 DEF MemberState, Validity, NoClock, NoValidity
<1>3. /\ nl \in SUBSET (Names \ {local})
      /\ nl = ms.non_local \cup ({name} \ {local})
  BY <1>1 DEF Present
<1>4. t = [ms EXCEPT !.non_local = nl, !.statuses = sts,
                     !.table = [ms.table EXCEPT ![name] = fresh]]
  BY DEF get, Resynced
<1>5. ASSUME NEW st \in Tracked
      PROVE  /\ ShuffleInv(Names, sts[st])
             /\ sts[st].vals = {n \in nl : Has(ms.table[n].status, st)}
             /\ Listed(sts[st]) \subseteq nl
  <2>1. /\ ShuffleInv(Names, ms.statuses[st])
        /\ ms.statuses[st].vals =
             {n \in ms.non_local : Has(ms.table[n].status, st)}
        /\ Listed(ms.statuses[st]) \subseteq ms.non_local
    BY DEF TableInv
  <2>2. CASE ~created
    BY <2>1, <2>2
  <2>3. CASE created /\ ~Has(mem.status, st)
    BY <2>1, <2>3
  <2>4. CASE created /\ Has(mem.status, st)
    <3>1. sts[st] = add(ms.statuses[st], name)
      BY <2>4
    <3> HIDE DEF sts
    <3>2. IsFiniteSet(Names)
      BY MemberAssumption
    <3>3. /\ ShuffleInv(Names, sts[st])
          /\ sts[st].vals = ms.statuses[st].vals \cup {name}
          /\ Listed(sts[st]) \subseteq Listed(ms.statuses[st]) \cup {name}
      BY <2>1, <3>1, <3>2, AddInv, AddListed
    <3> QED
      BY <2>1, <2>4, <3>3
  <2> QED
    BY <2>2, <2>3, <2>4
<1>6. sts \in [Tracked -> ShuffleType(Names)]
  <2>1. \A st \in Tracked : sts[st] \in ShuffleType(Names)
    <3> HIDE DEF sts
    <3> QED
      BY <1>5 DEF ShuffleInv
  <2>2. sts = [st \in Tracked |-> sts[st]]
    BY <1>1
  <2> QED
    BY <2>1, <2>2
<1> HIDE DEF fresh, nl, sts, t
<1>7. /\ t.table = [ms.table EXCEPT ![name] = fresh]
      /\ t.statuses = sts /\ t.non_local = nl
      /\ t.next_clock = ms.next_clock /\ t.local = local
      /\ t \in MembersType(local)
  BY <1>1, <1>2, <1>3, <1>4, <1>6 DEF MembersType
<1>8. ASSUME NEW n \in Names
      PROVE  /\ t.table[n].local = ms.table[n].local
             /\ t.table[n].clock = ms.table[n].clock
             /\ t.table[n].status = ms.table[n].status
             /\ t.table[n].metadata = ms.table[n].metadata
             /\ n = local => t.table[n] = ms.table[n]
  <2>1. t.table[n] = IF n = name THEN fresh ELSE ms.table[n]
    BY <1>1, <1>7
  <2> QED
    BY <1>2, <2>1
<1>9. TableInv(local, t)
  <2>1. \A n \in Names : /\ t.table[n].local <=> n = local
                         /\ t.table[n].clock < t.next_clock
    BY <1>7, <1>8 DEF TableInv
  <2>2. ASSUME NEW st \in Tracked
        PROVE  /\ ShuffleInv(Names, t.statuses[st])
               /\ t.statuses[st].vals =
                    {n \in t.non_local : Has(t.table[n].status, st)}
               /\ Listed(t.statuses[st]) \subseteq t.non_local
    <3>1. \A n \in nl : t.table[n].status = ms.table[n].status
      BY <1>3, <1>8
    <3> QED
      BY <1>5, <1>7, <3>1
  <2> QED
    BY <1>7, <2>1, <2>2 DEF TableInv
<1>10. name \in Present(t)
  BY <1>1, <1>3, <1>7 DEF Present
<1>11. \A n \in Names : ms.table[n].clock \in Nat
  BY <1>1 DEF MemberState
<1>12. Advance(local, ms, t)
  BY <1>1, <1>3, <1>7, <1>8, <1>9, <1>11 DEF Advance
<1> QED
  BY <1>10, <1>12 DEF t

\* And so is ack_gossip.
LEMMA AckAdvances ==
  ASSUME NEW local \in Names, NEW ms, TableInv(local, ms),
         NEW name \in Names, NEW source \in ms.non_local, NEW clock \in Nat
  PROVE  Advance(local, ms, ack_gossip(ms, name, source, clock))
<1> DEFINE mem   == ms.table[source]
           known == [mem EXCEPT !.known = [mem.known EXCEPT ![name] = clock]]
           t     == ack_gossip(ms, name, source, clock)
<1>1. /\ ms.local = local /\ ms \in MembersType(local)
      /\ ms.table \in [Names -> MemberState]
      /\ source \in Names /\ source # local
      /\ mem \in MemberState
  BY DEF TableInv, MembersType
<1>2. /\ known \in MemberState /\ known.local = mem.local
      /\ known.clock = mem.clock /\ known.status = mem.status
      /\ known.metadata = mem.metadata
  BY <1>1 DEF MemberState
<1>3. t = [ms EXCEPT !.table = [ms.table EXCEPT ![source] = known]]
  BY DEF ack_gossip
<1> HIDE DEF known, t
<1>4. /\ t.table = [ms.table EXCEPT ![source] = known]
      /\ t.statuses = ms.statuses /\ t.non_local = ms.non_local
      /\ t.next_clock = ms.next_clock
      /\ t \in MembersType(local)
  BY <1>1, <1>2, <1>3 DEF MembersType
<1>5. ASSUME NEW n \in Names
      PROVE  /\ t.table[n].local = ms.table[n].local
             /\ t.table[n].clock = ms.table[n].clock
             /\ t.table[n].status = ms.table[n].status
             /\ t.table[n].metadata = ms.table[n].metadata
             /\ n = local => t.table[n] = ms.table[n]
  <2>1. t.table[n] = IF n = source THEN known ELSE ms.table[n]
    BY <1>1, <1>4
  <2> QED
    BY <1>1, <1>2, <2>1
<1>6. TableInv(local, t)
  <2>1. \A n \in Names : /\ t.table[n].local <=> n = local
                         /\ t.table[n].clock < t.next_clock
    BY <1>4, <1>5 DEF TableInv
  <2>2. ASSUME NEW st \in Tracked
        PROVE  /\ ShuffleInv(Names, t.statuses[st])
               /\ t.statuses[st].vals =
                    {n \in t.non_local : Has(t.table[n].status, st)}
               /\ Listed(t.statuses[st]) \subseteq t.non_local
    <3>1. \A n \in ms.non_local : t.table[n].status = ms.table[n].status
      BY <1>5 DEF TableInv, MembersType
    <3> QED
      BY <1>4, <3>1 DEF TableInv
  <2> QED
    BY <1>4, <2>1, <2>2 DEF TableInv
<1>7. ms.next_clock \in Nat /\ \A n \in Names : ms.table[n].clock \in Nat
  BY <1>1 DEF MembersType, MemberState
<1>8. Advance(local, ms, t)
  BY <1>4, <1>5, <1>6, <1>7 DEF Advance
<1> QED
  BY <1>8 DEF t

\* The constructor of Members establishes the invariant of the table.
LEMMA InitInv ==
  ASSUME NEW local \in Names, NEW peers \in Seq(Names \ {local}),
         \A i, j \in DOMAIN peers : peers[i] = peers[j] => i = j,
         NEW validity \in Nat, NEW metadata \in Metadata
  PROVE  TableInv(local, InitMembers(local, peers, validity, metadata))
<1> DEFINE nl  == {peers[i] : i \in DOMAIN peers}
           tab == [n \in Names |-> IF n = local THEN NewMember(TRUE, validity)
                                                ELSE NewMember(FALSE, Fresh)]
           sts == [st \in Tracked |-> IF Has("OFFLINE", st)
                                      THEN ShuffleOf(Names, peers)
                                      ELSE EmptyShuffle(Names)]
           ms  == [local |-> local, next_clock |-> 1, non_local |-> nl,
                   table |-> tab, statuses |-> sts]
<1>1. peers \in Seq(Names)
  <2>1. \A i \in 1..Len(peers) : peers[i] \in Names
    BY ElementOfSeq
  <2> QED
    BY <2>1, LenProperties, SeqDef
<1>2. nl \in SUBSET (Names \ {local})
  <2>1. \A i \in DOMAIN peers : peers[i] \in Names \ {local}
    BY ElementOfSeq, LenProperties
  <2> QED
    BY <2>1
<1>3. ASSUME NEW n \in Names
      PROVE  /\ tab[n] \in MemberState
             /\ tab[n].local <=> n = local
             /\ tab[n].clock = 0 /\ tab[n].status = "OFFLINE"
  BY DEF NewMember, MemberState, Validity, Fresh, NoClock, RealStatus
<1>4. tab \in [Names -> MemberState]
  BY <1>3
<1> HIDE DEF tab
<1>5. ASSUME NEW st \in Tracked
      PROVE  /\ ShuffleInv(Names, sts[st])
             /\ sts[st].vals = {n \in nl : Has(tab[n].status, st)}
             /\ Listed(sts[st]) \subseteq nl
  <2>1. \A n \in nl : tab[n].status = "OFFLINE"
    BY <1>2, <1>3
  <2>2. CASE Has("OFFLINE", st)
    <3>1. sts[st] = ShuffleOf(Names, peers)
      BY <2>2
    <3>2. /\ ShuffleInv(Names, sts[st]) /\ sts[st].vals = nl
          /\ Listed(sts[st]) = nl
      <4>1. ShuffleOf(Names, peers).values = peers
        BY DEF ShuffleOf
      <4> HIDE DEF sts
      <4>2. Listed(sts[st]) = nl
        BY <3>1, <4>1 DEF Listed
      <4> QED
        BY <1>1, <3>1, <4>2, ShuffleOfInv
    <3> HIDE DEF sts, nl
    <3> QED
      BY <2>1, <2>2, <3>2
  <2>3. CASE ~Has("OFFLINE", st)
    <3>1. sts[st] = EmptyShuffle(Names)
      BY <2>3
    <3>2. /\ ShuffleInv(Names, sts[st]) /\ sts[st].vals = {}
          /\ Listed(sts[st]) = {}
      <4> HIDE DEF sts
      <4> QED
        BY <3>1, EmptyInv DEF EmptyShuffle, Listed
    <3> HIDE DEF sts, nl
    <3> QED
      BY <2>1, <2>3, <3>2
  <2> QED
    BY <2>2, <2>3
<1>6. sts \in [Tracked -> ShuffleType(Names)]
  BY <1>5 DEF ShuffleInv
<1> HIDE DEF nl, sts
<1>7. TableInv(local, ms)
  BY <1>2, <1>3, <1>4, <1>5, <1>6 DEF TableInv, MembersType
<1>8. /\ local \in Present(ms) /\ ms.next_clock \in Nat
      /\ "ONLINE" \in StatusArg /\ metadata \in MetadataArg
  BY DEF Present, StatusArg, RealStatus, MetadataArg
<1>9. InitMembers(local, peers, validity, metadata) =
        update_member(ms, local, NoMember, ms.next_clock, "ONLINE", metadata)
  BY DEF InitMembers, update, nl, tab, sts
<1> HIDE DEF ms
<1>10. Advance(local, ms,
         update_member(ms, local, NoMember, ms.next_clock, "ONLINE", metadata))
  BY <1>7, <1>8, UpdateAdvances
<1> QED
  BY <1>9, <1>10 DEF Advance

-----------------------------------------------------------------------------
(***************************************************************************)
(* What the operations do to the single Members.                           *)
(***************************************************************************)

\* _save keeps validity and known clocks, moves the status along transition,
\* leaves status and metadata of an ignored update alone, and believes a
\* member about its own metadata, whatever the clock.
LEMMA SaveEffect ==
  ASSUME NEW name, NEW source, NEW mem \in MemberState,
         NEW clock, NEW status \in StatusArg,
         NEW metadata \in MetadataArg, NEW next_clock
  PROVE  LET pend  == Pending(mem, clock, status, metadata)
             saved == save(name, mem, source, pend, next_clock)
         IN  /\ saved.validity = mem.validity
             /\ saved.known = mem.known
             /\ saved.status # mem.status =>
                  /\ ~Ignored(mem, source)
                  /\ status # NoStatus
                  /\ saved.status = transition(mem.status, status)
             /\ saved.metadata # mem.metadata =>
                  /\ ~Ignored(mem, source)
                  /\ metadata # Unknown
                  /\ saved.metadata = metadata
             /\ name = source /\ ~Ignored(mem, source) /\ metadata # Unknown
                  => saved.metadata = metadata
<1> DEFINE pend  == Pending(mem, clock, status, metadata)
           saved == save(name, mem, source, pend, next_clock)
           st    == IF Ignored(mem, source) \/ pend.status = NoStatus
                    THEN mem.status ELSE pend.status
           md    == IF Ignored(mem, source) \/ pend.metadata = Unknown
                    THEN mem.metadata ELSE pend.metadata
           cl    == SavedClock(mem, source, pend, next_clock)
<1>1. pend.status # NoStatus =>
        status # NoStatus /\ pend.status = transition(mem.status, status)
  BY DEF Pending, set_status
<1>2. /\ pend.metadata # Unknown =>
           metadata # Unknown /\ pend.metadata = metadata
      /\ pend.metadata = Unknown => metadata \in {mem.metadata, Unknown}
  BY DEF Pending, set_metadata
<1>3. CASE ~Updated(name, source, pend)
  <2>1. saved = mem
    BY <1>3 DEF save
  <2>2. name = source => pend.metadata = Unknown
    BY <1>3 DEF Updated
  <2> HIDE DEF saved, pend
  <2> QED
    BY <1>2, <2>1, <2>2 DEF saved, pend
<1>4. CASE Updated(name, source, pend)
  <2>1. saved = [mem EXCEPT !.status = st, !.metadata = md, !.clock = cl]
    BY <1>4 DEF save
  <2> HIDE DEF pend, saved, st, md, cl
  <2>2. /\ saved.status = st /\ saved.metadata = md
        /\ saved.validity = mem.validity /\ saved.known = mem.known
    BY <2>1 DEF MemberState
  <2>3. /\ st # mem.status => ~Ignored(mem, source) /\ pend.status # NoStatus
                                /\ st = pend.status
        /\ md # mem.metadata => ~Ignored(mem, source)
                                  /\ pend.metadata # Unknown
                                  /\ md = pend.metadata
        /\ ~Ignored(mem, source) /\ pend.metadata # Unknown
             => md = pend.metadata
        /\ pend.metadata = Unknown => md = mem.metadata
    BY DEF st, md
  <2> QED
    BY <1>1, <1>2, <2>2, <2>3 DEF saved, pend
<1> QED
  BY <1>3, <1>4

\* _update changes one Member, as _save says.
LEMMA UpdateEffect ==
  ASSUME NEW local \in Names, NEW ms, TableInv(local, ms),
         NEW name \in Names, NEW source, NEW clock,
         NEW status \in StatusArg, NEW metadata \in MetadataArg
  PROVE  LET t == update_member(ms, name, source, clock, status, metadata)
             old == ms.table[name]
             new == t.table[name]
             ignored == name = local /\ source # NoMember
         IN  /\ t.non_local = ms.non_local
             /\ \A n \in Names : n # name => t.table[n] = ms.table[n]
             /\ new.validity = old.validity /\ new.known = old.known
             /\ new.status # old.status =>
                  /\ ~ignored
                  /\ status # NoStatus
                  /\ new.status = transition(old.status, status)
             /\ new.metadata # old.metadata =>
                  ~ignored /\ metadata # Unknown /\ new.metadata = metadata
             /\ name = source /\ ~ignored /\ metadata # Unknown
                  => new.metadata = metadata
<1> DEFINE mem   == ms.table[name]
           pend  == Pending(mem, clock, status, metadata)
           saved == save(name, mem, source, pend, ms.next_clock)
           t     == update_member(ms, name, source, clock, status, metadata)
<1>1. /\ ms.table \in [Names -> MemberState] /\ ms \in MembersType(local)
      /\ mem \in MemberState /\ (mem.local <=> name = local)
  BY DEF TableInv, MembersType
<1>2. Ignored(mem, source) <=> name = local /\ source # NoMember
  BY <1>1 DEF Ignored
<1>3. /\ saved.validity = mem.validity
      /\ saved.known = mem.known
      /\ saved.status # mem.status =>
           /\ ~Ignored(mem, source)
           /\ status # NoStatus
           /\ saved.status = transition(mem.status, status)
      /\ saved.metadata # mem.metadata =>
           /\ ~Ignored(mem, source)
           /\ metadata # Unknown
           /\ saved.metadata = metadata
      /\ name = source /\ ~Ignored(mem, source) /\ metadata # Unknown
           => saved.metadata = metadata
  <2> HIDE DEF mem
  <2> QED
    BY <1>1, SaveEffect
<1>4. /\ t.table = [ms.table EXCEPT ![name] = saved]
      /\ t.non_local = ms.non_local
  BY <1>1 DEF update_member, MembersType
<1> HIDE DEF saved, t, mem
<1>5. /\ t.table[name] = saved
      /\ \A n \in Names : n # name => t.table[n] = ms.table[n]
  BY <1>1, <1>4
<1> QED
  BY <1>2, <1>3, <1>4, <1>5 DEF t, mem

\* get changes at most the validity of the member, and with it forgets what the
\* member has acknowledged.
LEMMA GetEffect ==
  ASSUME NEW local \in Names, NEW ms, TableInv(local, ms),
         NEW name \in Names, NEW validity \in Nat \cup {NoValidity}
  PROVE  LET t   == get(ms, name, validity)
             old == ms.table[name]
             new == t.table[name]
         IN  /\ t.next_clock = ms.next_clock
             /\ \A n \in Names : n # name => t.table[n] = ms.table[n]
             /\ new.status = old.status /\ new.metadata = old.metadata
             /\ new.clock = old.clock
             /\ \/ new = old
                \/ /\ name # local /\ validity # NoValidity
                   /\ new.validity = validity
                   /\ new.known = [n \in Names |-> NoClock]
             /\ name # local /\ validity # NoValidity =>
                  new.validity = validity
<1> DEFINE mem    == ms.table[name]
           resync == name # local /\ validity # NoValidity
                       /\ mem.validity # validity
           fresh  == IF resync THEN Resynced(mem, validity) ELSE mem
           t      == get(ms, name, validity)
<1>1. /\ ms.table \in [Names -> MemberState] /\ ms \in MembersType(local)
      /\ mem \in MemberState /\ ms.local = local
  BY DEF TableInv, MembersType
<1>2. t.table = [ms.table EXCEPT ![name] = fresh]
      /\ t.next_clock = ms.next_clock
  BY <1>1 DEF get, MembersType
<1>3. /\ fresh.status = mem.status /\ fresh.metadata = mem.metadata
      /\ fresh.clock = mem.clock
      /\ resync => /\ fresh.validity = validity
                   /\ fresh.known = [n \in Names |-> NoClock]
      /\ ~resync => fresh = mem
  BY <1>1 DEF Resynced, MemberState
<1> HIDE DEF fresh, t, mem
<1>4. /\ t.table[name] = fresh
      /\ \A n \in Names : n # name => t.table[n] = ms.table[n]
  BY <1>1, <1>2
<1> QED
  BY <1>2, <1>3, <1>4 DEF t, mem

\* ack_gossip changes one known clock.
LEMMA AckEffect ==
  ASSUME NEW local \in Names, NEW ms, TableInv(local, ms),
         NEW name \in Names, NEW source \in Names, NEW clock \in Nat
  PROVE  LET t   == ack_gossip(ms, name, source, clock)
             old == ms.table[source]
             new == t.table[source]
         IN  /\ t.next_clock = ms.next_clock /\ t.non_local = ms.non_local
             /\ \A n \in Names : n # source => t.table[n] = ms.table[n]
             /\ new.status = old.status /\ new.metadata = old.metadata
             /\ new.clock = old.clock /\ new.validity = old.validity
             /\ \A n \in Names :
                  new.known[n] = IF n = name THEN clock ELSE old.known[n]
<1> DEFINE mem   == ms.table[source]
           known == [mem EXCEPT !.known = [mem.known EXCEPT ![name] = clock]]
           t     == ack_gossip(ms, name, source, clock)
<1>1. /\ ms.table \in [Names -> MemberState] /\ ms \in MembersType(local)
      /\ mem \in MemberState
  BY DEF TableInv, MembersType
<1>2. /\ t.table = [ms.table EXCEPT ![source] = known]
      /\ t.next_clock = ms.next_clock /\ t.non_local = ms.non_local
  BY <1>1 DEF ack_gossip, MembersType
<1>3. /\ known.status = mem.status /\ known.metadata = mem.metadata
      /\ known.clock = mem.clock /\ known.validity = mem.validity
      /\ \A n \in Names :
           known.known[n] = IF n = name THEN clock ELSE mem.known[n]
  BY <1>1 DEF MemberState
<1> HIDE DEF known, t, mem
<1>4. /\ t.table[source] = known
      /\ \A n \in Names : n # source => t.table[n] = ms.table[n]
  BY <1>1, <1>2
<1> QED
  BY <1>2, <1>3, <1>4 DEF t, mem

\* The table that the constructor leaves behind: the process itself is ONLINE
\* with its metadata, and of the others nothing is known.
InitTable(local, validity, metadata, t) ==
  /\ t.table[local].status = "ONLINE"
  /\ t.table[local].metadata = metadata
  /\ t.table[local].validity = validity
  /\ \A m \in Names \ {local} : /\ t.table[m].status = "OFFLINE"
                                /\ t.table[m].metadata = Unknown
                                /\ t.table[m].validity = Fresh
  /\ \A m, k \in Names : t.table[m].known[k] = NoClock

LEMMA InitEffect ==
  ASSUME NEW local \in Names, NEW peers \in Seq(Names \ {local}),
         \A i, j \in DOMAIN peers : peers[i] = peers[j] => i = j,
         NEW validity \in Nat, NEW metadata \in Metadata
  PROVE  InitTable(local, validity, metadata,
                   InitMembers(local, peers, validity, metadata))
<1> DEFINE tab == [n \in Names |-> IF n = local THEN NewMember(TRUE, validity)
                                                ELSE NewMember(FALSE, Fresh)]
           sts == [st \in Tracked |-> IF Has("OFFLINE", st)
                                      THEN ShuffleOf(Names, peers)
                                      ELSE EmptyShuffle(Names)]
           ms  == [local |-> local, next_clock |-> 1,
                   non_local |-> {peers[i] : i \in DOMAIN peers},
                   table |-> tab, statuses |-> sts]
           mem == NewMember(TRUE, validity)
           pend  == Pending(mem, 1, "ONLINE", metadata)
           saved == save(local, mem, NoMember, pend, 1)
           t   == InitMembers(local, peers, validity, metadata)
<1>1. t.table = [tab EXCEPT ![local] = saved]
  <2>1. ms.table[local] = mem /\ ms.next_clock = 1
    OBVIOUS
  <2>2. t = update_member(ms, local, NoMember, 1, "ONLINE", metadata)
    BY DEF InitMembers, update
  <2> HIDE DEF t, mem, tab, sts
  <2> QED
    BY <2>1, <2>2 DEF update_member
<1>2. pend = [clock |-> 1, status |-> "ONLINE", metadata |-> metadata]
  BY MemberAssumption
     DEF NewMember, Pending, set_clock, set_status, set_metadata, transition,
         NoStatus
<1>3. /\ saved.status = "ONLINE" /\ saved.metadata = metadata
      /\ saved.validity = validity
      /\ saved.known = [n \in Names |-> NoClock]
  <2>1. Updated(local, NoMember, pend) /\ ~Ignored(mem, NoMember)
    <3> HIDE DEF pend, mem
    <3> QED
      BY <1>2, MemberAssumption DEF Updated, NoClock, NoStatus, Ignored
  <2>2. saved = [mem EXCEPT !.status = "ONLINE", !.metadata = metadata,
                            !.clock = SavedClock(mem, NoMember, pend, 1)]
    <3> HIDE DEF pend, mem
    <3>1. pend.status # NoStatus /\ pend.metadata # Unknown
      BY <1>2, MemberAssumption DEF NoStatus
    <3> QED
      BY <1>2, <2>1, <3>1 DEF save
  <2> HIDE DEF saved, pend
  <2> QED
    BY <2>2 DEF NewMember
<1> HIDE DEF saved, t
<1>4. /\ t.table[local] = saved
      /\ \A n \in Names \ {local} : t.table[n] = NewMember(FALSE, Fresh)
  BY <1>1
<1>5. ASSUME NEW m \in Names \ {local}
      PROVE  /\ t.table[m].status = "OFFLINE" /\ t.table[m].metadata = Unknown
             /\ t.table[m].validity = Fresh
             /\ \A k \in Names : t.table[m].known[k] = NoClock
  <2>1. t.table[m] = NewMember(FALSE, Fresh)
    BY <1>4
  <2> QED
    BY <2>1 DEF NewMember
<1>6. \A m, k \in Names : t.table[m].known[k] = NoClock
  BY <1>3, <1>4, <1>5
<1> QED
  BY <1>3, <1>4, <1>5, <1>6 DEF InitTable, t

=============================================================================
