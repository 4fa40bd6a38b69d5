----------------------------- MODULE MembersOps -----------------------------
(***************************************************************************)
(* swimprotocol/members.py, class Members: the table of members one        *)
(* process keeps, and its operations as functions from one table to the    *)
(* next.  A Members object is a record                                     *)
(*   local       the name of the process's own member                      *)
(*   next_clock  _next_clock                                               *)
(*   non_local   the names in _non_local                                   *)
(*   table       per name, the Member; a name that get has not yet created *)
(*               holds the Member that get would create                    *)
(*   statuses    _statuses: per tracked status, the shuffle of the         *)
(*               non-local members that have it                            *)
(***************************************************************************)
EXTENDS Member, Shuffle

CONSTANT Tracked   \* the statuses whose shuffle somebody reads

ASSUME TrackedAssumption == Tracked \subseteq AllStatuses

\* The Members objects of the process with this name.
MembersType(local) == [local      : {local},
                       next_clock : Nat,
                       non_local  : SUBSET (Names \ {local}),
                       table      : [Names -> MemberState],
                       statuses   : [Tracked -> ShuffleType(Names)]]

\* The names in _members.
Present(ms) == ms.non_local \cup {ms.local}

\* Mutant of refresh_statuses: a member stays where its old status put it.
refresh_statuses_AddOnly(ms, name, status) ==
  IF name = ms.local THEN ms.statuses
  ELSE [st \in Tracked |-> IF Has(status, st)
                           THEN add(ms.statuses[st], name)
                           ELSE ms.statuses[st]]

\* _refresh_statuses
refresh_statuses(ms, name, status) ==
  IF name = ms.local THEN ms.statuses
  ELSE [st \in Tracked |-> IF Has(status, st)
                           THEN add(ms.statuses[st], name)
                           ELSE discard(ms.statuses[st], name)]

\* Mutant of Resynced: the new process inherits what the old acknowledged.
Resynced_KeepsKnown(mem, validity) == [mem EXCEPT !.validity = validity]

\* A Member after a new validity: a new process, that has acknowledged nothing.
Resynced(mem, validity) ==
  [mem EXCEPT !.known = [n \in Names |-> NoClock], !.validity = validity]

\* get(name, validity): create the member if need be.
get(ms, name, validity) ==
  LET created == name \notin Present(ms)
      mem     == ms.table[name]
      resync  == name # ms.local /\ validity # NoValidity
                   /\ mem.validity # validity
  IN  [ms EXCEPT
         !.non_local = IF created THEN @ \cup {name} ELSE @,
         !.statuses  = IF created
                       THEN [st \in Tracked |->
                               IF Has(mem.status, st)
                               THEN add(ms.statuses[st], name)
                               ELSE ms.statuses[st]]
                       ELSE @,
         !.table[name] = IF resync THEN Resynced(mem, validity) ELSE @]

\* Mutant of Beyond: the next clock may equal one in use.
Beyond_NotAhead(clock, next_clock) ==
  IF clock > next_clock THEN clock ELSE next_clock

\* The next clock after a member has been given this one.
Beyond(clock, next_clock) ==
  IF clock >= next_clock THEN clock + 1 ELSE next_clock

\* _update, for a real status or none.  The listener that it notifies when save
\* reports a change has a module of its own, Listener.
update_member(ms, name, source, clock, status, metadata) ==
  LET mem   == ms.table[name]
      pend  == Pending(mem, clock, status, metadata)
      saved == save(name, mem, source, pend, ms.next_clock)
  IN  [ms EXCEPT
         !.table[name] = saved,
         !.statuses    = IF Updated(name, source, pend)
                         THEN refresh_statuses(ms, name, saved.status)
                         ELSE @,
         !.next_clock  = Beyond(saved.clock, @)]

\* update: a change the process itself decides on.
update(ms, name, status, metadata) ==
  update_member(ms, name, NoMember, ms.next_clock, status, metadata)

\* apply: a change disseminated by source.
apply(ms, name, source, clock, status, metadata) ==
  update_member(ms, name, source, clock, status, metadata)

\* Members.__init__, for configured peers that are distinct and not local.
InitMembers(local, peers, validity, metadata) ==
  update([local      |-> local,
          next_clock |-> 1,
          non_local  |-> {peers[i] : i \in DOMAIN peers},
          table      |-> [n \in Names |->
                            IF n = local THEN NewMember(TRUE, validity)
                                         ELSE NewMember(FALSE, Fresh)],
          statuses   |-> [st \in Tracked |->
                            IF Has("OFFLINE", st)
                            THEN ShuffleOf(Names, peers)
                            ELSE EmptyShuffle(Names)]],
         local, "ONLINE", metadata)

-----------------------------------------------------------------------------
\* Mutant of get_gossip: it tells of members whose metadata is unknown.
get_gossip_Unknown(ms, target) ==
  {n \in Present(ms) :
     needs_gossip(ms.table[target], n, ms.table[n].clock)}

\* get_gossip(target): the names of the members to gossip about to target.
get_gossip(ms, target) ==
  {n \in Present(ms) :
     /\ n = ms.local \/ ms.table[n].metadata # Unknown
     /\ needs_gossip(ms.table[target], n, ms.table[n].clock)}

\* ack_gossip(member, source, clock), once its assertion has held.
ack_gossip(ms, name, source, clock) ==
  [ms EXCEPT !.table[source].known[name] = clock]

\* The assertion of ack_gossip.
AckAsserted(ms, clock) == clock <= ms.next_clock

-----------------------------------------------------------------------------
\* The number of members find looks for.
NumResults(ms, count, status, exclude) ==
  LET shuffle   == ms.statuses[status]
      remaining == Cardinality(shuffle.vals)
                     - Cardinality(exclude \cap shuffle.vals)
  IN  IF remaining < count THEN remaining ELSE count

\* find(count, status, exclude): every set it can return.  It draws from the
\* list of the shuffle until it has enough different members; where the list
\* has too few it draws forever, and there is no result.
find(ms, count, status, exclude) ==
  {found \in SUBSET Listed(ms.statuses[status]) :
     Cardinality(found) = NumResults(ms, count, status, exclude)}

=============================================================================
