------------------------------ MODULE Members -------------------------------
(***************************************************************************)
(* One Members object under every sequence of calls its users make: the    *)
(* worker (get, update, apply, ack_gossip), the sync tool and the demo     *)
(* (update of the local metadata).  No call awaits anything, so each is    *)
(* one step.  The clocks, statuses and metadata that arrive from other     *)
(* processes are arbitrary.                                                *)
(***************************************************************************)
EXTENDS MembersOps

CONSTANTS Local,       \* the configured local_name
          Peers,       \* the configured peers, a sequence
          Validities,  \* the validities seen in packets
          AckClocks,   \* the clocks of the GossipAck packets received
          MaxClock     \* bound: no call that would take a clock beyond it

ASSUME LocalAssumption ==
  /\ Local \in Names
  /\ Peers \in Seq(Names \ {Local})
  /\ \A i, j \in DOMAIN Peers : Peers[i] = Peers[j] => i = j
ASSUME InputAssumption ==
  /\ Metadata # {}
  /\ Validities \subseteq Nat
  /\ AckClocks \subseteq Nat
  /\ MaxClock \in Nat

VARIABLE members  \* the Members object
vars == <<members>>

Init ==
  \E md \in Metadata : members = InitMembers(Local, Peers, 1, md)

-----------------------------------------------------------------------------
Get(name, validity) == members' = get(members, name, validity)

\* Members.update.  Callers pass real statuses only, and new metadata only for
\* the local member.
Update(name, status, metadata) ==
  /\ name \in Present(members)
  /\ metadata # Unknown => name = Local
  /\ members.next_clock <= MaxClock
  /\ members' = update(members, name, status, metadata)

Apply(name, source, clock, status, metadata) ==
  /\ name \in Present(members)
  /\ source \in members.non_local
  /\ members.next_clock <= MaxClock
  /\ members' = apply(members, name, source, clock, status, metadata)

AckGossip(name, source, clock) ==
  /\ name \in Present(members)
  /\ source \in members.non_local
  /\ AckAsserted(members, clock)
  /\ members' = ack_gossip(members, name, source, clock)

Next ==
  \/ \E name \in Names, v \in Validities \cup {NoValidity} : Get(name, v)
  \/ \E name \in Names, st \in RealStatus \cup {NoStatus},
        md \in Metadata \cup {Unknown} : Update(name, st, md)
  \/ \E name, source \in Names, clock \in 1..MaxClock, st \in RealStatus,
        md \in Metadata : Apply(name, source, clock, st, md)
  \/ \E name, source \in Names, clock \in AckClocks :
        AckGossip(name, source, clock)

Spec == Init /\ [][Next]_vars

-----------------------------------------------------------------------------
\* The Members object has the shape of its class, and exactly the local Member
\* is marked local.
TypeOK ==
  /\ members \in MembersType(Local)
  /\ \A n \in Names : members.table[n].local <=> n = Local

\* _next_clock is ahead of the clock of every member, whoever changed it: an
\* update the process makes itself is never mistaken for an old one.
LamportAhead ==
  \A n \in Names : members.table[n].clock < members.next_clock

\* The set view of every shuffle in _statuses is what the statuses of the
\* non-local members say: get_status(AVAILABLE) lists a member exactly as
\* long as it is ONLINE or SUSPECT.
IndexAgrees ==
  \A st \in Tracked : members.statuses[st].vals =
      {n \in members.non_local : Has(members.table[n].status, st)}

\* A call of find for one member, the only kind that the worker makes under
\* the default configuration, always returns.
FindOneReturns ==
  \A st \in Tracked, n \in members.non_local :
    find(members, 1, st, {n}) # {}

\* No call takes a clock back, neither a member's nor the process's own.
ClockMonotonic ==
  [][ /\ members'.next_clock >= members.next_clock
      /\ \A n \in Names :
           members'.table[n].clock >= members.table[n].clock ]_vars

\* A member is never declared OFFLINE without having been SUSPECT, and what
\* is OFFLINE is not SUSPECT again before it was ONLINE, whichever mixture of
\* local updates and gossip moves it.
StatusPath ==
  [][ \A n \in Names :
        LET old == members.table[n].status
            new == members'.table[n].status
        IN  <<old, new>> \notin {<<"ONLINE", "OFFLINE">>,
                                 <<"OFFLINE", "SUSPECT">>} ]_vars

\* Whatever changes the local member, a call of the application or gossip to
\* be refuted, gives it a clock that no member had before: the process's word
\* about itself supersedes everything it has heard and kept.
LocalChangeIsNewest ==
  [][ members'.table[Local] # members.table[Local] =>
        \A n \in Names :
          members.table[n].clock < members'.table[Local].clock ]_vars

\* A packet with a new validity means a new process under an old name: from
\* then on everything the process can tell is gossip for it again, whatever the
\* one before it had acknowledged (members.py:264, "a full resynchronize").
ResyncGossipsAll ==
  [][ \A t \in Names :
        members'.table[t].validity # members.table[t].validity =>
          get_gossip(members', t) =
            {n \in Present(members') :
               n = Local \/ members'.table[n].metadata # Unknown} ]_vars

=============================================================================
