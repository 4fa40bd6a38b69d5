-------------------------- MODULE ClusterTheorems ---------------------------
(***************************************************************************)
(* The inductive invariant of the cluster, for any finite set of names,    *)
(* and what a change of one process's table does to it.                    *)
(***************************************************************************)
EXTENDS Cluster, MembersTheorems

\* Nobody has started twice.
Once == \A n \in Names : inc[n] <= 1

\* The histories and the flags of the processes.
Histories ==
  /\ up \in [Names -> BOOLEAN] /\ inc \in [Names -> Nat]
  /\ updates \in Nat /\ faults \in Nat /\ premature \in Nat
  /\ published \in [Names -> SUBSET Metadata]
  /\ acked \subseteq Names \X Nat \X Names \X Nat

\* Every process has a proper Members object, in which it knows its own
\* incarnation and its own metadata.
Tables ==
  /\ DOMAIN members = Names
  /\ \A n \in Names :
       LET own == members[n].table[n]
       IN  /\ TableInv(n, members[n])
           /\ own.validity = inc[n]
           /\ own.metadata # Unknown
           /\ up[n] => inc[n] > 0
           /\ updates = 0 => /\ own.metadata = LocalMetadata[n]
                             /\ published[n] \subseteq {own.metadata}

\* What n may believe of m: an incarnation there has been, metadata that m
\* published, no status but OFFLINE of what has never run, and what m has
\* acknowledged.  Of the present m, who has acknowledged n itself, n may
\* believe that it holds metadata of n.
Belief(n, m) ==
  LET mem == members[n].table[m]
  IN  /\ m # n => mem.validity \in 0..inc[m]
      /\ m # n \/ inc[n] > 0 => mem.metadata \in published[m] \cup {Unknown}
      /\ m # n /\ inc[m] = 0 => mem.status = "OFFLINE"
      /\ \A k \in Names :
           mem.known[k] # NoClock =>
             <<m, mem.validity, k, mem.known[k]>> \in acked
      /\ m # n /\ mem.known[n] # NoClock /\ mem.validity = inc[m] =>
           members[m].table[n].metadata # Unknown

Beliefs == \A n, m \in Names : Belief(n, m)

\* What a Gossip or a GossipAck in flight tells is true, and stays so: the
\* clock of a Gossip is one that its source has passed, and a GossipAck answers
\* what its destination has sent, unless that has started again.
GossipOK(p) ==
  /\ p.to # p.source
  /\ p.metadata \in published[p.name]
  /\ p.status # "OFFLINE" => inc[p.name] > 0
  /\ Once => p.clock < members[p.source].next_clock

GossipAckOK(p) ==
  /\ p.to # p.source
  /\ inc[p.to] > 0
  /\ <<p.source, p.validity, p.name, p.clock>> \in acked
  /\ Once => p.clock < members[p.to].next_clock
  /\ p.name = p.to /\ p.validity = inc[p.source] =>
       members[p.source].table[p.to].metadata # Unknown

PacketOK(p) ==
  /\ p \in Packet
  /\ p.validity \in 1..inc[p.source]
  /\ p.type = "Gossip" => GossipOK(p)
  /\ p.type = "GossipAck" => GossipAckOK(p)

Wire == \A p \in network : PacketOK(p)

\* A check in progress is of another member that is in the table, and is
\* answered only by what has run.
CheckOK(n, c) ==
  /\ c \in CheckType
  /\ c.pc # "idle" => c.target \in members[n].non_local
  /\ c.acked => c.pc # "idle" /\ inc[c.target] > 0

Checks ==
  /\ checks \in [Names -> [Slots -> CheckType]]
  /\ \A n \in Names, i \in Slots : CheckOK(n, checks[n][i])

\* A suspicion timer is of a member in the table.
Timers ==
  /\ suspect \in [Names -> SUBSET Names]
  /\ \A n \in Names : suspect[n] \subseteq Present(members[n])

\* The target of a disseminate is another member in the table.
Targets ==
  /\ gossiping \in [Names -> Names \cup {NoMember}]
  /\ \A n \in Names :
       gossiping[n] # NoMember => gossiping[n] \in members[n].non_local

\* The handlers live as long as nobody has started twice.
Handlers ==
  /\ listening \in [Names -> [Names -> SUBSET Names]]
  /\ handling \in [Names -> BOOLEAN]
  /\ Once => \A n \in Names : handling[n]

Tasks == Checks /\ Timers /\ Targets /\ Handlers

Inv == Histories /\ Tables /\ Beliefs /\ Wire /\ Tasks

-----------------------------------------------------------------------------
(***************************************************************************)
(* What a step may do to the table ms of the process n, given the metadata *)
(* published and the acknowledgements made (pub, ack) when it is done.     *)
(***************************************************************************)

\* The Member of m in the table of n, before and after.
Moved(n, m, old, new, pub, ack) ==
  /\ \/ new.validity = old.validity
     \/ m # n /\ new.validity \in 1..inc[m]
  /\ \/ new.metadata = old.metadata
     \/ new.metadata # Unknown /\ new.metadata \in pub[m]
  /\ \/ new.status = old.status
     \/ new.status = "ONLINE" /\ m # n /\ inc[m] > 0
     \/ old.status = "ONLINE" /\ new.status = "SUSPECT"
     \/ old.status = "SUSPECT" /\ new.status = "OFFLINE"
  /\ \A k \in Names :
       \/ new.known[k] = NoClock
       \/ new.validity = old.validity /\ new.known[k] = old.known[k]
       \/ /\ m # n
          /\ <<m, new.validity, k, new.known[k]>> \in ack
          /\ k = n /\ new.validity = inc[m] =>
               members[m].table[n].metadata # Unknown

Moves(n, ms, t, pub, ack) ==
  /\ TableInv(n, t)
  /\ t.next_clock >= ms.next_clock
  /\ ms.non_local \subseteq t.non_local
  /\ \A m \in Names : Moved(n, m, ms.table[m], t.table[m], pub, ack)
  /\ \A m, k \in Names : t.table[m].status # ms.table[m].status
                           /\ t.table[k].status # ms.table[k].status => m = k

\* A Member that stays as it is.
LEMMA MovedSame ==
  ASSUME NEW n, NEW m, NEW old, NEW pub, NEW ack
  PROVE  Moved(n, m, old, old, pub, ack)
  BY DEF Moved

\* get touches no status and no metadata, and nothing without a validity.
LEMMA GetKeeps ==
  ASSUME NEW n \in Names, NEW ms, TableInv(n, ms),
         NEW name \in Names, NEW validity \in Nat \cup {NoValidity}
  PROVE  LET t == get(ms, name, validity)
         IN  /\ TableInv(n, t)
             /\ t.next_clock = ms.next_clock
             /\ ms.non_local \subseteq t.non_local
             /\ name \in Present(t)
             /\ \A m \in Names :
                  /\ t.table[m].status = ms.table[m].status
                  /\ t.table[m].metadata = ms.table[m].metadata
             /\ name # n /\ validity # NoValidity =>
                  t.table[name].validity = validity
             /\ name = n \/ validity = NoValidity =>
                  \A m \in Names : t.table[m] = ms.table[m]
<1> DEFINE t == get(ms, name, validity)
<1>1. /\ TableInv(n, t) /\ ms.non_local \subseteq t.non_local
      /\ name \in Present(t)
  BY GetAdvances DEF Advance
<1>2. /\ t.next_clock = ms.next_clock
      /\ \A m \in Names : m # name => t.table[m] = ms.table[m]
      /\ t.table[name].status = ms.table[name].status
      /\ t.table[name].metadata = ms.table[name].metadata
      /\ \/ t.table[name] = ms.table[name]
         \/ name # n /\ validity # NoValidity
      /\ name # n /\ validity # NoValidity =>
           t.table[name].validity = validity
  BY GetEffect
<1> HIDE DEF t
<1> QED
  BY <1>1, <1>2 DEF t

\* get moves the table.
LEMMA GetMoves ==
  ASSUME NEW n \in Names, NEW ms, TableInv(n, ms), NEW pub, NEW ack,
         NEW name \in Names, NEW validity \in Nat \cup {NoValidity},
         validity = NoValidity \/ validity \in 1..inc[name]
  PROVE  Moves(n, ms, get(ms, name, validity), pub, ack)
<1> DEFINE t == get(ms, name, validity)
<1>1. /\ TableInv(n, t) /\ ms.non_local \subseteq t.non_local
      /\ t.next_clock = ms.next_clock
      /\ \A m \in Names : t.table[m].status = ms.table[m].status
  BY GetKeeps
<1>2. /\ \A m \in Names : m # name => t.table[m] = ms.table[m]
      /\ t.table[name].status = ms.table[name].status
      /\ t.table[name].metadata = ms.table[name].metadata
      /\ \/ t.table[name] = ms.table[name]
         \/ /\ name # n /\ validity # NoValidity
            /\ t.table[name].validity = validity
            /\ t.table[name].known = [k \in Names |-> NoClock]
  BY GetEffect
<1> HIDE DEF t
<1>3. ms.next_clock \in Nat
  BY DEF TableInv, MembersType
<1>4. Moved(n, name, ms.table[name], t.table[name], pub, ack)
  <2>1. CASE t.table[name] = ms.table[name]
    BY <2>1, MovedSame
  <2>2. CASE /\ name # n /\ validity # NoValidity
             /\ t.table[name].validity = validity
             /\ t.table[name].known = [k \in Names |-> NoClock]
    BY <1>2, <2>2 DEF Moved
  <2> QED
    BY <1>2, <2>1, <2>2
<1>5. ASSUME NEW m \in Names
      PROVE  Moved(n, m, ms.table[m], t.table[m], pub, ack)
  <2>1. CASE m = name
    BY <1>4, <2>1
  <2>2. CASE m # name
    BY <1>2, <2>2, MovedSame
  <2> QED
    BY <2>1, <2>2
<1> QED
  BY <1>1, <1>3, <1>5 DEF Moves, t

\* A step after one that touches no status.
LEMMA MovesTwice ==
  ASSUME NEW n \in Names, NEW ms, NEW t, NEW u, NEW pub, NEW ack,
         TableInv(n, ms), Moves(n, ms, t, pub, ack), Moves(n, t, u, pub, ack),
         \A m \in Names : t.table[m].status = ms.table[m].status
  PROVE  Moves(n, ms, u, pub, ack)
<1>1. /\ ms.next_clock \in Nat /\ t.next_clock \in Nat /\ u.next_clock \in Nat
      /\ TableInv(n, u)
  BY DEF Moves, TableInv, MembersType
<1>2. ASSUME NEW m \in Names
      PROVE  Moved(n, m, ms.table[m], u.table[m], pub, ack)
  <2>1. /\ Moved(n, m, ms.table[m], t.table[m], pub, ack)
        /\ Moved(n, m, t.table[m], u.table[m], pub, ack)
        /\ t.table[m].status = ms.table[m].status
    BY DEF Moves
  <2> QED
    BY <2>1 DEF Moved
<1> QED
  BY <1>1, <1>2 DEF Moves

\* _update moves the table, given what the caller knows: metadata that was
\* published, and ONLINE only for another member that has run.
LEMMA UpdateMoves ==
  ASSUME NEW n \in Names, NEW ms, TableInv(n, ms), NEW pub, NEW ack,
         NEW name \in Present(ms), NEW source, NEW clock \in Nat,
         NEW status \in StatusArg, NEW metadata \in MetadataArg,
         source # NoMember \/ clock = ms.next_clock,
         name # n \/ source = NoMember =>
           /\ metadata # Unknown => metadata \in pub[name]
           /\ status = "ONLINE" => name # n /\ inc[name] > 0
  PROVE  Moves(n, ms,
               update_member(ms, name, source, clock, status, metadata),
               pub, ack)
<1> DEFINE t == update_member(ms, name, source, clock, status, metadata)
<1>1. name \in Names
  BY DEF TableInv, MembersType, Present
<1>2. /\ TableInv(n, t) /\ t.next_clock >= ms.next_clock
  BY UpdateAdvances DEF Advance
<1>3. /\ t.non_local = ms.non_local
      /\ \A m \in Names : m # name => t.table[m] = ms.table[m]
      /\ t.table[name].validity = ms.table[name].validity
      /\ t.table[name].known = ms.table[name].known
      /\ t.table[name].status # ms.table[name].status =>
           /\ ~(name = n /\ source # NoMember)
           /\ status # NoStatus
           /\ t.table[name].status = transition(ms.table[name].status, status)
      /\ t.table[name].metadata # ms.table[name].metadata =>
           /\ ~(name = n /\ source # NoMember)
           /\ metadata # Unknown /\ t.table[name].metadata = metadata
  BY <1>1, UpdateEffect
<1>4. ms.table[name].status \in RealStatus
  BY <1>1 DEF TableInv, MembersType, MemberState
<1> HIDE DEF t
<1>5. Moved(n, name, ms.table[name], t.table[name], pub, ack)
  <2>1. \/ t.table[name].status = ms.table[name].status
        \/ t.table[name].status = "ONLINE" /\ name # n /\ inc[name] > 0
        \/ ms.table[name].status = "ONLINE" /\ t.table[name].status = "SUSPECT"
        \/ ms.table[name].status = "SUSPECT" /\ t.table[name].status = "OFFLINE"
    BY <1>3, <1>4 DEF transition, StatusArg, RealStatus
  <2> QED
    BY <1>3, <2>1 DEF Moved
<1>6. ASSUME NEW m \in Names
      PROVE  Moved(n, m, ms.table[m], t.table[m], pub, ack)
  <2>1. CASE m = name
    BY <1>5, <2>1
  <2>2. CASE m # name
    BY <1>3, <2>2, MovedSame
  <2> QED
    BY <2>1, <2>2
<1> QED
  BY <1>2, <1>3, <1>6 DEF Moves, t

\* update, which the process calls itself, is such an _update.
LEMMA OwnUpdateMoves ==
  ASSUME NEW n \in Names, NEW ms, TableInv(n, ms), NEW pub, NEW ack,
         NEW name \in Present(ms),
         NEW status \in StatusArg, NEW metadata \in MetadataArg,
         metadata # Unknown => metadata \in pub[name],
         status = "ONLINE" => name # n /\ inc[name] > 0
  PROVE  Moves(n, ms, update(ms, name, status, metadata), pub, ack)
<1>1. ms.next_clock \in Nat
  BY DEF TableInv, MembersType
<1>2. Moves(n, ms, update_member(ms, name, NoMember, ms.next_clock, status,
                                 metadata), pub, ack)
  BY <1>1, UpdateMoves
<1> QED
  BY <1>2 DEF update

\* ack_gossip moves the table, given an acknowledgement that was made.
LEMMA AckMoves ==
  ASSUME NEW n \in Names, NEW ms, TableInv(n, ms), NEW pub, NEW ack,
         NEW name \in Names, NEW source \in ms.non_local, NEW clock \in Nat,
         <<source, ms.table[source].validity, name, clock>> \in ack,
         name = n /\ ms.table[source].validity = inc[source] =>
           members[source].table[n].metadata # Unknown
  PROVE  Moves(n, ms, ack_gossip(ms, name, source, clock), pub, ack)
<1> DEFINE t == ack_gossip(ms, name, source, clock)
<1>1. TableInv(n, t) /\ source \in Names /\ source # n
  <2>1. TableInv(n, t)
    BY AckAdvances DEF Advance
  <2> QED
    BY <2>1 DEF TableInv, MembersType
<1>2. /\ t.next_clock = ms.next_clock /\ t.non_local = ms.non_local
      /\ \A m \in Names : m # source => t.table[m] = ms.table[m]
      /\ t.table[source].status = ms.table[source].status
      /\ t.table[source].metadata = ms.table[source].metadata
      /\ t.table[source].validity = ms.table[source].validity
      /\ \A k \in Names :
           t.table[source].known[k] = IF k = name THEN clock
                                      ELSE ms.table[source].known[k]
  BY <1>1, AckEffect
<1>3. ms.next_clock \in Nat
  BY DEF TableInv, MembersType
<1> HIDE DEF t
<1>4. Moved(n, source, ms.table[source], t.table[source], pub, ack)
  BY <1>1, <1>2 DEF Moved
<1>5. ASSUME NEW m \in Names
      PROVE  /\ Moved(n, m, ms.table[m], t.table[m], pub, ack)
             /\ t.table[m].status = ms.table[m].status
  <2>1. CASE m = source
    BY <1>2, <1>4, <2>1
  <2>2. CASE m # source
    BY <1>2, <2>2, MovedSame
  <2> QED
    BY <2>1, <2>2
<1> QED
  BY <1>1, <1>2, <1>3, <1>5 DEF Moves, t

-----------------------------------------------------------------------------
(***************************************************************************)
(* What the move of one table means for the cluster.                       *)
(***************************************************************************)

\* The fields of a packet.
LEMMA PacketFields ==
  ASSUME NEW p \in Packet
  PROVE  /\ p.to \in Names /\ p.source \in Names /\ p.validity \in Nat
         /\ p.type \in PacketTypes
         /\ p.type = "PingReq" => p.target \in Names
         /\ p.type = "Gossip" =>
              /\ p.name \in Names /\ p.clock \in Nat
              /\ p.status \in RealStatus /\ p.metadata \in Metadata
         /\ p.type = "GossipAck" => p.name \in Names /\ p.clock \in Nat
  BY DEF Packet, Plain, PacketTypes, Validity

\* A step of one process, which moves its table and leaves the incarnations as
\* they are, while the histories grow.
Evolution(n, t) ==
  /\ UNCHANGED <<up, inc>>
  /\ members' = [members EXCEPT ![n] = t]
  /\ Moves(n, members[n], t, published', acked')
  /\ \A m \in Names : published[m] \subseteq published'[m]
  /\ acked \subseteq acked'
  /\ updates' = 0 => updates = 0 /\ published' = published

\* The tables before and after it.
LEMMA EvolutionTable ==
  ASSUME Tables, NEW n \in Names, NEW t, Evolution(n, t), NEW a \in Names
  PROVE  /\ DOMAIN members' = Names
         /\ a = n => members'[a] = t
         /\ a # n => members'[a] = members[a]
         /\ members[a].non_local \subseteq members'[a].non_local
         /\ Present(members[a]) \subseteq Present(members'[a])
         /\ members[a].next_clock \in Nat /\ members'[a].next_clock \in Nat
         /\ members'[a].next_clock >= members[a].next_clock
         /\ \A b \in Names :
              /\ members[a].table[b].metadata # Unknown =>
                   members'[a].table[b].metadata # Unknown
              /\ Moved(a, b, members[a].table[b], members'[a].table[b],
                       published', acked')
<1>1. /\ DOMAIN members' = Names
      /\ a = n => members'[a] = t
      /\ a # n => members'[a] = members[a]
  BY DEF Tables, Evolution
<1>2. /\ TableInv(a, members[a]) /\ TableInv(n, t)
      /\ Moves(n, members[n], t, published', acked')
  BY DEF Tables, Evolution, Moves
<1>3. members[a].next_clock \in Nat /\ members[a].local = a
  BY <1>2 DEF TableInv, MembersType
<1>4. CASE a # n
  BY <1>1, <1>3, <1>4, MovedSame
<1>5. CASE a = n
  <2>1. /\ t.next_clock >= members[n].next_clock
        /\ members[n].non_local \subseteq t.non_local
        /\ \A b \in Names : Moved(n, b, members[n].table[b], t.table[b],
                                  published', acked')
    BY <1>2 DEF Moves
  <2>2. \A b \in Names : members[n].table[b].metadata # Unknown =>
                           t.table[b].metadata # Unknown
    BY <2>1 DEF Moved
  <2>3. t.next_clock \in Nat /\ t.local = n
    BY <1>2 DEF TableInv, MembersType
  <2> QED
    BY <1>1, <1>3, <1>5, <2>1, <2>2, <2>3 DEF Present
<1> QED
  BY <1>4, <1>5

\* The tables stay proper.
LEMMA EvolutionTables ==
  ASSUME Histories, Tables, Beliefs, NEW n \in Names, NEW t, Evolution(n, t)
  PROVE  Tables'
<1>1. DOMAIN members' = Names
  BY EvolutionTable
<1>2. ASSUME NEW a \in Names
      PROVE  /\ TableInv(a, members'[a])
             /\ members'[a].table[a].validity = inc'[a]
             /\ members'[a].table[a].metadata # Unknown
             /\ up'[a] => inc'[a] > 0
             /\ updates' = 0 =>
                  /\ members'[a].table[a].metadata = LocalMetadata[a]
                  /\ published'[a] \subseteq {members'[a].table[a].metadata}
  <2>1. /\ TableInv(a, members[a])
        /\ members[a].table[a].validity = inc[a]
        /\ members[a].table[a].metadata # Unknown
        /\ up[a] => inc[a] > 0
        /\ updates = 0 =>
             /\ members[a].table[a].metadata = LocalMetadata[a]
             /\ published[a] \subseteq {members[a].table[a].metadata}
    BY DEF Tables
  <2>2. /\ up' = up /\ inc' = inc
        /\ updates' = 0 => updates = 0 /\ published' = published
        /\ TableInv(n, t)
    BY DEF Evolution, Moves
  <2>3. /\ a = n => members'[a] = t
        /\ a # n => members'[a] = members[a]
        /\ members'[a].table[a].metadata # Unknown
        /\ Moved(a, a, members[a].table[a], members'[a].table[a],
                 published', acked')
    BY <2>1, EvolutionTable
  <2>4. /\ members'[a].table[a].validity = members[a].table[a].validity
        /\ \/ members'[a].table[a].metadata = members[a].table[a].metadata
           \/ members'[a].table[a].metadata \in published'[a]
    BY <2>3 DEF Moved
  <2> QED
    BY <2>1, <2>2, <2>3, <2>4
<1> QED
  BY <1>1, <1>2 DEF Tables

\* What the processes believe stays true.
LEMMA EvolutionBeliefs ==
  ASSUME Histories, Tables, Beliefs, NEW n \in Names, NEW t, Evolution(n, t)
  PROVE  Beliefs'
<1> SUFFICES ASSUME NEW a \in Names, NEW b \in Names
             PROVE  Belief(a, b)'
  BY DEF Beliefs
<1> DEFINE old == members[a].table[b]
           new == members'[a].table[b]
<1>1. /\ b # a => old.validity \in 0..inc[b]
      /\ b # a \/ inc[a] > 0 => old.metadata \in published[b] \cup {Unknown}
      /\ b # a /\ inc[b] = 0 => old.status = "OFFLINE"
      /\ \A k \in Names : old.known[k] # NoClock =>
                            <<b, old.validity, k, old.known[k]>> \in acked
      /\ b # a /\ old.known[a] # NoClock /\ old.validity = inc[b] =>
           members[b].table[a].metadata # Unknown
  BY DEF Beliefs, Belief
<1>2. Moved(a, b, old, new, published', acked')
  BY EvolutionTable
<1>3. /\ inc' = inc /\ inc[b] \in Nat /\ acked \subseteq acked'
      /\ published[b] \subseteq published'[b]
  BY DEF Evolution, Histories
<1>4. members[b].table[a].metadata # Unknown =>
        members'[b].table[a].metadata # Unknown
  BY EvolutionTable
<1> HIDE DEF old, new
<1>5. /\ b # a => new.validity \in 0..inc[b]
      /\ b # a \/ inc[a] > 0 => new.metadata \in published'[b] \cup {Unknown}
      /\ b # a /\ inc[b] = 0 => new.status = "OFFLINE"
  BY <1>1, <1>2, <1>3 DEF Moved
<1>6. ASSUME NEW k \in Names, new.known[k] # NoClock
      PROVE  <<b, new.validity, k, new.known[k]>> \in acked'
  BY <1>1, <1>2, <1>3, <1>6 DEF Moved
<1>7. ASSUME b # a, new.known[a] # NoClock, new.validity = inc[b]
      PROVE  members'[b].table[a].metadata # Unknown
  BY <1>1, <1>2, <1>4, <1>7 DEF Moved
<1> QED
  BY <1>3, <1>5, <1>6, <1>7 DEF Belief, new

\* What the packets in flight tell stays true.
LEMMA EvolutionPackets ==
  ASSUME Histories, Tables, NEW n \in Names, NEW t, Evolution(n, t),
         NEW p, PacketOK(p)
  PROVE  PacketOK(p)'
<1>1. /\ p \in Packet
      /\ p.validity \in 1..inc[p.source]
      /\ p.type = "Gossip" => GossipOK(p)
      /\ p.type = "GossipAck" => GossipAckOK(p)
  BY DEF PacketOK
<1>2. inc' = inc /\ acked \subseteq acked'
  BY DEF Evolution
<1>3. \A m \in Names : published[m] \subseteq published'[m]
  BY DEF Evolution
<1>4. p.to \in Names /\ p.source \in Names
  BY <1>1, PacketFields
<1>5. /\ members[p.source].next_clock \in Nat
      /\ members'[p.source].next_clock \in Nat
      /\ members'[p.source].next_clock >= members[p.source].next_clock
      /\ members[p.to].next_clock \in Nat
      /\ members'[p.to].next_clock \in Nat
      /\ members'[p.to].next_clock >= members[p.to].next_clock
      /\ members[p.source].table[p.to].metadata # Unknown =>
           members'[p.source].table[p.to].metadata # Unknown
  BY <1>4, EvolutionTable
<1>6. Once' <=> Once
  BY <1>2 DEF Once
<1>7. p.type = "Gossip" => GossipOK(p)'
  <2> HAVE p.type = "Gossip"
  <2>1. GossipOK(p) /\ p.name \in Names /\ p.clock \in Nat
    BY <1>1, PacketFields
  <2> QED
    BY <1>2, <1>3, <1>5, <1>6, <2>1 DEF GossipOK
<1>8. p.type = "GossipAck" => GossipAckOK(p)'
  <2> HAVE p.type = "GossipAck"
  <2>1. GossipAckOK(p) /\ p.name \in Names /\ p.clock \in Nat
    BY <1>1, PacketFields
  <2> QED
    BY <1>2, <1>5, <1>6, <2>1 DEF GossipAckOK
<1> QED
  BY <1>1, <1>2, <1>7, <1>8 DEF PacketOK

\* The tasks of the processes only need the tables to grow.
Later ==
  /\ inc' = inc
  /\ \A a \in Names : /\ members[a].non_local \subseteq members'[a].non_local
                      /\ Present(members[a]) \subseteq Present(members'[a])

LEMMA EvolutionLater ==
  ASSUME Tables, NEW n \in Names, NEW t, Evolution(n, t)
  PROVE  Later
<1>1. inc' = inc
  BY DEF Evolution
<1>2. \A a \in Names : /\ members[a].non_local \subseteq members'[a].non_local
                       /\ Present(members[a]) \subseteq Present(members'[a])
  BY EvolutionTable
<1> QED
  BY <1>1, <1>2 DEF Later

LEMMA CheckLater ==
  ASSUME Later, NEW n \in Names, NEW c, CheckOK(n, c)
  PROVE  CheckOK(n, c)'
  BY DEF Later, CheckOK

\* The tasks that a step does not touch stay in order.
LEMMA TasksLater ==
  ASSUME Later
  PROVE  /\ Checks /\ UNCHANGED checks => Checks'
         /\ Timers /\ UNCHANGED suspect => Timers'
         /\ Targets /\ UNCHANGED gossiping => Targets'
         /\ Handlers /\ UNCHANGED <<listening, handling>> => Handlers'
<1>1. Checks /\ UNCHANGED checks => Checks'
  BY CheckLater DEF Checks
<1>2. Timers /\ UNCHANGED suspect => Timers'
  BY DEF Timers, Later
<1>3. Targets /\ UNCHANGED gossiping => Targets'
  BY DEF Targets, Later
<1>4. Handlers /\ UNCHANGED <<listening, handling>> => Handlers'
  BY DEF Handlers, Later, Once
<1> QED
  BY <1>1, <1>2, <1>3, <1>4

\* A step that leaves the tables and the histories alone, and starts nobody.
Quiet ==
  /\ UNCHANGED <<inc, members, published, acked, updates>>
  /\ \A a \in Names : up'[a] => up[a]

LEMMA QuietKeeps ==
  ASSUME Quiet, Tables, Beliefs
  PROVE  /\ Tables' /\ Beliefs' /\ Later
         /\ \A p : PacketOK(p) => PacketOK(p)'
<1>1. Tables'
  BY DEF Quiet, Tables
<1>2. Beliefs'
  BY DEF Quiet, Beliefs, Belief
<1>3. Later
  BY DEF Quiet, Later
<1>4. ASSUME NEW p, PacketOK(p) PROVE PacketOK(p)'
  BY <1>4 DEF Quiet, PacketOK, GossipOK, GossipAckOK, Once
<1> QED
  BY <1>1, <1>2, <1>3, <1>4

\* What find returns are other members in the table.
LEMMA FindOthers ==
  ASSUME NEW n \in Names, NEW ms, TableInv(n, ms), NEW count,
         NEW st \in Tracked, NEW exclude,
         NEW found \in find(ms, count, st, exclude)
  PROVE  found \subseteq ms.non_local /\ found \subseteq Names
<1>1. found \subseteq Listed(ms.statuses[st])
  BY DEF find
<1> QED
  BY <1>1 DEF TableInv, MembersType

=============================================================================
