--------------------------- MODULE ClusterProofs ----------------------------
(***************************************************************************)
(* The safety properties of the cluster, for any finite set of processes,  *)
(* any number of checks in progress, and any number of restarts, updates,  *)
(* lost, repeated and delayed packets: the bounds of the model are         *)
(* arbitrary natural numbers here.                                         *)
(***************************************************************************)
EXTENDS ClusterTheorems

\* What a step other than a start or a stop does to the tables: nothing, or it
\* moves that of one running process.
Effect ==
  \/ UNCHANGED <<up, inc, members>>
  \/ \E n \in Names : up[n] /\ Evolution(n, members'[n])

LEMMA QuietInv ==
  ASSUME Inv, Quiet, UNCHANGED up, Histories', Wire', Tasks'
  PROVE  Inv' /\ Effect
<1>1. Tables' /\ Beliefs'
  BY QuietKeeps DEF Inv
<1>2. Effect
  BY DEF Quiet, Effect
<1> QED
  BY <1>1, <1>2 DEF Inv

LEMMA EvolutionInv ==
  ASSUME Inv, NEW n \in Names, NEW t, up[n], Evolution(n, t),
         Histories', Wire', Tasks'
  PROVE  Inv' /\ Effect
<1>1. Tables' /\ Beliefs'
  BY EvolutionTables, EvolutionBeliefs DEF Inv
<1>2. members'[n] = t
  BY EvolutionTable DEF Inv
<1>3. Effect
  BY <1>2 DEF Effect
<1> QED
  BY <1>1, <1>3 DEF Inv

\* The packets by which a running process speaks of itself.
LEMMA OwnPackets ==
  ASSUME Histories, Tables, NEW n \in Names, up[n], NEW to \in Names,
         NEW target \in Names
  PROVE  /\ PacketOK(Ping(to, n, OwnValidity(n)))
         /\ PacketOK(PingReq(to, n, OwnValidity(n), target))
         /\ PacketOK(Ack(to, n, OwnValidity(n)))
<1>1. OwnValidity(n) = inc[n] /\ inc[n] \in Nat /\ inc[n] > 0
  BY DEF Histories, Tables, OwnValidity
<1>2. OwnValidity(n) \in Validity /\ OwnValidity(n) \in 1..inc[n]
  BY <1>1 DEF Validity
<1> HIDE DEF OwnValidity
<1> QED
  BY <1>2 DEF PacketOK, Packet, Plain, Ping, PingReq, Ack, OwnValidity

\* One check is replaced by another.
LEMMA CheckSet ==
  ASSUME Checks, Later, NEW n \in Names, NEW i \in Slots, NEW c,
         CheckOK(n, c)', checks' = [checks EXCEPT ![n][i] = c]
  PROVE  Checks'
<1>1. c \in CheckType
  BY DEF CheckOK
<1>2. checks' \in [Names -> [Slots -> CheckType]]
  BY <1>1 DEF Checks
<1>3. ASSUME NEW a \in Names, NEW j \in Slots
      PROVE  CheckOK(a, checks[a][j])'
  <2>1. CASE a = n /\ j = i
    BY <2>1 DEF Checks
  <2>2. CASE ~(a = n /\ j = i)
    <3>1. checks'[a][j] = checks[a][j]
      BY <2>2 DEF Checks
    <3> QED
      BY <3>1, CheckLater DEF Checks
  <2> QED
    BY <2>1, <2>2
<1> QED
  BY <1>2, <1>3 DEF Checks

\* An idle slot is in order.
LEMMA IdleOK ==
  ASSUME NEW n
  PROVE  CheckOK(n, Idle)
  BY DEF CheckOK, Idle, CheckType

-----------------------------------------------------------------------------
(***************************************************************************)
(* Failure detection.                                                      *)
(***************************************************************************)
LEMMA CheckStartInv ==
  ASSUME Inv, NEW n \in Names, NEW i \in Slots, NEW t, CheckStart(n, i, t),
         UNCHANGED envVars
  PROVE  Inv' /\ Effect
<1>1. Quiet /\ UNCHANGED up
  BY DEF CheckStart, envVars, Quiet
<1>2. t \in members[n].non_local /\ t \in Names
  BY WorkerAssumption, FindOthers DEF CheckStart, Inv, Tables
<1>3. Later /\ \A p : PacketOK(p) => PacketOK(p)'
  BY <1>1, QuietKeeps DEF Inv
<1>4. Wire'
  <2>1. PacketOK(Ping(t, n, OwnValidity(n)))
    BY <1>2, OwnPackets DEF Inv, CheckStart
  <2> QED
    BY <1>3, <2>1 DEF Wire, Inv, CheckStart
<1>5. Checks'
  <2> DEFINE c == [Idle EXCEPT !.pc = "ping", !.target = t]
  <2>1. c.pc = "ping" /\ c.target = t /\ ~c.acked /\ c \in CheckType
    BY <1>2 DEF Idle, CheckType
  <2>2. checks' = [checks EXCEPT ![n][i] = c]
    BY DEF CheckStart
  <2> HIDE DEF c
  <2>3. CheckOK(n, c)
    BY <1>2, <2>1 DEF CheckOK
  <2> QED
    BY <1>3, <2>2, <2>3, CheckLater, CheckSet DEF Inv, Tasks
<1>6. Tasks'
  BY <1>3, <1>5, TasksLater DEF Inv, Tasks, CheckStart
<1>7. Histories'
  BY DEF CheckStart, Expire, envVars, Inv, Histories
<1> QED
  BY <1>1, <1>4, <1>6, <1>7, QuietInv

\* The end of a check moves the table of the process; ONLINE is concluded only
\* of what has answered.
LEMMA ConcludeMoves ==
  ASSUME Inv, NEW n \in Names, NEW i \in Slots, NEW status \in RealStatus,
         checks[n][i].pc # "idle", status = "ONLINE" => checks[n][i].acked,
         Conclude(n, i, status), UNCHANGED <<up, envVars>>
  PROVE  Evolution(n, members'[n]) /\ Checks' /\ Timers'
<1> DEFINE t == checks[n][i].target
           u == update(members[n], t, status, Unknown)
<1>1. /\ CheckOK(n, checks[n][i])
      /\ TableInv(n, members[n])
  BY DEF Inv, Tasks, Checks, Tables
<1>2. /\ t \in members[n].non_local /\ t \in Present(members[n])
      /\ t \in Names /\ t # n
      /\ status = "ONLINE" => inc[t] > 0
  BY <1>1 DEF CheckOK, TableInv, MembersType, Present
<1>3. Moves(n, members[n], u, published, acked)
  <2> HIDE DEF t
  <2>1. status \in StatusArg /\ Unknown \in MetadataArg
    BY DEF StatusArg, MetadataArg
  <2> QED
    BY <1>1, <1>2, <2>1, OwnUpdateMoves
<1> HIDE DEF u
<1>4. members' = [members EXCEPT ![n] = u]
  BY DEF Conclude, u
<1>5. Evolution(n, u)
  BY <1>3, <1>4 DEF Evolution, envVars
<1>6. members'[n] = u /\ Later
  BY <1>5, EvolutionTable, EvolutionLater DEF Inv
<1>7. Checks'
  <2>1. CheckOK(n, Idle)'
    BY <1>6, IdleOK, CheckLater
  <2> QED
    BY <1>6, <2>1, CheckSet DEF Conclude, Inv, Tasks
<1>8. Timers'
  <2>1. suspect' = [suspect EXCEPT ![n] = handle_status(suspect[n], t, status)]
    BY DEF Conclude
  <2> HIDE DEF t
  <2>2. handle_status(suspect[n], t, status) \subseteq suspect[n] \cup {t}
    BY DEF handle_status
  <2>3. Timers
    BY DEF Inv, Tasks
  <2>4. \A a \in Names : suspect'[a] \subseteq Present(members[a])
    BY <1>2, <2>1, <2>2, <2>3 DEF Timers
  <2>5. suspect' \in [Names -> SUBSET Names]
    BY <1>2, <2>1, <2>2, <2>3 DEF Timers
  <2> QED
    BY <1>6, <2>4, <2>5 DEF Timers, Later
<1> QED
  BY <1>5, <1>6, <1>7, <1>8

\* A step that moves the table of n and sends nothing.
LEMMA SilentInv ==
  ASSUME Inv, NEW n \in Names, up[n], Evolution(n, members'[n]),
         network' \subseteq network, Checks', Timers', Histories',
         UNCHANGED <<listening, gossiping, handling>>
  PROVE  Inv' /\ Effect
<1>1. Later /\ \A p : PacketOK(p) => PacketOK(p)'
  BY EvolutionLater, EvolutionPackets DEF Inv
<1>2. Wire'
  BY <1>1 DEF Inv, Wire
<1>3. Tasks'
  BY <1>1, TasksLater DEF Inv, Tasks
<1> QED
  BY <1>2, <1>3, EvolutionInv

LEMMA CheckAckedInv ==
  ASSUME Inv, NEW n \in Names, NEW i \in Slots, CheckAcked(n, i),
         UNCHANGED envVars
  PROVE  Inv' /\ Effect
<1>1. /\ checks[n][i].pc # "idle" /\ checks[n][i].acked
      /\ Conclude(n, i, "ONLINE") /\ "ONLINE" \in RealStatus
  BY DEF CheckAcked, Waiting, RealStatus
<1>2. Evolution(n, members'[n]) /\ Checks' /\ Timers'
  BY <1>1, ConcludeMoves DEF CheckAcked
<1>3. Histories'
  BY DEF Inv, Histories, CheckAcked, envVars
<1> QED
  BY <1>2, <1>3, SilentInv DEF CheckAcked

LEMMA PingReqTimeoutInv ==
  ASSUME Inv, NEW n \in Names, NEW i \in Slots, PingReqTimeout(n, i),
         UNCHANGED envVars
  PROVE  Inv' /\ Effect
<1>1. /\ checks[n][i].pc # "idle"
      /\ Conclude(n, i, "SUSPECT") /\ "SUSPECT" \in RealStatus
  BY DEF PingReqTimeout, RealStatus
<1>2. Evolution(n, members'[n]) /\ Checks' /\ Timers'
  BY <1>1, ConcludeMoves DEF PingReqTimeout
<1>3. Histories'
  BY DEF Inv, Histories, PingReqTimeout, Expire, envVars
<1> QED
  BY <1>2, <1>3, SilentInv DEF PingReqTimeout

LEMMA PingTimeoutInv ==
  ASSUME Inv, NEW n \in Names, NEW i \in Slots, PingTimeout(n, i),
         UNCHANGED envVars
  PROVE  Inv' /\ Effect
<1>1. Histories'
  BY DEF Inv, Histories, PingTimeout, Expire, envVars
<1>2. PICK found \in find(members[n], PingReqCount, "AVAILABLE",
                          {checks[n][i].target}) :
        \/ /\ checks' = [checks EXCEPT ![n][i].pc = "send",
                                       ![n][i].indirects = found]
           /\ UNCHANGED <<members, suspect>>
        \/ Conclude(n, i, "SUSPECT")
  BY DEF PingTimeout
<1>3. CASE /\ checks' = [checks EXCEPT ![n][i].pc = "send",
                                       ![n][i].indirects = found]
           /\ UNCHANGED <<members, suspect>>
  <2>1. Quiet /\ UNCHANGED up
    BY <1>3 DEF PingTimeout, envVars, Quiet
  <2>2. Later /\ \A p : PacketOK(p) => PacketOK(p)'
    BY <2>1, QuietKeeps DEF Inv
  <2>3. found \subseteq Names
    BY WorkerAssumption, FindOthers DEF Inv, Tables
  <2>4. Checks'
    <3> PICK c : c = [checks[n][i] EXCEPT !.pc = "send", !.indirects = found]
      OBVIOUS
    <3>1. Checks /\ CheckOK(n, checks[n][i]) /\ checks[n][i] \in CheckType
      BY DEF Inv, Tasks, Checks
    <3>2. checks' = [checks EXCEPT ![n][i] = c]
      BY <1>3, <3>1 DEF Checks
    <3>3. /\ c \in CheckType /\ c.pc = "send"
          /\ c.target = checks[n][i].target /\ c.acked = checks[n][i].acked
      BY <2>3, <3>1 DEF CheckType
    <3>4. CheckOK(n, c)
      BY <3>1, <3>3 DEF CheckOK, PingTimeout
    <3> QED
      BY <2>2, <3>1, <3>2, <3>4, CheckLater, CheckSet
  <2>5. Tasks'
    BY <1>3, <2>2, <2>4, TasksLater DEF Inv, Tasks, PingTimeout
  <2>6. Wire'
    BY <2>2 DEF Inv, Wire, PingTimeout
  <2> QED
    BY <1>1, <2>1, <2>5, <2>6, QuietInv
<1>4. CASE Conclude(n, i, "SUSPECT")
  <2>1. checks[n][i].pc # "idle" /\ "SUSPECT" \in RealStatus
    BY DEF PingTimeout, RealStatus
  <2>2. Evolution(n, members'[n]) /\ Checks' /\ Timers'
    BY <1>4, <2>1, ConcludeMoves DEF PingTimeout
  <2> QED
    BY <1>1, <2>2, SilentInv DEF PingTimeout
<1> QED
  BY <1>2, <1>3, <1>4

LEMMA SendPingReqsInv ==
  ASSUME Inv, NEW n \in Names, NEW i \in Slots, SendPingReqs(n, i),
         UNCHANGED envVars
  PROVE  Inv' /\ Effect
<1>1. Quiet /\ UNCHANGED up
  BY DEF SendPingReqs, envVars, Quiet
<1>2. Later /\ \A p : PacketOK(p) => PacketOK(p)'
  BY <1>1, QuietKeeps DEF Inv
<1>3. /\ Checks /\ CheckOK(n, checks[n][i]) /\ checks[n][i] \in CheckType
      /\ TableInv(n, members[n])
  BY DEF Inv, Tasks, Checks, Tables
<1>4. Wire'
  <2>1. checks[n][i].target \in Names /\ checks[n][i].indirects \subseteq Names
    BY <1>3 DEF SendPingReqs, CheckOK, CheckType, TableInv, MembersType
  <2>2. \A m \in checks[n][i].indirects :
          PacketOK(PingReq(m, n, OwnValidity(n), checks[n][i].target))
    BY <2>1, OwnPackets DEF Inv, SendPingReqs
  <2> QED
    BY <1>2, <2>2 DEF Wire, Inv, SendPingReqs
<1>5. Checks'
  <2> PICK c : c = [checks[n][i] EXCEPT !.pc = "sent"]
    OBVIOUS
  <2>1. checks' = [checks EXCEPT ![n][i] = c]
    BY <1>3 DEF Checks, SendPingReqs
  <2>2. /\ c \in CheckType /\ c.pc = "sent"
        /\ c.target = checks[n][i].target /\ c.acked = checks[n][i].acked
    BY <1>3 DEF CheckType
  <2>3. CheckOK(n, c)
    BY <1>3, <2>2 DEF CheckOK, SendPingReqs
  <2> QED
    BY <1>2, <1>3, <2>1, <2>3, CheckLater, CheckSet
<1>6. Tasks'
  BY <1>2, <1>5, TasksLater DEF Inv, Tasks, SendPingReqs
<1>7. Histories'
  BY DEF SendPingReqs, envVars, Inv, Histories
<1> QED
  BY <1>1, <1>4, <1>6, <1>7, QuietInv

LEMMA AwaitPingReqInv ==
  ASSUME Inv, NEW n \in Names, NEW i \in Slots, AwaitPingReq(n, i),
         UNCHANGED envVars
  PROVE  Inv' /\ Effect
<1>1. Quiet /\ UNCHANGED up
  BY DEF AwaitPingReq, envVars, Quiet
<1>2. Later /\ \A p : PacketOK(p) => PacketOK(p)'
  BY <1>1, QuietKeeps DEF Inv
<1>3. Checks'
  <2> PICK c : c = [checks[n][i] EXCEPT !.pc = "req"]
    OBVIOUS
  <2>1. Checks /\ CheckOK(n, checks[n][i]) /\ checks[n][i] \in CheckType
    BY DEF Inv, Tasks, Checks
  <2>2. checks' = [checks EXCEPT ![n][i] = c]
    BY <2>1 DEF Checks, AwaitPingReq
  <2>3. /\ c \in CheckType /\ c.pc = "req"
        /\ c.target = checks[n][i].target /\ c.acked = checks[n][i].acked
    BY <2>1 DEF CheckType
  <2>4. CheckOK(n, c)
    BY <2>1, <2>3 DEF CheckOK, AwaitPingReq
  <2> QED
    BY <1>2, <2>1, <2>2, <2>4, CheckLater, CheckSet
<1>4. Tasks' /\ Wire'
  BY <1>2, <1>3, TasksLater DEF Inv, Tasks, Wire, AwaitPingReq
<1>5. Histories'
  BY DEF AwaitPingReq, envVars, Inv, Histories
<1> QED
  BY <1>1, <1>4, <1>5, QuietInv

LEMMA ExpelInv ==
  ASSUME Inv, NEW n \in Names, NEW t, Expel(n, t)
  PROVE  Inv' /\ Effect
<1> DEFINE u == update(members[n], t, "OFFLINE", Unknown)
<1>1. /\ t \in Present(members[n]) /\ TableInv(n, members[n])
      /\ Timers /\ up[n]
  BY DEF Inv, Tasks, Timers, Tables, Expel, SuspectTimeout
<1>2. Moves(n, members[n], u, published, acked)
  <2>1. "OFFLINE" \in StatusArg /\ Unknown \in MetadataArg
    BY DEF StatusArg, RealStatus, MetadataArg
  <2> QED
    BY <1>1, <2>1, OwnUpdateMoves
<1> HIDE DEF u
<1>3. Evolution(n, u)
  BY <1>2 DEF Evolution, envVars, Expel, SuspectTimeout, u
<1>4. Evolution(n, members'[n]) /\ Later
  <2>1. members'[n] = u
    BY <1>3, EvolutionTable DEF Inv
  <2> QED
    BY <1>3, <2>1, EvolutionLater DEF Inv
<1>5. Timers'
  BY <1>1, <1>4 DEF Timers, Later, Expel, SuspectTimeout
<1>6. Checks'
  BY <1>4, TasksLater DEF Inv, Tasks, Expel, SuspectTimeout
<1>7. Histories'
  BY DEF Inv, Histories, Expel, SuspectTimeout, Expire, envVars
<1> QED
  BY <1>1, <1>4, <1>5, <1>6, <1>7, SilentInv DEF Expel, SuspectTimeout

-----------------------------------------------------------------------------
(***************************************************************************)
(* Dissemination.                                                          *)
(***************************************************************************)
LEMMA ChooseInv ==
  ASSUME Inv, NEW n \in Names, NEW t, Choose(n, t)
  PROVE  Inv' /\ Effect
<1>1. Quiet /\ UNCHANGED up
  BY DEF Choose, ChooseTarget, envVars, Quiet
<1>2. t \in members[n].non_local /\ t \in Names
  BY WorkerAssumption, FindOthers DEF Choose, ChooseTarget, Inv, Tables
<1>3. Later /\ \A p : PacketOK(p) => PacketOK(p)'
  BY <1>1, QuietKeeps DEF Inv
<1>4. Targets'
  <2>1. Targets
    BY DEF Inv, Tasks
  <2> QED
    BY <1>2, <2>1 DEF Targets, Choose, ChooseTarget
<1>5. Tasks' /\ Wire'
  BY <1>3, <1>4, TasksLater DEF Inv, Tasks, Wire, Choose, ChooseTarget
<1>6. Histories'
  BY DEF Choose, ChooseTarget, Expire, envVars, Inv, Histories
<1> QED
  BY <1>1, <1>5, <1>6, QuietInv

\* What a running process gossips is true.
LEMMA GossipBuilt ==
  ASSUME Inv, NEW n \in Names, up[n], NEW t \in members[n].non_local,
         NEW m \in get_gossip(members[n], t)
  PROVE  PacketOK(build_gossip(n, t, m))
<1> DEFINE mem == members[n].table[m]
           p   == build_gossip(n, t, m)
<1>1. /\ TableInv(n, members[n]) /\ OwnValidity(n) = inc[n]
      /\ inc[n] \in Nat /\ inc[n] > 0
      /\ members[n].table[n].metadata # Unknown
  BY DEF Inv, Tables, Histories, OwnValidity
<1>2. /\ m \in Names /\ t \in Names /\ t # n /\ mem.metadata # Unknown
      /\ mem \in MemberState /\ mem.clock < members[n].next_clock
  BY <1>1 DEF get_gossip, TableInv, MembersType, Present
<1>3. Belief(n, m)
  BY <1>2 DEF Inv, Beliefs
<1>4. /\ mem.metadata \in published[m] /\ mem.metadata \in Metadata
      /\ mem.status # "OFFLINE" => inc[m] > 0
      /\ mem.clock \in Nat /\ mem.status \in RealStatus
  <2>1. inc[m] \in Nat
    BY <1>2 DEF Inv, Histories
  <2> QED
    BY <1>1, <1>2, <1>3, <2>1 DEF Belief, MemberState
<1>5. p = [type |-> "Gossip", to |-> t, source |-> n, validity |-> inc[n],
           name |-> m, clock |-> mem.clock, status |-> mem.status,
           metadata |-> mem.metadata]
  BY <1>1 DEF build_gossip, Gossip
<1> HIDE DEF mem, p
<1>6. p \in Packet
  BY <1>1, <1>2, <1>4, <1>5 DEF Packet, Validity
<1>7. GossipOK(p)
  BY <1>2, <1>4, <1>5 DEF GossipOK
<1> QED
  BY <1>1, <1>5, <1>6, <1>7 DEF PacketOK, p

LEMMA TellInv ==
  ASSUME Inv, NEW n \in Names, Tell(n)
  PROVE  Inv' /\ Effect
<1>1. Quiet /\ UNCHANGED up
  BY DEF Tell, Disseminate, envVars, Quiet
<1>2. Later /\ \A p : PacketOK(p) => PacketOK(p)'
  BY <1>1, QuietKeeps DEF Inv
<1>3. Targets /\ gossiping[n] \in members[n].non_local
  BY DEF Tell, Disseminate, Inv, Tasks, Targets
<1>4. Wire'
  <2>1. \A m \in get_gossip(members[n], gossiping[n]) :
          PacketOK(build_gossip(n, gossiping[n], m))
    BY <1>3, GossipBuilt DEF Tell, Disseminate
  <2> QED
    BY <1>2, <2>1 DEF Wire, Inv, Tell, Disseminate
<1>5. Targets'
  BY <1>1, <1>3 DEF Targets, Quiet, Tell, Disseminate
<1>6. Tasks'
  BY <1>2, <1>5, TasksLater DEF Inv, Tasks, Tell, Disseminate
<1>7. Histories'
  BY DEF Tell, Disseminate, envVars, Inv, Histories
<1> QED
  BY <1>1, <1>4, <1>6, <1>7, QuietInv

LEMMA UpdateInv ==
  ASSUME Inv, NEW n \in Names, NEW md \in Metadata, Update(n, md)
  PROVE  Inv' /\ Effect
<1> DEFINE u == update(members[n], n, NoStatus, md)
           own == members[n].table[n]
<1>1. /\ n \in Present(members[n]) /\ TableInv(n, members[n])
      /\ up[n] /\ Histories /\ Timers /\ inc[n] > 0
  BY DEF Inv, Tasks, Tables, Update, SetMetadata, TableInv, MembersType,
         Present
<1>2. /\ published' = [published EXCEPT ![n] = @ \cup {md}]
      /\ acked' = acked /\ inc' = inc /\ up' = up
      /\ updates' = IF md = own.metadata THEN updates ELSE updates + 1
      /\ members' = [members EXCEPT ![n] = u]
  BY DEF Update, SetMetadata
<1>3. /\ \A m \in Names : published[m] \subseteq published'[m]
      /\ md \in published'[n]
      /\ published' \in [Names -> SUBSET Metadata]
  BY <1>1, <1>2 DEF Histories
<1>4. Moves(n, members[n], u, published', acked')
  <2>1. NoStatus \in StatusArg /\ md \in MetadataArg /\ NoStatus # "ONLINE"
    BY DEF StatusArg, MetadataArg, NoStatus
  <2> QED
    BY <1>1, <1>3, <2>1, OwnUpdateMoves
<1>5. updates' = 0 => updates = 0 /\ published' = published
  <2> HAVE updates' = 0
  <2>1. updates = 0 /\ md = own.metadata
    BY <1>1, <1>2 DEF Histories
  <2>2. own.metadata \in published[n]
    BY <1>1 DEF Inv, Beliefs, Belief, Tables
  <2> QED
    BY <1>1, <1>2, <2>1, <2>2 DEF Histories
<1> HIDE DEF u, own
<1>6. Evolution(n, u)
  BY <1>2, <1>3, <1>4, <1>5 DEF Evolution
<1>7. Evolution(n, members'[n]) /\ Later
  <2>1. members'[n] = u
    BY <1>6, EvolutionTable DEF Inv
  <2> QED
    BY <1>6, <2>1, EvolutionLater DEF Inv
<1>8. Timers' /\ Checks'
  BY <1>7, TasksLater DEF Inv, Tasks, Update, SetMetadata
<1>9. Histories'
  BY <1>1, <1>2, <1>3 DEF Histories, Update, SetMetadata
<1> QED
  BY <1>1, <1>7, <1>8, <1>9, SilentInv DEF Update, SetMetadata

-----------------------------------------------------------------------------
(***************************************************************************)
(* Stops and lost packets.                                                 *)
(***************************************************************************)
LEMMA CrashInv ==
  ASSUME Inv, NEW n \in Names, Crash(n)
  PROVE  Inv'
<1>1. Histories' /\ \A a \in Names : up'[a] => up[a]
  BY DEF Inv, Histories, Crash
<1>2. Quiet
  BY <1>1 DEF Crash, workerVars, Quiet
<1>3. Later /\ Tables' /\ Beliefs' /\ \A p : PacketOK(p) => PacketOK(p)'
  BY <1>2, QuietKeeps DEF Inv
<1>4. Tasks' /\ Wire'
  BY <1>3, TasksLater DEF Inv, Tasks, Wire, Crash, workerVars
<1> QED
  BY <1>1, <1>3, <1>4 DEF Inv

LEMMA LoseInv ==
  ASSUME Inv, NEW p, Lose(p) \/ Drop(p)
  PROVE  Inv' /\ Effect
<1>1. Quiet /\ UNCHANGED <<up, workerVars>> /\ network' \subseteq network
  BY DEF Lose, Drop, workerVars, envVars, Quiet
<1>2. Later /\ \A q : PacketOK(q) => PacketOK(q)'
  BY <1>1, QuietKeeps DEF Inv
<1>3. Tasks' /\ Wire'
  BY <1>1, <1>2, TasksLater DEF Inv, Tasks, Wire, workerVars
<1>4. Histories'
  BY DEF Inv, Histories, Lose, Drop, envVars
<1> QED
  BY <1>1, <1>3, <1>4, QuietInv

LEMMA StutterInv ==
  ASSUME Inv, UNCHANGED vars
  PROVE  Inv' /\ Effect
<1>1. Quiet /\ UNCHANGED <<up, workerVars, network>>
  BY DEF vars, workerVars, envVars, Quiet
<1>2. Later /\ \A q : PacketOK(q) => PacketOK(q)'
  BY <1>1, QuietKeeps DEF Inv
<1>3. Tasks' /\ Wire'
  BY <1>1, <1>2, TasksLater DEF Inv, Tasks, Wire, workerVars
<1>4. Histories'
  BY DEF Inv, Histories, vars, envVars
<1> QED
  BY <1>1, <1>3, <1>4, QuietInv

-----------------------------------------------------------------------------
(***************************************************************************)
(* The handler.                                                            *)
(***************************************************************************)

\* What every packet does to the table of the process that receives it.
LEMMA HeardKeeps ==
  ASSUME Inv, NEW n \in Names, NEW p \in network
  PROVE  LET h == get(members[n], p.source, p.validity)
         IN  /\ TableInv(n, h)
             /\ h.next_clock = members[n].next_clock
             /\ p.source \in Present(h)
             /\ \A m \in Names :
                  h.table[m].status = members[n].table[m].status
             /\ h.table[p.source].validity \in 1..inc[p.source]
             /\ p.source # n => h.table[p.source].validity = p.validity
<1> DEFINE h == get(members[n], p.source, p.validity)
<1>1. /\ p \in Packet /\ p.validity \in 1..inc[p.source]
      /\ TableInv(n, members[n]) /\ members[n].table[n].validity = inc[n]
  BY DEF Inv, Wire, PacketOK, Tables
<1>2. p.source \in Names /\ p.validity \in Nat /\ inc[p.source] \in Nat
  BY <1>1, PacketFields DEF Inv, Histories
<1>3. PICK source \in Names, v \in Nat : source = p.source /\ v = p.validity
  BY <1>2
<1>4. /\ h = get(members[n], source, v)
      /\ v # NoValidity /\ v \in Nat \cup {NoValidity}
  BY <1>3 DEF NoValidity
<1> HIDE DEF h
<1>5. /\ TableInv(n, h)
      /\ h.next_clock = members[n].next_clock
      /\ source \in Present(h)
      /\ \A m \in Names : h.table[m].status = members[n].table[m].status
      /\ source # n => h.table[source].validity = v
      /\ source = n => \A m \in Names : h.table[m] = members[n].table[m]
  <2>1. TableInv(n, members[n])
    BY <1>1
  <2> QED
    BY <1>4, <2>1, GetKeeps
<1>6. h.table[p.source].validity \in 1..inc[p.source]
  BY <1>1, <1>2, <1>3, <1>5
<1> QED
  BY <1>3, <1>5, <1>6 DEF h

LEMMA HeardMoves ==
  ASSUME Inv, NEW n \in Names, NEW p \in network, NEW pub, NEW ack
  PROVE  Moves(n, members[n], get(members[n], p.source, p.validity), pub, ack)
<1>1. p \in Packet /\ p.validity \in 1..inc[p.source] /\ TableInv(n, members[n])
  BY DEF Inv, Wire, PacketOK, Tables
<1>2. p.source \in Names /\ p.validity \in Nat \cup {NoValidity}
  BY <1>1, PacketFields
<1> QED
  BY <1>1, <1>2, GetMoves

\* And get of a name, without a validity, afterwards.
LEMMA NamedKeeps ==
  ASSUME Inv, NEW n \in Names, NEW p \in network, NEW name \in Names
  PROVE  LET h == get(members[n], p.source, p.validity)
             t == get(h, name, NoValidity)
         IN  /\ TableInv(n, t)
             /\ t.next_clock = members[n].next_clock
             /\ p.source \in Present(t) /\ name \in Present(t)
             /\ \A m \in Names :
                  t.table[m].status = members[n].table[m].status
             /\ p.source # n => t.table[p.source].validity = p.validity
<1> DEFINE h == get(members[n], p.source, p.validity)
           t == get(h, name, NoValidity)
<1>1. /\ TableInv(n, h)
      /\ h.next_clock = members[n].next_clock
      /\ p.source \in Present(h)
      /\ \A m \in Names : h.table[m].status = members[n].table[m].status
      /\ p.source # n => h.table[p.source].validity = p.validity
  BY HeardKeeps
<1>2. p.source \in Names /\ NoValidity \in Nat \cup {NoValidity}
  BY PacketFields DEF Inv, Wire, PacketOK
<1> HIDE DEF h
<1>3. /\ TableInv(n, t) /\ h.non_local \subseteq t.non_local
      /\ t.next_clock = h.next_clock
      /\ name \in Present(t)
      /\ \A m \in Names : t.table[m] = h.table[m]
  BY <1>1, <1>2, GetKeeps
<1> HIDE DEF t
<1>4. p.source \in Present(t)
  <2>1. h.local = n /\ t.local = n
    BY <1>1, <1>3 DEF TableInv, MembersType
  <2> QED
    BY <1>1, <1>3, <2>1 DEF Present
<1> QED
  BY <1>1, <1>2, <1>3, <1>4 DEF t, h

LEMMA NamedMoves ==
  ASSUME Inv, NEW n \in Names, NEW p \in network, NEW pub, NEW ack,
         NEW name \in Names
  PROVE  Moves(n, members[n],
               get(get(members[n], p.source, p.validity), name, NoValidity),
               pub, ack)
<1> DEFINE h == get(members[n], p.source, p.validity)
           t == get(h, name, NoValidity)
<1>1. /\ TableInv(n, h)
      /\ \A m \in Names : h.table[m].status = members[n].table[m].status
  BY HeardKeeps
<1>2. Moves(n, members[n], h, pub, ack)
  BY HeardMoves
<1>3. TableInv(n, members[n]) /\ NoValidity \in Nat \cup {NoValidity}
  BY DEF Inv, Tables
<1> HIDE DEF h
<1>4. Moves(n, h, t, pub, ack)
  BY <1>1, <1>3, GetMoves
<1> HIDE DEF t
<1>5. Moves(n, members[n], t, pub, ack)
  BY <1>1, <1>2, <1>3, <1>4, MovesTwice
<1> QED
  BY <1>5 DEF t, h

\* Every packet answers the checks that wait for its source.
LEMMA HeardChecks ==
  ASSUME Inv, Later, NEW n \in Names, NEW p \in network,
         checks' = [checks EXCEPT ![n] = notify_waiting(@, p)]
  PROVE  Checks'
<1>1. /\ checks \in [Names -> [Slots -> CheckType]]
      /\ \A a \in Names, i \in Slots : CheckOK(a, checks[a][i])
  BY DEF Inv, Tasks, Checks
<1>2. inc[p.source] > 0
  <2>1. p.validity \in 1..inc[p.source] /\ inc[p.source] \in Nat
    BY PacketFields DEF Inv, Wire, PacketOK, Histories
  <2> QED
    BY <2>1
<1>3. ASSUME NEW i \in Slots
      PROVE  CheckOK(n, notify_waiting(checks[n], p)[i])
  <2> DEFINE c == checks[n][i]
             d == notify_waiting(checks[n], p)[i]
  <2>1. c \in CheckType /\ CheckOK(n, c)
    BY <1>1
  <2>2. CASE c.target # p.source
    <3>1. d = c
      BY <2>2 DEF notify_waiting
    <3> QED
      BY <2>1, <3>1
  <2>3. CASE c.target = p.source
    <3>1. d = [c EXCEPT !.acked = @ \/ Waiting(c)]
      BY <2>3 DEF notify_waiting
    <3> HIDE DEF c, d
    <3>2. Waiting(c) \in BOOLEAN /\ (Waiting(c) => c.pc # "idle")
      BY DEF Waiting
    <3>3. /\ d \in CheckType /\ d.pc = c.pc /\ d.target = c.target
          /\ d.acked => c.acked \/ Waiting(c)
      BY <2>1, <3>1, <3>2 DEF CheckType
    <3>4. CheckOK(n, d)
      BY <1>2, <2>1, <2>3, <3>2, <3>3 DEF CheckOK
    <3> QED
      BY <3>4 DEF d
  <2> QED
    BY <2>2, <2>3
<1>4. notify_waiting(checks[n], p) \in [Slots -> CheckType]
  <2>1. notify_waiting(checks[n], p) =
          [i \in Slots |-> notify_waiting(checks[n], p)[i]]
    BY DEF notify_waiting
  <2> QED
    BY <1>3, <2>1 DEF CheckOK
<1>5. checks' \in [Names -> [Slots -> CheckType]]
  BY <1>1, <1>4
<1>6. \A a \in Names, i \in Slots : CheckOK(a, checks'[a][i])
  BY <1>1, <1>3
<1> QED
  BY <1>5, <1>6, CheckLater DEF Checks

\* The acks that are forwarded speak for what was heard.
LEMMA ForwardedOK ==
  ASSUME Inv, NEW n \in Names, NEW p \in network, NEW ms,
         ms.table[p.source].validity \in 1..inc[p.source],
         NEW q \in Forwarded(n, p, ms)
  PROVE  PacketOK(q)
<1>1. p.source \in Names
  BY PacketFields DEF Inv, Wire, PacketOK
<1>2. PICK t \in listening[n][p.source] :
        q = Ack(t, p.source, ms.table[p.source].validity)
  BY DEF Forwarded
<1>3. t \in Names /\ inc[p.source] \in Nat
  BY <1>1 DEF Inv, Tasks, Handlers, Histories
<1> QED
  BY <1>1, <1>2, <1>3 DEF PacketOK, Packet, Plain, Ack, Validity

\* What is left to show of a packet that is handled: what it does to the table,
\* the packets it is answered with, and what it does to the tasks.
LEMMA HandledInv ==
  ASSUME Inv, NEW n \in Names, NEW p \in network, NEW t, Evolution(n, t),
         NEW rest \in SUBSET network, NEW packets,
         Heard(n, p, get(members[n], p.source, p.validity), rest, packets),
         \A q \in packets : PacketOK(q)',
         Timers', Handlers', Histories'
  PROVE  Inv' /\ Effect
<1> DEFINE h == get(members[n], p.source, p.validity)
<1>1. Later /\ \A q : PacketOK(q) => PacketOK(q)'
  BY EvolutionLater, EvolutionPackets DEF Inv
<1>2. /\ up[n] /\ checks' = [checks EXCEPT ![n] = notify_waiting(@, p)]
      /\ network' = rest \cup Forwarded(n, p, h) \cup packets
      /\ gossiping' = gossiping
  BY DEF Heard
<1>3. h.table[p.source].validity \in 1..inc[p.source]
  BY HeardKeeps
<1> HIDE DEF h
<1>4. \A q \in Forwarded(n, p, h) : PacketOK(q)
  BY <1>3, ForwardedOK
<1>5. Wire'
  BY <1>1, <1>2, <1>4 DEF Inv, Wire
<1>6. Checks'
  BY <1>1, <1>2, HeardChecks
<1>7. Tasks'
  BY <1>1, <1>2, <1>6, TasksLater DEF Inv, Tasks
<1> QED
  BY <1>2, <1>5, <1>7, EvolutionInv

\* Whoever asked for the ack of the source has it now.
LEMMA ListeningReset ==
  ASSUME Handlers, Later, NEW n \in Names, NEW m,
         listening' = [listening EXCEPT ![n][m] = {}], UNCHANGED handling
  PROVE  Handlers'
<1>1. listening' \in [Names -> [Names -> SUBSET Names]]
  BY DEF Handlers
<1> QED
  BY <1>1 DEF Handlers, Later, Once

\* A Ping or an Ack: the table hears of the source.
LEMMA PingInv ==
  ASSUME Inv, NEW n \in Names, NEW p \in network, NEW rest \in SUBSET network,
         HandlePing(n, p, rest) \/ HandleAck(n, p, rest),
         UNCHANGED <<inc, updates, published, acked>>, faults' \in Nat
  PROVE  Inv' /\ Effect
<1> DEFINE h == get(members[n], p.source, p.validity)
<1>1. PICK packets \in SUBSET {Ack(p.source, n, OwnValidity(n))} :
        /\ Heard(n, p, h, rest, packets)
        /\ members' = [members EXCEPT ![n] = h]
        /\ listening' = [listening EXCEPT ![n][p.source] = {}]
        /\ UNCHANGED <<suspect, handling>>
  BY DEF HandlePing, HandleAck
<1>2. Moves(n, members[n], h, published, acked)
  BY HeardMoves
<1> HIDE DEF h
<1>3. Evolution(n, h)
  BY <1>1, <1>2 DEF Evolution, envVars, Heard
<1>4. Later /\ \A q : PacketOK(q) => PacketOK(q)'
  BY <1>3, EvolutionLater, EvolutionPackets DEF Inv
<1>5. \A q \in packets : PacketOK(q)'
  <2>1. p.source \in Names /\ up[n]
    BY <1>1, PacketFields DEF Inv, Wire, PacketOK, Heard
  <2>2. PacketOK(Ack(p.source, n, OwnValidity(n)))
    BY <2>1, OwnPackets DEF Inv
  <2> QED
    BY <1>4, <2>2
<1>6. Timers' /\ Handlers'
  BY <1>1, <1>4, TasksLater, ListeningReset DEF Inv, Tasks
<1>7. Histories'
  BY <1>1 DEF Inv, Histories, Heard, envVars
<1> QED
  BY <1>1, <1>3, <1>5, <1>6, <1>7, HandledInv DEF h

\* A PingReq: the table hears of the source and has the target.
LEMMA PingReqInv ==
  ASSUME Inv, NEW n \in Names, NEW p \in network, NEW rest \in SUBSET network,
         HandlePingReq(n, p, rest),
         UNCHANGED <<inc, updates, published, acked>>, faults' \in Nat
  PROVE  Inv' /\ Effect
<1> DEFINE h == get(members[n], p.source, p.validity)
           t == get(h, p.target, NoValidity)
           packets == {Ping(p.target, n, OwnValidity(n))}
           cleared == [listening[n] EXCEPT ![p.source] = {}]
           asked   == [cleared EXCEPT
                         ![p.target] = cleared[p.target] \cup {p.source}]
<1>1. /\ Heard(n, p, h, rest, packets)
      /\ members' = [members EXCEPT ![n] = t]
      /\ listening' = [listening EXCEPT ![n] = asked]
      /\ UNCHANGED <<suspect, handling>>
  BY DEF HandlePingReq
<1>2. p.source \in Names /\ p.target \in Names /\ up[n]
  BY <1>1, PacketFields DEF HandlePingReq, Inv, Wire, PacketOK, Heard
<1>3. Moves(n, members[n], t, published, acked)
  BY <1>2, NamedMoves
<1> HIDE DEF t
<1>4. Evolution(n, t)
  BY <1>1, <1>3 DEF Evolution, envVars, Heard
<1>5. Later /\ \A q : PacketOK(q) => PacketOK(q)'
  BY <1>4, EvolutionLater, EvolutionPackets DEF Inv
<1>6. \A q \in packets : PacketOK(q)'
  <2>1. PacketOK(Ping(p.target, n, OwnValidity(n)))
    BY <1>2, OwnPackets DEF Inv
  <2> QED
    BY <1>5, <2>1
<1>7. Timers' /\ Handlers'
  <2>1. Handlers /\ Timers
    BY DEF Inv, Tasks
  <2>2. listening' \in [Names -> [Names -> SUBSET Names]]
    <3>1. cleared \in [Names -> SUBSET Names]
      BY <2>1 DEF Handlers
    <3> HIDE DEF cleared
    <3>2. asked \in [Names -> SUBSET Names]
      BY <1>2, <3>1
    <3> HIDE DEF asked
    <3> QED
      BY <1>1, <2>1, <3>2 DEF Handlers
  <2>3. Handlers'
    BY <1>1, <1>5, <2>1, <2>2 DEF Handlers, Later, Once
  <2> QED
    BY <1>1, <1>5, <2>1, <2>3, TasksLater
<1>8. Histories'
  BY <1>1 DEF Inv, Histories, Heard, envVars
<1> HIDE DEF packets
<1> QED
  BY <1>1, <1>4, <1>6, <1>7, <1>8, HandledInv

\* A Gossip: the table hears of the source, has the member, and takes over what
\* is news; the answer is true of the table that results.
LEMMA GossipInv ==
  ASSUME Inv, NEW n \in Names, NEW p \in network, NEW rest \in SUBSET network,
         HandleGossip(n, p, rest),
         acked' = acked \cup {<<n, inc[n], p.name, p.clock>>},
         UNCHANGED <<inc, updates, published>>, faults' \in Nat
  PROVE  Inv' /\ Effect
<1> DEFINE h   == get(members[n], p.source, p.validity)
           ms  == get(h, p.name, NoValidity)
           t   == apply(ms, p.name, p.source, p.clock, p.status, p.metadata)
           ack == apply_gossip_ack(n, p, ms)
<1>1. /\ p.type = "Gossip"
      /\ Heard(n, p, h, rest, {ack})
      /\ suspect' = [suspect EXCEPT ![n] = handle_status(@, p.name, p.status)]
      /\ members' = [members EXCEPT ![n] = t]
      /\ listening' = [listening EXCEPT ![n][p.source] = {}]
      /\ handling' = handling
  BY DEF HandleGossip
<1>2. /\ p.source \in Names /\ p.name \in Names /\ p.clock \in Nat
      /\ p.status \in RealStatus /\ p.metadata \in Metadata
      /\ GossipOK(p) /\ p.validity \in 1..inc[p.source]
  BY <1>1, PacketFields DEF Inv, Wire, PacketOK
<1>3. /\ up[n] /\ p.to = n /\ p.source # n /\ p.source # NoMember
      /\ p.metadata # Unknown
  BY <1>1, <1>2, MemberAssumption DEF Heard, GossipOK
<1>4. /\ TableInv(n, ms) /\ p.name \in Present(ms)
      /\ \A m \in Names : ms.table[m].status = members[n].table[m].status
  BY <1>2, NamedKeeps
<1>5. Moves(n, members[n], ms, published', acked')
  BY <1>2, NamedMoves
<1> HIDE DEF h, ms
<1>6. p.status \in StatusArg /\ p.metadata \in MetadataArg
  BY <1>2 DEF StatusArg, MetadataArg
<1>7. Moves(n, ms, t, published', acked')
  <2>1. /\ p.metadata \in published'[p.name]
        /\ p.status = "ONLINE" => inc[p.name] > 0
    BY <1>2 DEF GossipOK
  <2> QED
    BY <1>2, <1>3, <1>4, <1>6, <2>1, UpdateMoves DEF apply
<1>8. p.name = p.source => t.table[p.source].metadata # Unknown
  BY <1>2, <1>3, <1>4, <1>6, UpdateEffect DEF apply
<1> HIDE DEF t
<1>9. Moves(n, members[n], t, published', acked')
  <2>1. TableInv(n, members[n])
    BY DEF Inv, Tables
  <2> QED
    BY <1>4, <1>5, <1>7, <2>1, MovesTwice
<1>10. Evolution(n, t)
  BY <1>1, <1>9 DEF Evolution, Heard
<1>11. Later /\ members'[n] = t
  BY <1>10, EvolutionLater, EvolutionTable DEF Inv
<1>12. \A q \in {ack} : PacketOK(q)'
  <2>1. /\ members[n].table[n].validity = inc[n] /\ inc[n] > 0
        /\ inc[n] \in Nat /\ inc[p.source] \in Nat /\ inc[p.source] > 0
    BY <1>2, <1>3 DEF Inv, Tables, Histories
  <2>2. PICK q : q = [type |-> "GossipAck", to |-> p.source, source |-> n,
                      validity |-> inc[n], name |-> p.name, clock |-> p.clock]
    OBVIOUS
  <2>3. ack = q
    BY <2>1, <2>2 DEF apply_gossip_ack, GossipAck, OwnValidity
  <2>4. q \in Packet
    BY <1>2, <2>1, <2>2 DEF Packet, Validity
  <2>5. Once' => p.clock < members'[p.source].next_clock
    <3>1. /\ members[p.source].next_clock \in Nat
          /\ members'[p.source].next_clock \in Nat
          /\ members'[p.source].next_clock >= members[p.source].next_clock
      BY <1>2, <1>10, EvolutionTable DEF Inv
    <3> QED
      BY <1>2, <3>1 DEF GossipOK, Once
  <2>6. GossipAckOK(q)'
    BY <1>3, <1>8, <1>11, <2>1, <2>2, <2>5 DEF GossipAckOK
  <2>7. PacketOK(q)'
    BY <2>1, <2>2, <2>4, <2>6 DEF PacketOK
  <2> QED
    BY <2>3, <2>7
<1>13. Timers'
  <2>1. Timers
    BY DEF Inv, Tasks
  <2>2. handle_status(suspect[n], p.name, p.status) \subseteq
          suspect[n] \cup {p.name}
    BY DEF handle_status
  <2>3. p.name \in Present(members'[n])
    <3>1. /\ ms.non_local \subseteq t.non_local
          /\ TableInv(n, t)
      BY <1>7 DEF Moves
    <3> QED
      BY <1>4, <1>11, <3>1 DEF Present, TableInv, MembersType
  <2>4. suspect' \in [Names -> SUBSET Names]
    BY <1>1, <1>2, <2>1, <2>2 DEF Timers
  <2>5. \A a \in Names : suspect'[a] \subseteq Present(members'[a])
    BY <1>1, <1>11, <2>1, <2>2, <2>3 DEF Timers, Later
  <2> QED
    BY <2>4, <2>5 DEF Timers
<1>14. Handlers'
  BY <1>1, <1>11, ListeningReset DEF Inv, Tasks
<1>15. Histories'
  BY <1>1, <1>2 DEF Inv, Histories, Heard
<1> HIDE DEF ack
<1> QED
  BY <1>1, <1>10, <1>12, <1>13, <1>14, <1>15, HandledInv DEF h

\* A GossipAck: the table hears of the source, has the member, and notes what
\* the source knows.  Unless somebody has started again the assertion holds.
LEMMA GossipAckInv ==
  ASSUME Inv, NEW n \in Names, NEW p \in network, NEW rest \in SUBSET network,
         HandleGossipAck(n, p, rest),
         UNCHANGED <<inc, updates, published, acked>>, faults' \in Nat
  PROVE  Inv' /\ Effect
<1> DEFINE h  == get(members[n], p.source, p.validity)
           ms == get(h, p.name, NoValidity)
           t  == ack_gossip(ms, p.name, p.source, p.clock)
<1>1. /\ p.type = "GossipAck"
      /\ Heard(n, p, h, rest, {})
      /\ \/ /\ AckAsserted(ms, p.clock)
            /\ members' = [members EXCEPT ![n] = t]
            /\ UNCHANGED handling
         \/ /\ ~AckAsserted(ms, p.clock)
            /\ members' = [members EXCEPT ![n] = ms]
            /\ handling' = [handling EXCEPT ![n] = FALSE]
      /\ listening' = [listening EXCEPT ![n][p.source] = {}]
      /\ suspect' = suspect
  BY DEF HandleGossipAck
<1>2. /\ p.source \in Names /\ p.name \in Names /\ p.clock \in Nat
      /\ GossipAckOK(p) /\ p.validity \in 1..inc[p.source]
  BY <1>1, PacketFields DEF Inv, Wire, PacketOK
<1>3. /\ up[n] /\ p.to = n /\ p.source # n
      /\ published' = published /\ acked' = acked
  BY <1>1, <1>2 DEF Heard, GossipAckOK, envVars
<1>4. /\ TableInv(n, ms) /\ p.source \in Present(ms)
      /\ ms.next_clock = members[n].next_clock
      /\ \A m \in Names : ms.table[m].status = members[n].table[m].status
      /\ ms.table[p.source].validity = p.validity
  BY <1>2, <1>3, NamedKeeps
<1>5. Moves(n, members[n], ms, published, acked)
  BY <1>2, NamedMoves
<1> HIDE DEF h, ms
<1>6. Moves(n, members[n], t, published, acked)
  <2>1. p.source \in ms.non_local
    BY <1>3, <1>4 DEF Present, TableInv, MembersType
  <2>2. /\ <<p.source, ms.table[p.source].validity, p.name, p.clock>> \in acked
        /\ p.name = n /\ ms.table[p.source].validity = inc[p.source] =>
             members[p.source].table[n].metadata # Unknown
    BY <1>2, <1>3, <1>4 DEF GossipAckOK
  <2>3. Moves(n, ms, t, published, acked)
    BY <1>2, <1>4, <2>1, <2>2, AckMoves
  <2>4. TableInv(n, members[n])
    BY DEF Inv, Tables
  <2> HIDE DEF t
  <2> QED
    BY <1>4, <1>5, <2>3, <2>4, MovesTwice
<1> HIDE DEF t
<1>7. Histories'
  BY <1>1 DEF Inv, Histories, Heard, envVars
<1>8. CASE /\ members' = [members EXCEPT ![n] = t]
           /\ UNCHANGED handling
  <2>1. Evolution(n, t)
    BY <1>1, <1>3, <1>6, <1>8 DEF Evolution, Heard, envVars
  <2>2. Later
    BY <2>1, EvolutionLater DEF Inv
  <2>3. Timers' /\ Handlers'
    BY <1>1, <1>8, <2>2, TasksLater, ListeningReset DEF Inv, Tasks
  <2> QED
    BY <1>1, <1>7, <2>1, <2>3, HandledInv DEF h
<1>9. CASE /\ ~AckAsserted(ms, p.clock)
           /\ members' = [members EXCEPT ![n] = ms]
           /\ handling' = [handling EXCEPT ![n] = FALSE]
  <2>1. Evolution(n, ms)
    BY <1>1, <1>3, <1>5, <1>9 DEF Evolution, Heard, envVars
  <2>2. Later
    BY <2>1, EvolutionLater DEF Inv
  <2>3. Timers'
    BY <1>1, <2>2, TasksLater DEF Inv, Tasks
  <2>4. Handlers'
    <3>1. ~Once'
      <4>1. members[n].next_clock \in Nat
        BY DEF Inv, Tables, TableInv, MembersType
      <4>2. ~(p.clock < members[n].next_clock)
        BY <1>2, <1>4, <1>9, <4>1 DEF AckAsserted
      <4> QED
        BY <1>2, <1>3, <2>2, <4>2 DEF GossipAckOK, Once, Later
    <3>2. Handlers
      BY DEF Inv, Tasks
    <3>3. listening' \in [Names -> [Names -> SUBSET Names]]
      BY <1>1, <3>2 DEF Handlers
    <3>4. handling' \in [Names -> BOOLEAN]
      BY <1>9, <3>2 DEF Handlers
    <3> QED
      BY <3>1, <3>3, <3>4 DEF Handlers
  <2>5. Heard(n, p, get(members[n], p.source, p.validity), rest, {})
    BY <1>1 DEF h
  <2> QED
    BY <1>7, <2>1, <2>3, <2>4, <2>5, HandledInv
<1> QED
  BY <1>1, <1>8, <1>9

LEMMA ReceiveInv ==
  ASSUME Inv, NEW n \in Names, NEW p \in network, Receive(n, p)
  PROVE  Inv' /\ Effect
<1>1. /\ UNCHANGED <<inc, updates, published>>
      /\ p.type # "Gossip" => acked' = acked
      /\ p.type = "Gossip" =>
           acked' = acked \cup {<<n, inc[n], p.name, p.clock>>}
  BY DEF Receive
<1>2. PICK rest \in SUBSET network : Handle(n, p, rest) /\ faults' \in Nat
  <2>1. faults \in Nat
    BY DEF Inv, Histories
  <2>2. network \in SUBSET network /\ network \ {p} \in SUBSET network
    OBVIOUS
  <2> QED
    BY <2>1, <2>2 DEF Receive
<1>3. CASE HandlePing(n, p, rest) \/ HandleAck(n, p, rest)
  BY <1>1, <1>2, <1>3, PingInv DEF HandlePing, HandleAck
<1>4. CASE HandlePingReq(n, p, rest)
  BY <1>1, <1>2, <1>4, PingReqInv DEF HandlePingReq
<1>5. CASE HandleGossip(n, p, rest)
  BY <1>1, <1>2, <1>5, GossipInv DEF HandleGossip
<1>6. CASE HandleGossipAck(n, p, rest)
  BY <1>1, <1>2, <1>6, GossipAckInv DEF HandleGossipAck
<1> QED
  BY <1>2, <1>3, <1>4, <1>5, <1>6 DEF Handle

-----------------------------------------------------------------------------
(***************************************************************************)
(* Starts.                                                                 *)
(***************************************************************************)

\* The Members object of a process that has just started.
LEMMA StartedTable ==
  ASSUME NEW n \in Names, NEW v \in Nat
  PROVE  /\ TableInv(n, Started(n, v))
         /\ InitTable(n, v, LocalMetadata[n], Started(n, v))
         /\ LocalMetadata[n] # Unknown
<1>1. /\ Peers[n] \in Seq(Names)
      /\ \A i \in DOMAIN Peers[n] : Peers[n][i] # n
      /\ \A i, j \in DOMAIN Peers[n] : Peers[n][i] = Peers[n][j] => i = j
      /\ LocalMetadata[n] \in Metadata
  BY ClusterAssumption
<1>2. Peers[n] \in Seq(Names \ {n})
  <2>1. \A i \in 1..Len(Peers[n]) : Peers[n][i] \in Names \ {n}
    BY <1>1, ElementOfSeq, LenProperties
  <2> QED
    BY <1>1, <2>1, LenProperties, SeqDef
<1>3. LocalMetadata[n] # Unknown
  BY <1>1, MemberAssumption
<1>4. TableInv(n, Started(n, v))
  BY <1>1, <1>2, InitInv DEF Started
<1>5. InitTable(n, v, LocalMetadata[n], Started(n, v))
  BY <1>1, <1>2, InitEffect DEF Started
<1> QED
  BY <1>3, <1>4, <1>5

\* The processes that run from the start begin with the invariant.
LEMMA InitialInv ==
  ASSUME Init
  PROVE  Inv
<1>1. Histories
  BY ClusterAssumption DEF Init, Histories
<1>2. ASSUME NEW n \in Names
      PROVE  /\ members[n] = Started(n, inc[n]) /\ inc[n] \in Nat
             /\ inc[n] > 0 <=> n \in Running
             /\ up[n] = (n \in Running)
             /\ published[n] = IF n \in Running THEN {LocalMetadata[n]} ELSE {}
  BY DEF Init
<1>3. ASSUME NEW n \in Names
      PROVE  /\ TableInv(n, members[n])
             /\ members[n].table[n].status = "ONLINE"
             /\ members[n].table[n].metadata = LocalMetadata[n]
             /\ members[n].table[n].metadata # Unknown
             /\ members[n].table[n].validity = inc[n]
             /\ \A m \in Names \ {n} :
                  /\ members[n].table[m].status = "OFFLINE"
                  /\ members[n].table[m].metadata = Unknown
                  /\ members[n].table[m].validity = 0
             /\ \A m, k \in Names : members[n].table[m].known[k] = NoClock
  <2>1. PICK v \in Nat : v = inc[n]
    BY <1>2
  <2>2. members[n] = Started(n, v)
    BY <1>2, <2>1
  <2>3. /\ TableInv(n, members[n]) /\ LocalMetadata[n] # Unknown
        /\ InitTable(n, v, LocalMetadata[n], members[n])
    BY <2>2, StartedTable
  <2> QED
    BY <2>1, <2>3 DEF InitTable, Fresh
<1>4. Tables
  <2>1. DOMAIN members = Names
    BY DEF Init
  <2>2. ASSUME NEW n \in Names
        PROVE  /\ up[n] => inc[n] > 0
               /\ published[n] \subseteq {members[n].table[n].metadata}
    <3>1. members[n].table[n].metadata = LocalMetadata[n]
      BY <1>3
    <3>2. published[n] \subseteq {LocalMetadata[n]}
      BY <1>2
    <3>3. up[n] => inc[n] > 0
      BY <1>2
    <3> QED
      BY <3>1, <3>2, <3>3
  <2> QED
    BY <1>3, <2>1, <2>2 DEF Tables
<1>5. Beliefs
  <2> SUFFICES ASSUME NEW n \in Names, NEW m \in Names
               PROVE  Belief(n, m)
    BY DEF Beliefs
  <2>1. /\ inc[m] \in Nat
        /\ \A k \in Names : members[n].table[m].known[k] = NoClock
    <3>1. inc[m] \in Nat
      BY <1>2
    <3> QED
      BY <1>3, <3>1
  <2>2. CASE m = n
    <3>1. inc[n] > 0 => LocalMetadata[n] \in published[n]
      BY <1>2
    <3>2. members[n].table[n].metadata = LocalMetadata[n]
      BY <1>3
    <3> QED
      BY <2>1, <2>2, <3>1, <3>2 DEF Belief
  <2>3. CASE m # n
    <3>1. /\ members[n].table[m].status = "OFFLINE"
          /\ members[n].table[m].metadata = Unknown
          /\ members[n].table[m].validity = 0
      BY <1>3, <2>3
    <3> QED
      BY <2>1, <2>3, <3>1 DEF Belief
  <2> QED
    BY <2>2, <2>3
<1>6. Wire
  BY DEF Init, Wire
<1>7. Checks
  <2>1. Idle \in CheckType
    BY IdleOK DEF CheckOK
  <2> HIDE DEF Idle
  <2>2. checks = [n \in Names |-> [i \in Slots |-> Idle]]
    BY DEF Init
  <2> QED
    BY <2>1, <2>2, IdleOK DEF Checks
<1>8. Timers /\ Targets /\ Handlers
  BY DEF Init, Timers, Targets, Handlers
<1> QED
  BY <1>1, <1>4, <1>5, <1>6, <1>7, <1>8 DEF Inv, Tasks

\* A start is a new incarnation, of which nobody can know anything yet.
LEMMA BootInv ==
  ASSUME Inv, NEW n \in Names, Boot(n)
  PROVE  Inv'
<1>1. /\ Histories /\ Tables /\ Beliefs /\ Wire
      /\ Checks /\ Timers /\ Targets /\ Handlers
  BY DEF Inv, Tasks
<1>2. /\ inc' = [inc EXCEPT ![n] = @ + 1]
      /\ up'  = [up EXCEPT ![n] = TRUE]
      /\ members' = [members EXCEPT ![n] = Started(n, inc[n] + 1)]
      /\ published' = [published EXCEPT ![n] = @ \cup {LocalMetadata[n]}]
      /\ UNCHANGED <<network, premature, updates, faults, acked>>
  BY DEF Boot
<1>3. ASSUME NEW a \in Names
      PROVE  /\ inc[a] \in Nat /\ inc'[a] \in Nat
             /\ inc'[a] = IF a = n THEN inc[a] + 1 ELSE inc[a]
             /\ published[a] \subseteq published'[a]
             /\ a # n => /\ members'[a] = members[a] /\ up'[a] = up[a]
                         /\ published'[a] = published[a]
             /\ a = n => /\ members'[a] = Started(n, inc'[n])
                         /\ published'[a] = published[n] \cup {LocalMetadata[n]}
  <2>1. inc \in [Names -> Nat] /\ published \in [Names -> SUBSET Metadata]
        /\ up \in [Names -> BOOLEAN] /\ DOMAIN members = Names
    BY <1>1 DEF Histories, Tables
  <2>2. /\ inc[a] \in Nat
        /\ inc'[a] = IF a = n THEN inc[a] + 1 ELSE inc[a]
    BY <1>2, <2>1
  <2>3. /\ a # n => members'[a] = members[a] /\ up'[a] = up[a]
                      /\ published'[a] = published[a]
        /\ a = n => published'[a] = published[n] \cup {LocalMetadata[n]}
    BY <1>2, <2>1
  <2>4. a = n => members'[a] = Started(n, inc'[n])
    BY <1>2, <2>1, <2>2
  <2> QED
    BY <2>2, <2>3, <2>4
<1>4. /\ TableInv(n, members'[n])
      /\ members'[n].table[n].metadata = LocalMetadata[n]
      /\ members'[n].table[n].metadata # Unknown
      /\ members'[n].table[n].validity = inc'[n]
      /\ \A m \in Names \ {n} : /\ members'[n].table[m].status = "OFFLINE"
                                /\ members'[n].table[m].metadata = Unknown
                                /\ members'[n].table[m].validity = 0
      /\ \A m, k \in Names : members'[n].table[m].known[k] = NoClock
  <2>1. PICK v \in Nat : v = inc'[n]
    BY <1>3
  <2>2. members'[n] = Started(n, v)
    BY <1>3, <2>1
  <2>3. /\ TableInv(n, members'[n]) /\ LocalMetadata[n] # Unknown
        /\ InitTable(n, v, LocalMetadata[n], members'[n])
    BY <2>2, StartedTable
  <2> QED
    BY <2>1, <2>3 DEF InitTable, Fresh
<1>5. Histories'
  <2>1. /\ up \in [Names -> BOOLEAN] /\ inc \in [Names -> Nat]
        /\ published \in [Names -> SUBSET Metadata]
        /\ LocalMetadata[n] \in Metadata
    BY <1>1, ClusterAssumption DEF Histories
  <2>2. /\ up' \in [Names -> BOOLEAN] /\ inc' \in [Names -> Nat]
        /\ published' \in [Names -> SUBSET Metadata]
    BY <1>2, <2>1
  <2> QED
    BY <1>1, <1>2, <2>2 DEF Histories
<1>6. Tables'
  <2>1. DOMAIN members' = Names
    BY <1>1, <1>2 DEF Tables
  <2>2. ASSUME NEW a \in Names, a # n
        PROVE  /\ TableInv(a, members'[a])
               /\ members'[a].table[a].validity = inc'[a]
               /\ members'[a].table[a].metadata # Unknown
               /\ up'[a] => inc'[a] > 0
               /\ updates' = 0 =>
                    /\ members'[a].table[a].metadata = LocalMetadata[a]
                    /\ published'[a] \subseteq {members'[a].table[a].metadata}
    BY <1>1, <1>2, <1>3, <2>2 DEF Tables
  <2>3. /\ inc'[n] > 0
        /\ updates' = 0 =>
             published'[n] \subseteq {members'[n].table[n].metadata}
    <3>1. updates = 0 => published[n] \subseteq {LocalMetadata[n]}
      BY <1>1 DEF Tables
    <3>2. /\ inc[n] \in Nat /\ inc'[n] = inc[n] + 1
          /\ published'[n] = published[n] \cup {LocalMetadata[n]}
      BY <1>3
    <3> QED
      BY <1>2, <1>4, <3>1, <3>2
  <2> QED
    BY <1>4, <2>1, <2>2, <2>3 DEF Tables
<1>7. Beliefs'
  <2> SUFFICES ASSUME NEW a \in Names, NEW b \in Names
               PROVE  Belief(a, b)'
    BY DEF Beliefs
  <2>1. CASE a = n /\ b = n
    BY <1>3, <1>4, <2>1 DEF Belief
  <2>2. CASE a = n /\ b # n
    BY <1>3, <1>4, <2>2 DEF Belief
  <2>3. CASE a # n
    <3>1. Belief(a, b) /\ members'[a] = members[a] /\ acked' = acked
      BY <1>1, <1>2, <1>3, <2>3 DEF Beliefs
    <3>2. /\ inc[a] \in Nat /\ inc'[a] = inc[a] /\ inc[b] \in Nat
          /\ inc'[b] = IF b = n THEN inc[b] + 1 ELSE inc[b]
          /\ published[b] \subseteq published'[b]
          /\ b # n => members'[b] = members[b]
      BY <1>3, <2>3
    <3>3. b # a /\ members[a].table[b].validity = inc'[b] =>
            members[a].table[b].validity = inc[b] /\ b # n
      BY <3>1, <3>2 DEF Belief
    <3> QED
      BY <3>1, <3>2, <3>3 DEF Belief
  <2> QED
    BY <2>1, <2>2, <2>3
<1>8. Once' => Once /\ inc[n] = 0
  BY <1>3 DEF Once
<1>9. ASSUME NEW p, PacketOK(p)
      PROVE  PacketOK(p)'
  <2>1. /\ p \in Packet /\ p.to \in Names /\ p.source \in Names
        /\ p.validity \in 1..inc[p.source]
    BY <1>9, PacketFields DEF PacketOK
  <2>2. /\ p.validity \in 1..inc'[p.source]
        /\ p.validity = inc'[p.source] => p.source # n
        /\ Once' => p.source # n
    BY <1>3, <1>8, <2>1
  <2>3. p.type = "Gossip" => GossipOK(p)'
    <3> HAVE p.type = "Gossip"
    <3>1. GossipOK(p) /\ p.name \in Names
      BY <1>9, <2>1, PacketFields DEF PacketOK
    <3> QED
      BY <1>3, <1>8, <2>1, <2>2, <3>1 DEF GossipOK
  <2>4. p.type = "GossipAck" => GossipAckOK(p)'
    <3> HAVE p.type = "GossipAck"
    <3>1. GossipAckOK(p) /\ p.name \in Names
      BY <1>9, <2>1, PacketFields DEF PacketOK
    <3>2. Once' => p.to # n
      BY <1>8, <3>1 DEF GossipAckOK
    <3> QED
      <4>1. /\ inc'[p.to] > 0
            /\ p.to # n => members'[p.to] = members[p.to]
            /\ p.source # n => /\ members'[p.source] = members[p.source]
                               /\ inc'[p.source] = inc[p.source]
        BY <1>3, <2>1, <3>1 DEF GossipAckOK
      <4> QED
        BY <1>2, <1>8, <2>2, <3>1, <3>2, <4>1 DEF GossipAckOK
  <2> QED
    BY <2>1, <2>2, <2>3, <2>4 DEF PacketOK
<1>10. Wire'
  BY <1>1, <1>2, <1>9 DEF Wire
<1>11. Checks'
  <2>1. Idle \in CheckType /\ Idle.pc = "idle" /\ Idle.acked = FALSE
    BY IdleOK DEF CheckOK, Idle
  <2>2. checks' = [checks EXCEPT ![n] = [i \in Slots |-> Idle]]
    BY DEF Boot
  <2> HIDE DEF Idle
  <2>3. checks' \in [Names -> [Slots -> CheckType]]
    BY <1>1, <2>1, <2>2 DEF Checks
  <2>4. ASSUME NEW a \in Names, NEW i \in Slots
        PROVE  CheckOK(a, checks[a][i])'
    <3>1. CASE a = n
      <4>1. checks'[a][i] = Idle
        BY <1>1, <2>2, <3>1 DEF Checks
      <4> QED
        BY <2>1, <4>1 DEF CheckOK
    <3>2. CASE a # n
      <4>1. checks'[a][i] = checks[a][i] /\ CheckOK(a, checks[a][i])
        BY <1>1, <2>2, <3>2 DEF Checks
      <4>2. checks[a][i].pc # "idle" => checks[a][i].target \in Names
        BY <1>1, <4>1 DEF Tables, TableInv, MembersType, CheckOK
      <4> QED
        BY <1>3, <3>2, <4>1, <4>2 DEF CheckOK
    <3> QED
      BY <3>1, <3>2
  <2> QED
    BY <2>3, <2>4 DEF Checks
<1>12. Timers' /\ Targets'
  BY <1>1, <1>3 DEF Boot, Timers, Targets
<1>13. Handlers'
  BY <1>1, <1>8 DEF Boot, Handlers
<1> QED
  BY <1>5, <1>6, <1>7, <1>10, <1>11, <1>12, <1>13 DEF Inv, Tasks

-----------------------------------------------------------------------------
(***************************************************************************)
(* The cluster.                                                            *)
(***************************************************************************)

\* Every step keeps the invariant, and is a start, a stop, or moves one table.
LEMMA StepInv ==
  ASSUME Inv, [Next]_vars
  PROVE  /\ Inv'
         /\ Effect \/ \E n \in Names : Boot(n) \/ Crash(n)
<1>1. CASE UNCHANGED vars
  BY <1>1, StutterInv
<1>2. ASSUME NEW n \in Names, Boot(n) \/ Crash(n)
      PROVE  Inv'
  BY <1>2, BootInv, CrashInv
<1>3. ASSUME NEW n \in Names, Detect(n)
      PROVE  Inv' /\ Effect
  <2>1. PICK i \in Slots :
          \/ CheckAcked(n, i) \/ PingTimeout(n, i) \/ SendPingReqs(n, i)
          \/ AwaitPingReq(n, i) \/ PingReqTimeout(n, i)
    BY <1>3 DEF Detect
  <2>2. UNCHANGED envVars
    BY <1>3 DEF Detect
  <2> QED
    BY <2>1, <2>2, CheckAckedInv, PingTimeoutInv, SendPingReqsInv,
       AwaitPingReqInv, PingReqTimeoutInv
<1>4. ASSUME NEW n \in Names, Tell(n)
      PROVE  Inv' /\ Effect
  BY <1>4, TellInv
<1>5. ASSUME NEW n \in Names, NEW t \in Names,
             Check(n, t) \/ Expel(n, t) \/ Choose(n, t)
      PROVE  Inv' /\ Effect
  <2>1. CASE Check(n, t)
    BY <2>1, CheckStartInv DEF Check
  <2> QED
    BY <1>5, <2>1, ExpelInv, ChooseInv
<1>6. ASSUME NEW n \in Names, NEW md \in Metadata, Update(n, md)
      PROVE  Inv' /\ Effect
  BY <1>6, UpdateInv
<1>7. ASSUME NEW n \in Names, NEW p \in network, Receive(n, p)
      PROVE  Inv' /\ Effect
  BY <1>7, ReceiveInv
<1>8. ASSUME NEW p \in network, Lose(p) \/ Drop(p)
      PROVE  Inv' /\ Effect
  BY <1>8, LoseInv
<1>9. CASE AtBound
  BY <1>9, StutterInv DEF AtBound
<1> QED
  BY <1>1, <1>2, <1>3, <1>4, <1>5, <1>6, <1>7, <1>8, <1>9 DEF Next

\* The invariant holds throughout.
LEMMA InvAlways == Spec => []Inv
<1>1. Init => Inv
  BY InitialInv
<1>2. Inv /\ [Next]_vars => Inv'
  BY StepInv
<1> QED
  BY <1>1, <1>2, PTL DEF Spec

\* Every variable keeps its type, the packets in flight and the histories
\* included, and no table ever loses track of which Member is its own.
THEOREM ClusterTyped == Spec => []TypeOK
<1>1. Inv => TypeOK
  <2> SUFFICES ASSUME Inv PROVE TypeOK
    OBVIOUS
  <2>1. \A n \in Names : /\ members[n] \in MembersType(n)
                         /\ \A m \in Names :
                              members[n].table[m].local <=> m = n
    BY DEF Inv, Tables, TableInv
  <2>2. network \subseteq Packet
    BY DEF Inv, Wire, PacketOK
  <2> QED
    BY <2>1, <2>2
       DEF Inv, Histories, Tasks, Checks, Timers, Targets, Handlers, TypeOK
<1> QED
  BY <1>1, InvAlways, PTL

\* Every packet, a forwarded ack too, speaks for an incarnation of its source
\* that has really run.
THEOREM ClusterGenuine == Spec => []Genuine
<1>1. Inv => Genuine
  BY DEF Inv, Wire, PacketOK, Genuine
<1> QED
  BY <1>1, InvAlways, PTL

\* No check and no gossip makes up a member: what has never run is OFFLINE to
\* everyone.
THEOREM ClusterNoPhantom == Spec => []NoPhantom
<1>1. Inv => NoPhantom
  <2> SUFFICES ASSUME Inv, NEW n \in Names, NEW m \in Names,
                      inc[m] = 0, up[n]
               PROVE  members[n].table[m].status = "OFFLINE"
    BY DEF NoPhantom
  <2>1. inc[n] > 0 /\ Belief(n, m)
    BY DEF Inv, Tables, Beliefs
  <2> QED
    BY <2>1 DEF Belief
<1> QED
  BY <1>1, InvAlways, PTL

\* The metadata that anyone holds of a member, or tells of it, is one that the
\* member gave itself.
THEOREM ClusterAuthentic == Spec => []MetadataAuthentic
<1>1. Inv => MetadataAuthentic
  <2> SUFFICES ASSUME Inv PROVE MetadataAuthentic
    OBVIOUS
  <2>1. ASSUME NEW n \in Names, NEW m \in Names, up[n]
        PROVE  members[n].table[m].metadata \in published[m] \cup {Unknown}
    <3>1. inc[n] > 0 /\ Belief(n, m)
      BY <2>1 DEF Inv, Tables, Beliefs
    <3> QED
      BY <3>1 DEF Belief
  <2>2. \A p \in network : p.type = "Gossip" => p.metadata \in published[p.name]
    BY DEF Inv, Wire, PacketOK, GossipOK
  <2> QED
    BY <2>1, <2>2 DEF MetadataAuthentic
<1> QED
  BY <1>1, InvAlways, PTL

\* As long as no process starts twice the assertion of ack_gossip never fails,
\* and every handler lives.
THEOREM ClusterHandlers == Spec => []HandlerAlive
<1>1. Inv => HandlerAlive
  BY DEF Inv, Tasks, Handlers, Once, HandlerAlive
<1> QED
  BY <1>1, InvAlways, PTL

\* What a process takes for known was acknowledged, by the very incarnation
\* that it takes the member for.
THEOREM ClusterKnown == Spec => []KnownIsAcked
<1>1. Inv => KnownIsAcked
  BY DEF Inv, Beliefs, Belief, KnownIsAcked
<1> QED
  BY <1>1, InvAlways, PTL

\* As long as nobody has changed its metadata, everyone knows the metadata of
\* everyone when nothing is left to tell.
THEOREM ClusterAtRest == Spec => []KnownAtRest
<1>1. Inv => KnownAtRest
  <2> SUFFICES ASSUME Inv, AtRest, updates = 0, NEW n \in Names,
                      NEW t \in Names, up[n], up[t]
               PROVE  members[t].table[n].metadata =
                        members[n].table[n].metadata
    BY DEF KnownAtRest, Agreed
  <2>1. CASE n = t
    BY <2>1
  <2>2. CASE n # t
    <3>1. /\ members[n].table[t].validity = inc[t]
          /\ get_gossip(members[n], t) = {}
      BY <2>2 DEF AtRest
    <3>2. TableInv(n, members[n])
      BY DEF Inv, Tables
    <3>3. /\ n \in Present(members[n]) /\ n = members[n].local
          /\ members[n].table[n].clock \in Nat
      BY <3>2 DEF TableInv, MembersType, MemberState, Present
    <3>4. members[n].table[t].known[n] # NoClock
      <4>1. ~needs_gossip(members[n].table[t], n, members[n].table[n].clock)
        BY <3>1, <3>3 DEF get_gossip
      <4> QED
        BY <3>3, <4>1 DEF needs_gossip, NoClock
    <3>5. members[t].table[n].metadata # Unknown
      BY <2>2, <3>1, <3>4 DEF Inv, Beliefs, Belief
    <3>6. members[t].table[n].metadata \in published[n]
      BY <2>2, <3>5 DEF Inv, Beliefs, Belief
    <3>7. published[n] \subseteq {members[n].table[n].metadata}
      BY DEF Inv, Tables
    <3> QED
      BY <3>6, <3>7
  <2> QED
    BY <2>1, <2>2
<1> QED
  BY <1>1, InvAlways, PTL

-----------------------------------------------------------------------------
(***************************************************************************)
(* The statuses behave as Detector says.                                   *)
(***************************************************************************)
Born  == {n \in Names : inc[n] > 0}
Views == [n \in Names |-> [m \in Names |-> members[n].table[m].status]]

\* Everyone starts with the view of Detector.
LEMMA InitViews == Init => View!Init
<1> SUFFICES ASSUME Init PROVE View!Init
  OBVIOUS
<1>1. up \in [Names -> BOOLEAN] /\ Born = {n \in Names : up[n]}
  <2>1. up = [n \in Names |-> n \in Running]
    BY DEF Init
  <2>2. \A n \in Names : inc[n] = IF n \in Running THEN 1 ELSE 0
    BY DEF Init
  <2>3. ASSUME NEW n \in Names PROVE inc[n] > 0 <=> up[n]
    <3>1. up[n] <=> n \in Running
      BY <2>1
    <3>2. inc[n] > 0 <=> n \in Running
      BY <2>2
    <3> QED
      BY <3>1, <3>2
  <2> QED
    BY <2>1, <2>3 DEF Born
<1>2. ASSUME NEW n \in Names
      PROVE  [m \in Names |-> members[n].table[m].status] = View!Blank(n)
  <2>1. PICK v \in Nat : members[n] = Started(n, v)
    BY DEF Init
  <2>2. InitTable(n, v, LocalMetadata[n], members[n])
    BY <2>1, StartedTable
  <2> QED
    BY <2>2 DEF InitTable, View!Blank
<1>3. Views = [n \in Names |-> View!Blank(n)]
  BY <1>2 DEF Views
<1> QED
  BY <1>1, <1>3 DEF View!Init, Born, Views

\* A start begins with it again.
LEMMA BootViews ==
  ASSUME Inv, NEW n \in Names, Boot(n)
  PROVE  View!Start(n)
<1>1. inc[n] \in Nat /\ DOMAIN members = Names /\ inc \in [Names -> Nat]
  BY DEF Inv, Histories, Tables
<1>2. PICK v \in Nat : v = inc[n] + 1
  BY <1>1
<1>3. members' = [members EXCEPT ![n] = Started(n, v)]
  BY <1>2 DEF Boot
<1>4. InitTable(n, v, LocalMetadata[n], members'[n])
  BY <1>1, <1>3, StartedTable
<1>5. [m \in Names |-> members'[n].table[m].status] = View!Blank(n)
  BY <1>4 DEF InitTable, View!Blank
<1>6. \A a \in Names : a # n => members'[a] = members[a]
  BY <1>1, <1>3
<1>7. Views' = [Views EXCEPT ![n] = View!Blank(n)]
  BY <1>5, <1>6 DEF Views
<1>8. Born' = Born \cup {n}
  BY <1>1 DEF Boot, Born
<1> QED
  BY <1>7, <1>8 DEF Boot, View!Start, Views, Born

\* A step that moves one table changes one view, along an edge of Detector.
LEMMA EffectViews ==
  ASSUME Inv, Effect
  PROVE  [View!Next]_(View!vars)
<1>1. CASE UNCHANGED <<up, inc, members>>
  <2>1. Views' = Views /\ Born' = Born /\ up' = up
    BY <1>1 DEF Views, Born
  <2> QED
    BY <2>1 DEF View!vars, Views, Born
<1>2. ASSUME NEW n \in Names, up[n], Evolution(n, members'[n])
      PROVE  [View!Next]_(View!vars)
  <2>1. up' = up /\ Born' = Born
    BY <1>2 DEF Evolution, Born
  <2>2. \A a \in Names : a # n => members'[a] = members[a]
    BY <1>2, EvolutionTable DEF Inv
  <2>3. CASE \A m \in Names :
               members'[n].table[m].status = members[n].table[m].status
    <3>1. Views' = Views
      BY <2>2, <2>3 DEF Views
    <3> QED
      BY <2>1, <3>1 DEF View!vars, Views, Born
  <2>4. ASSUME NEW m \in Names,
               members'[n].table[m].status # members[n].table[m].status
        PROVE  View!Next
    <3> DEFINE old == members[n].table[m].status
               new == members'[n].table[m].status
    <3>1. \A k \in Names : k # m =>
            members'[n].table[k].status = members[n].table[k].status
      BY <1>2, <2>4 DEF Evolution, Moves
    <3>2. Views' = [Views EXCEPT ![n][m] = new]
      BY <2>2, <3>1 DEF Views
    <3>3. \/ new = "ONLINE" /\ m # n /\ m \in Born
          \/ old = "ONLINE" /\ new = "SUSPECT"
          \/ old = "SUSPECT" /\ new = "OFFLINE"
      BY <1>2, <2>4 DEF Evolution, Moves, Moved, Born
    <3>4. Views[n][m] = old
      BY DEF Views
    <3> HIDE DEF old, new
    <3>5. View!Trust(n, m) \/ View!Suspect(n, m) \/ View!Expel(n, m)
      BY <1>2, <2>1, <3>2, <3>3, <3>4
         DEF View!Trust, View!Suspect, View!Expel, View!Turn, Views, Born
    <3> QED
      BY <3>5 DEF View!Next
  <2> QED
    BY <2>3, <2>4
<1> QED
  BY <1>1, <1>2 DEF Effect

\* The cluster implements Detector: gossip, checks and timers together change
\* one view of one process at a time, never skip SUSPECT on the way to OFFLINE,
\* trust only what has run, and never tell a process that it is ONLINE after
\* all.
THEOREM ClusterDetects == Spec => DetectorSpec
<1>1. Init => View!Init
  BY InitViews
<1>2. Inv /\ [Next]_vars => [View!Next]_(View!vars)
  <2> SUFFICES ASSUME Inv, [Next]_vars PROVE [View!Next]_(View!vars)
    OBVIOUS
  <2>1. CASE Effect
    BY <2>1, EffectViews
  <2>2. ASSUME NEW n \in Names, Boot(n)
        PROVE  View!Next
    BY <2>2, BootViews DEF View!Next
  <2>3. ASSUME NEW n \in Names, Crash(n)
        PROVE  View!Next
    <3>1. View!Stop(n)
      BY <2>3 DEF Crash, workerVars, View!Stop
    <3> QED
      BY <3>1 DEF View!Next
  <2> QED
    BY <2>1, <2>2, <2>3, StepInv
<1> QED
  BY <1>1, <1>2, InvAlways, PTL DEF Spec, DetectorSpec, View!Spec

=============================================================================
