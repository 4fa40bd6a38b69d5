------------------------------- MODULE Worker -------------------------------
(***************************************************************************)
(* swimprotocol/worker.py: the Worker of every process of the cluster, and *)
(* the packets in flight between them.                                     *)
(*                                                                         *)
(* A worker is a set of asyncio tasks on one thread: between two awaits    *)
(* that can suspend nothing else of the process runs, so a stretch of code *)
(* between two such awaits is one action here.  Putting a packet on the    *)
(* unbounded send queue never suspends.  The send queue, the transport and *)
(* the receive queue of the destination are one set of packets: the        *)
(* transport packs and unpacks in a thread pool and sends each packet in a *)
(* task of its own, so it keeps no order.                                  *)
(***************************************************************************)
EXTENDS MembersOps, Packet

CONSTANTS Slots,         \* bound: the checks one process has in progress
          PingReqCount,  \* config.ping_req_count
          MaxClock,      \* bound: no update once a process's clock is beyond
          MaxPremature   \* bound: timers that run out early

ASSUME WorkerAssumption ==
  /\ {"ALL", "AVAILABLE"} \subseteq Tracked
  /\ PingReqCount \in Nat
  /\ MaxClock \in Nat
  /\ MaxPremature \in Nat

VARIABLES up,         \* whether the process runs
          members,    \* its Members object
          checks,     \* per slot, the call of check in progress
          listening,  \* _listening: per target, who asked for its ack
          suspect,    \* _suspect: the members with a suspicion timer
          gossiping,  \* the target of a disseminate that is yet to start
          handling,   \* whether _run_handler is alive
          network,    \* the packets on their way
          premature   \* the number of timers that ran out early so far

workerVars == <<members, checks, listening, suspect, gossiping, handling>>

-----------------------------------------------------------------------------
(***************************************************************************)
(* A call of check: waiting for the ping ("ping"), between the timeout and *)
(* the tasks that send the ping-reqs ("send"), between those and the       *)
(* registration of the second event ("sent"), waiting for the ping-req     *)
(* ("req").  acked is the state of the event it waits on.                  *)
(***************************************************************************)
Idle == [pc |-> "idle", target |-> NoMember, acked |-> FALSE,
         indirects |-> {}]

CheckType == [pc : {"idle", "ping", "send", "sent", "req"},
              target : Names \cup {NoMember}, acked : BOOLEAN,
              indirects : SUBSET Names]

Waiting(check) == check.pc \in {"ping", "req"}

\* Mutant of notify_waiting: any packet answers every check.
notify_waiting_All(cs, p) ==
  [i \in Slots |->
     [cs[i] EXCEPT !.acked = @ \/ Waiting(cs[i])]]

\* _notify_waiting(source): set every event that waits for source.
notify_waiting(cs, p) ==
  [i \in Slots |->
     IF cs[i].target # p.source THEN cs[i]
     ELSE [cs[i] EXCEPT !.acked = @ \/ Waiting(cs[i])]]

\* Mutant of handle_status: suspicion starts no timer.
handle_status_NoTimer(timers, target, status) ==
  IF status = "SUSPECT" THEN timers ELSE timers \ {target}

\* _handle_status(target, status): the timers afterwards.
handle_status(timers, target, status) ==
  IF status = "SUSPECT" THEN timers \cup {target} ELSE timers \ {target}

OwnValidity(n) == members[n].table[n].validity

-----------------------------------------------------------------------------
(***************************************************************************)
(* Timers.  A timeout of a check is early if the target is up and a packet *)
(* to or from it is still on its way; the suspicion timer of a running     *)
(* member is; a round of one of the two loops is if any packet is still on *)
(* its way.  At most MaxPremature timers run out early, the others do so   *)
(* at any time.                                                            *)
(***************************************************************************)
Outstanding(t) == \E p \in network : p.to = t \/ p.source = t

Expire(early) ==
  /\ early => premature < MaxPremature
  /\ premature' = IF early THEN premature + 1 ELSE premature

\* The end of check: record and announce what was found out.
Conclude(n, i, status) ==
  LET t == checks[n][i].target
  IN  /\ members[n].next_clock <= MaxClock
      /\ suspect' = [suspect EXCEPT ![n] = handle_status(@, t, status)]
      /\ members' = [members EXCEPT ![n] = update(@, t, status, Unknown)]
      /\ checks' = [checks EXCEPT ![n][i] = Idle]

\* run_failure_detection: choose a target and start to check it.
CheckStart(n, i, t) ==
  /\ up[n] /\ checks[n][i] = Idle
  /\ Expire(network # {})
  /\ \E found \in find(members[n], 1, "ALL", {}) : t \in found
  /\ network' = network \cup {Ping(t, n, OwnValidity(n))}
  /\ checks' = [checks EXCEPT ![n][i] = [Idle EXCEPT !.pc = "ping",
                                                     !.target = t]]
  /\ UNCHANGED <<up, members, listening, suspect, gossiping, handling>>

\* The wait for an ack ends because the event is set.
CheckAcked(n, i) ==
  /\ up[n] /\ Waiting(checks[n][i]) /\ checks[n][i].acked
  /\ Conclude(n, i, "ONLINE")
  /\ UNCHANGED <<up, listening, gossiping, handling, network, premature>>

\* The ping times out.  Without anyone to ask, check is over.
PingTimeout(n, i) ==
  LET t == checks[n][i].target
  IN  /\ up[n] /\ checks[n][i].pc = "ping" /\ ~checks[n][i].acked
      /\ Expire(up[t] /\ Outstanding(t))
      /\ \E found \in find(members[n], PingReqCount, "AVAILABLE", {t}) :
           \/ /\ found # {}
              /\ checks' = [checks EXCEPT ![n][i].pc = "send",
                                          ![n][i].indirects = found]
              /\ UNCHANGED <<members, suspect>>
           \/ found = {} /\ Conclude(n, i, "SUSPECT")
      /\ UNCHANGED <<up, listening, gossiping, handling, network>>

\* The tasks that send the ping-reqs run.
SendPingReqs(n, i) ==
  LET c == checks[n][i]
  IN  /\ up[n] /\ c.pc = "send"
      /\ network' = network \cup {PingReq(m, n, OwnValidity(n), c.target) :
                                    m \in c.indirects}
      /\ checks' = [checks EXCEPT ![n][i].pc = "sent"]
      /\ UNCHANGED <<up, members, listening, suspect, gossiping, handling,
                     premature>>

\* asyncio.wait returns and check registers its second event.
AwaitPingReq(n, i) ==
  /\ up[n] /\ checks[n][i].pc = "sent"
  /\ checks' = [checks EXCEPT ![n][i].pc = "req"]
  /\ UNCHANGED <<up, members, listening, suspect, gossiping, handling,
                 network, premature>>

PingReqTimeout(n, i) ==
  LET t == checks[n][i].target
  IN  /\ up[n] /\ checks[n][i].pc = "req" /\ ~checks[n][i].acked
      /\ Expire(up[t] /\ Outstanding(t))
      /\ Conclude(n, i, "SUSPECT")
      /\ UNCHANGED <<up, listening, gossiping, handling, network>>

\* _suspect_wait: the timer of t expires.
SuspectTimeout(n, t) ==
  /\ up[n] /\ t \in suspect[n]
  /\ members[n].next_clock <= MaxClock
  /\ Expire(up[t])
  /\ members' = [members EXCEPT ![n] = update(@, t, "OFFLINE", Unknown)]
  /\ suspect' = [suspect EXCEPT ![n] = @ \ {t}]
  /\ UNCHANGED <<up, checks, listening, gossiping, handling, network>>

-----------------------------------------------------------------------------
(***************************************************************************)
(* Dissemination.                                                          *)
(***************************************************************************)

\* run_dissemination: choose a target; the subtask starts later.
ChooseTarget(n, t) ==
  /\ up[n] /\ gossiping[n] = NoMember
  /\ Expire(network # {})
  /\ \E found \in find(members[n], 1, "AVAILABLE", {}) : t \in found
  /\ gossiping' = [gossiping EXCEPT ![n] = t]
  /\ UNCHANGED <<up, members, checks, listening, suspect, handling, network>>

\* Mutant of build_gossip: it sends the process's own metadata.
build_gossip_OwnMetadata(n, t, m) ==
  Gossip(t, n, OwnValidity(n), m,
         [members[n].table[m] EXCEPT
            !.metadata = members[n].table[n].metadata])

\* _build_gossip
build_gossip(n, t, m) ==
  Gossip(t, n, OwnValidity(n), m, members[n].table[m])

\* disseminate: tell the target everything it has not acknowledged.
Disseminate(n) ==
  LET t == gossiping[n]
  IN  /\ up[n] /\ t # NoMember
      /\ network' = network \cup
           {build_gossip(n, t, m) : m \in get_gossip(members[n], t)}
      /\ gossiping' = [gossiping EXCEPT ![n] = NoMember]
      /\ UNCHANGED <<up, members, checks, listening, suspect, handling,
                     premature>>

\* The application gives its own member new metadata.
SetMetadata(n, metadata) ==
  /\ up[n]
  /\ members[n].next_clock <= MaxClock
  /\ members' = [members EXCEPT ![n] = update(@, n, NoStatus, metadata)]
  /\ UNCHANGED <<up, checks, listening, suspect, gossiping, handling,
                 network, premature>>

-----------------------------------------------------------------------------
(***************************************************************************)
(* _run_handler: one iteration per packet.  Every packet first tells that  *)
(* its source lives: Heard is the part that all of them share, sending     *)
(* what this one has to send (packets) and taking it off the network       *)
(* (rest).                                                                 *)
(***************************************************************************)

\* Mutant of Forwarded: the ack carries the validity known before the packet.
Forwarded_Stale(n, p, ms) ==
  {Ack(t, p.source, members[n].table[p.source].validity) :
     t \in listening[n][p.source]}

\* The acks that _get_listening makes the handler forward.
Forwarded(n, p, ms) ==
  {Ack(t, p.source, ms.table[p.source].validity) :
     t \in listening[n][p.source]}

Heard(n, p, ms, rest, packets) ==
  /\ up[n] /\ handling[n] /\ p.to = n
  /\ checks' = [checks EXCEPT ![n] = notify_waiting(@, p)]
  /\ network' = rest \cup Forwarded(n, p, ms) \cup packets
  /\ UNCHANGED <<up, gossiping, premature>>

HandlePing(n, p, rest) ==
  LET ms == get(members[n], p.source, p.validity)
  IN  /\ p.type = "Ping"
      /\ Heard(n, p, ms, rest, {Ack(p.source, n, OwnValidity(n))})
      /\ members' = [members EXCEPT ![n] = ms]
      /\ listening' = [listening EXCEPT ![n][p.source] = {}]
      /\ UNCHANGED <<suspect, handling>>

HandlePingReq(n, p, rest) ==
  LET ms      == get(members[n], p.source, p.validity)
      cleared == [listening[n] EXCEPT ![p.source] = {}]
  IN  /\ p.type = "PingReq"
      /\ Heard(n, p, ms, rest, {Ping(p.target, n, OwnValidity(n))})
      /\ members' = [members EXCEPT ![n] = get(ms, p.target, NoValidity)]
      /\ listening' = [listening EXCEPT
           ![n] = [cleared EXCEPT
                     ![p.target] = cleared[p.target] \cup {p.source}]]
      /\ UNCHANGED <<suspect, handling>>

HandleAck(n, p, rest) ==
  LET ms == get(members[n], p.source, p.validity)
  IN  /\ p.type = "Ack"
      /\ Heard(n, p, ms, rest, {})
      /\ members' = [members EXCEPT ![n] = ms]
      /\ listening' = [listening EXCEPT ![n][p.source] = {}]
      /\ UNCHANGED <<suspect, handling>>

\* Mutant of apply_gossip_ack: it carries the clock of the process.
apply_gossip_ack_OwnClock(n, p, ms) ==
  GossipAck(p.source, n, OwnValidity(n), p.name, ms.next_clock)

\* Mutant of apply_gossip_ack: it names the process, not the member.
apply_gossip_ack_Self(n, p, ms) ==
  GossipAck(p.source, n, OwnValidity(n), n, p.clock)

\* The answer of _apply_gossip.
apply_gossip_ack(n, p, ms) ==
  GossipAck(p.source, n, OwnValidity(n), p.name, p.clock)

\* With _apply_gossip: the timers follow the status in the packet whether or
\* not the update is then applied.
HandleGossip(n, p, rest) ==
  LET heard == get(members[n], p.source, p.validity)
      ms    == get(heard, p.name, NoValidity)
  IN  /\ p.type = "Gossip"
      /\ ms.next_clock <= MaxClock
      /\ Heard(n, p, heard, rest, {apply_gossip_ack(n, p, ms)})
      /\ suspect' = [suspect EXCEPT ![n] = handle_status(@, p.name, p.status)]
      /\ members' = [members EXCEPT
           ![n] = apply(ms, p.name, p.source, p.clock, p.status, p.metadata)]
      /\ listening' = [listening EXCEPT ![n][p.source] = {}]
      /\ UNCHANGED handling

\* Where the assertion of ack_gossip fails the handler task ends.
HandleGossipAck(n, p, rest) ==
  LET heard == get(members[n], p.source, p.validity)
      ms    == get(heard, p.name, NoValidity)
  IN  /\ p.type = "GossipAck"
      /\ Heard(n, p, heard, rest, {})
      /\ \/ /\ AckAsserted(ms, p.clock)
            /\ members' = [members EXCEPT
                 ![n] = ack_gossip(ms, p.name, p.source, p.clock)]
            /\ UNCHANGED handling
         \/ /\ ~AckAsserted(ms, p.clock)
            /\ members' = [members EXCEPT ![n] = ms]
            /\ handling' = [handling EXCEPT ![n] = FALSE]
      /\ listening' = [listening EXCEPT ![n][p.source] = {}]
      /\ UNCHANGED suspect

Handle(n, p, rest) ==
  \/ HandlePing(n, p, rest)
  \/ HandlePingReq(n, p, rest)
  \/ HandleAck(n, p, rest)
  \/ HandleGossip(n, p, rest)
  \/ HandleGossipAck(n, p, rest)

=============================================================================
