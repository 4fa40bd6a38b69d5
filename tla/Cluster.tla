------------------------------ MODULE Cluster -------------------------------
(***************************************************************************)
(* A cluster: the workers of all processes, processes that start, stop and *)
(* start again, and a transport (udp/) that loses and duplicates packets,  *)
(* delivers them in any order and may deliver them to a later incarnation  *)
(* of their destination.                                                   *)
(***************************************************************************)
EXTENDS Worker

CONSTANTS Peers,            \* config.peers of each process
          LocalMetadata,    \* config.local_metadata of each process
          Running,          \* the processes that run from the start
          MaxIncarnations,  \* bound: how often a process starts
          Crashing,         \* bound: the processes that may stop
          Checkers,         \* bound: those that run run_failure_detection
          Gossipers,        \* bound: those that run run_dissemination
          MaxUpdates,       \* bound: calls that change a process's metadata
          MaxEvents         \* bound: those, lost packets, repeated packets
                            \* and stops together

\* What config.py asks of peers: at least one name, of other members.
ASSUME ClusterAssumption ==
  /\ Peers \in [Names -> Seq(Names)]
  /\ \A n \in Names :
       /\ Peers[n] # << >>
       /\ \A i \in DOMAIN Peers[n] : Peers[n][i] # n
       /\ \A i, j \in DOMAIN Peers[n] : Peers[n][i] = Peers[n][j] => i = j
  /\ LocalMetadata \in [Names -> Metadata]
  /\ Running \subseteq Names
  /\ Crashing \subseteq Names
  /\ Checkers \subseteq Names /\ Gossipers \subseteq Names
  /\ MaxIncarnations \in Nat /\ MaxUpdates \in Nat
  /\ MaxEvents \in Nat

VARIABLES inc,        \* the number of times the process has started
          updates,    \* the number of changes of metadata so far
          faults,     \* the packets lost or repeated, and stops, so far
          published,  \* history: every metadata a process has given itself
          acked       \* history: what each incarnation has acknowledged
envVars == <<inc, updates, faults, published, acked>>
vars == <<workerVars, up, network, premature, envVars>>

\* The state of the worker of a process that has just started.
Started(n, validity) ==
  InitMembers(n, Peers[n], validity, LocalMetadata[n])

Init ==
  /\ up        = [n \in Names |-> n \in Running]
  /\ inc       = [n \in Names |-> IF n \in Running THEN 1 ELSE 0]
  /\ members   = [n \in Names |-> Started(n, inc[n])]
  /\ checks    = [n \in Names |-> [i \in Slots |-> Idle]]
  /\ listening = [n \in Names |-> [m \in Names |-> {}]]
  /\ suspect   = [n \in Names |-> {}]
  /\ gossiping = [n \in Names |-> NoMember]
  /\ handling  = [n \in Names |-> TRUE]
  /\ network   = {} /\ premature = 0
  /\ updates = 0 /\ faults = 0
  /\ published = [n \in Names |-> IF n \in Running THEN {LocalMetadata[n]}
                                                   ELSE {}]
  /\ acked     = {}

-----------------------------------------------------------------------------
\* A process starts: Members.__init__ and Worker.__init__.
Boot(n) ==
  /\ ~up[n] /\ inc[n] < MaxIncarnations
  /\ inc'       = [inc EXCEPT ![n] = @ + 1]
  /\ up'        = [up EXCEPT ![n] = TRUE]
  /\ members'   = [members EXCEPT ![n] = Started(n, inc[n] + 1)]
  /\ checks'    = [checks EXCEPT ![n] = [i \in Slots |-> Idle]]
  /\ listening' = [listening EXCEPT ![n] = [m \in Names |-> {}]]
  /\ suspect'   = [suspect EXCEPT ![n] = {}]
  /\ gossiping' = [gossiping EXCEPT ![n] = NoMember]
  /\ handling'  = [handling EXCEPT ![n] = TRUE]
  /\ published' = [published EXCEPT ![n] = @ \cup {LocalMetadata[n]}]
  /\ UNCHANGED <<network, premature, updates, faults, acked>>

\* Something may still go wrong, or change.
Eventful == faults + updates < MaxEvents

\* It stops at any point, without a word.
Crash(n) ==
  /\ up[n] /\ n \in Crashing /\ Eventful
  /\ up' = [up EXCEPT ![n] = FALSE]
  /\ faults' = faults + 1
  /\ UNCHANGED <<workerVars, network, premature, inc, updates, published,
                 acked>>

\* The transport hands a packet to the worker, and may do so again.
Receive(n, p) ==
  /\ p \in network
  /\ \/ Handle(n, p, network \ {p}) /\ UNCHANGED faults
     \/ Eventful /\ Handle(n, p, network) /\ faults' = faults + 1
  /\ acked' = IF p.type = "Gossip"
              THEN acked \cup {<<n, inc[n], p.name, p.clock>>} ELSE acked
  /\ UNCHANGED <<inc, updates, published>>

Lose(p) ==
  /\ p \in network /\ Eventful
  /\ network' = network \ {p}
  /\ faults' = faults + 1
  /\ UNCHANGED <<workerVars, up, premature, inc, updates, published,
                 acked>>

\* A packet whose destination does not take packets gets lost.
Drop(p) ==
  /\ p \in network /\ ~(up[p.to] /\ handling[p.to])
  /\ network' = network \ {p}
  /\ UNCHANGED <<workerVars, up, premature, envVars>>

Update(n, metadata) ==
  /\ updates < MaxUpdates /\ Eventful
  /\ updates' = IF metadata = members[n].table[n].metadata THEN updates
                                                          ELSE updates + 1
  /\ published' = [published EXCEPT ![n] = @ \cup {metadata}]
  /\ SetMetadata(n, metadata)
  /\ UNCHANGED <<inc, faults, acked>>

\* The steps a running process takes by itself.
Detect(n) ==
  /\ \E i \in Slots :
       \/ CheckAcked(n, i) \/ PingTimeout(n, i) \/ SendPingReqs(n, i)
       \/ AwaitPingReq(n, i) \/ PingReqTimeout(n, i)
  /\ UNCHANGED envVars

Check(n, t) ==
  /\ n \in Checkers
  /\ \E i \in Slots : CheckStart(n, i, t)
  /\ UNCHANGED envVars
Choose(n, t) == n \in Gossipers /\ ChooseTarget(n, t) /\ UNCHANGED envVars
Expel(n, t)  == SuspectTimeout(n, t) /\ UNCHANGED envVars
Tell(n)      == Disseminate(n) /\ UNCHANGED envVars

\* The model ends where a clock has reached its bound or nobody runs.
AtBound ==
  /\ \/ \E n \in Names : members[n].next_clock > MaxClock
     \/ \A n \in Names : ~up[n]
  /\ UNCHANGED vars

Next ==
  \/ \E n \in Names : Boot(n) \/ Crash(n) \/ Detect(n) \/ Tell(n)
  \/ \E n, t \in Names : Check(n, t) \/ Expel(n, t) \/ Choose(n, t)
  \/ \E n \in Names, md \in Metadata : Update(n, md)
  \/ \E n \in Names, p \in network : Receive(n, p)
  \/ \E p \in network : Lose(p) \/ Drop(p)
  \/ AtBound

Spec == Init /\ [][Next]_vars

-----------------------------------------------------------------------------
(***************************************************************************)
(* Fairness.  The loops of a process run forever and choose their targets  *)
(* at random, so each target is chosen again and again (strong fairness);  *)
(* the suspicion timer of another member expires unless it is cancelled;   *)
(* of the packets that are on their way to a process, one arrives or, if   *)
(* the process takes no packets, gets lost.                                *)
(* Starting, stopping, updating, losing and repeating is never forced, nor *)
(* is it that a timer a process keeps for itself runs out.                 *)
(***************************************************************************)
Deliver(n) == \E p \in network : Receive(n, p) \/ (p.to = n /\ Drop(p))

Fairness ==
  /\ \A n \in Names : /\ WF_vars(Detect(n)) /\ WF_vars(Tell(n))
                      /\ WF_vars(Deliver(n))
  /\ \A n \in Checkers : \A t \in Names \ {n} : SF_vars(Check(n, t))
  /\ \A n \in Gossipers : \A t \in Names \ {n} : SF_vars(Choose(n, t))
  /\ \A n \in Names : \A t \in Names \ {n} : WF_vars(Expel(n, t))

FairSpec == Spec /\ Fairness

-----------------------------------------------------------------------------
\* Every variable has its type; the Member of a process in its own table, and
\* no other, is marked local.
TypeOK ==
  /\ up \in [Names -> BOOLEAN]
  /\ \A n \in Names : /\ members[n] \in MembersType(n)
                        /\ \A m \in Names :
                             members[n].table[m].local <=> m = n
  /\ checks \in [Names -> [Slots -> CheckType]]
  /\ listening \in [Names -> [Names -> SUBSET Names]]
  /\ suspect \in [Names -> SUBSET Names]
  /\ gossiping \in [Names -> Names \cup {NoMember}]
  /\ handling \in [Names -> BOOLEAN]
  /\ network \subseteq Packet
  /\ premature \in Nat
  /\ inc \in [Names -> Nat]
  /\ updates \in Nat /\ faults \in Nat
  /\ published \in [Names -> SUBSET Metadata]
  /\ acked \subseteq Names \X Nat \X Names \X Nat

\* Every packet, a forwarded ack too, speaks for an incarnation of its source
\* that has really run.
Genuine == \A p \in network : p.validity \in 1..inc[p.source]

\* Nobody ever takes a member that has never run for anything but OFFLINE,
\* whatever is lost, repeated or delayed, and however many others relay what
\* they believe: neither a check nor gossip makes up a member.
NoPhantom ==
  \A n, m \in Names :
    inc[m] = 0 /\ up[n] => members[n].table[m].status = "OFFLINE"

\* The metadata anyone holds of a member, or a packet carries, is one that
\* the member gave itself: "the only member whose metadata may be changed" is
\* the local one (intro.rst:63).
MetadataAuthentic ==
  /\ \A n, m \in Names :
       up[n] => members[n].table[m].metadata \in published[m] \cup {Unknown}
  /\ \A p \in network : p.type = "Gossip" => p.metadata \in published[p.name]

\* As long as no process starts twice, the assertion of ack_gossip holds for
\* every acknowledgement, late ones and repeated ones included, and the
\* handler of every process lives.
HandlerAlive ==
  (\A n \in Names : inc[n] <= 1) => \A n \in Names : handling[n]

\* What n takes for known by t was acknowledged by the incarnation of t that
\* n takes t for: acknowledgements of one incarnation never pass for those of
\* another, in whatever order the packets of both arrive.
KnownIsAcked ==
  \A n, t, m \in Names :
    LET mem == members[n].table[t]
    IN  up[n] /\ mem.known[m] # NoClock =>
          <<t, mem.validity, m, mem.known[m]>> \in acked

\* Nothing is on its way, nobody has anything left to tell, and everybody has
\* met the present incarnation of everybody.
AtRest ==
  /\ network = {}
  /\ \A n, t \in Names :
       n # t /\ up[n] /\ up[t] =>
         /\ members[n].table[t].validity = inc[t]
         /\ gossiping[n] = NoMember
         /\ get_gossip(members[n], t) = {}

Agreed == \A n, t \in Names :
  up[n] /\ up[t] => members[t].table[n].metadata = members[n].table[n].metadata

\* As long as nobody has changed its metadata, an acknowledgement can be
\* believed: at rest everyone knows the metadata of everyone.
KnownAtRest == AtRest /\ updates = 0 => Agreed

\* The statuses behave as Detector says: gossip, checks and timers together
\* change one view of one process at a time, never skip SUSPECT on the way to
\* OFFLINE, trust only what has run, and never change what a process says of
\* itself for the better.
View == INSTANCE Detector WITH
          running <- up,
          born    <- {n \in Names : inc[n] > 0},
          view    <- [n \in Names |->
                        [m \in Names |-> members[n].table[m].status]]
DetectorSpec == View!Spec

-----------------------------------------------------------------------------
(***************************************************************************)
(* What the documentation says and the code does not keep.                 *)
(***************************************************************************)

\* members.py:360 asserts that nobody acknowledges more than was ever sent.
AckAssertionHolds == \A n \in Names : handling[n]

\* intro.rst:63, of the local member: "This member is *always* online".
LocalOnline ==
  \A n \in Names : up[n] => members[n].table[n].status = "ONLINE"

\* intro.rst:95, of metadata: "the latest mapping will always be disseminated
\* across the cluster": at rest everyone holds the metadata that each member
\* gives itself.
LatestAtRest == AtRest => Agreed

-----------------------------------------------------------------------------
(***************************************************************************)
(* What a cluster comes to.  LocalOnline and LatestAtRest do not hold, so  *)
(* convergence is claimed of the behaviours in which the two causes do not *)
(* occur, and only of them.                                                *)
(***************************************************************************)

\* What a process says of itself to another is never on its way in two
\* versions that carry different metadata, so that none overtakes the other.
InOrder ==
  \A p, q \in network :
    /\ p.type = "Gossip" /\ p.name = p.source
    /\ q.type = "Gossip" /\ q.name = p.name
    /\ q.source = p.source /\ q.to = p.to
    => p.metadata = q.metadata

\* Everyone sees exactly the running processes ONLINE, with the metadata they
\* give themselves, and the others OFFLINE.
Settled ==
  \A n, m \in Names :
    n # m /\ up[n] =>
      IF up[m] THEN /\ members[n].table[m].status = "ONLINE"
                    /\ members[n].table[m].metadata =
                         members[m].table[m].metadata
               ELSE members[n].table[m].status = "OFFLINE"

NoGossip == \A p \in network : p.type # "Gossip"

\* After late starts, timers that run out early, stops, changes of metadata
\* and lost or repeated packets, acknowledgements included, everyone's view
\* settles for good, and "no gossip is sent at all until the next time a member
\* changes" (intro.rst:43) - unless a process ceases to be ONLINE to itself, or
\* two versions of its metadata are on their way at once.
Converges == [](LocalOnline /\ InOrder) => <>[](Settled /\ NoGossip)

=============================================================================
