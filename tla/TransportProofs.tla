-------------------------- MODULE TransportProofs ---------------------------
(***************************************************************************)
(* The transport implements Channel, for any packets, sizes, signatures,   *)
(* addresses and any number of faults.                                     *)
(***************************************************************************)
EXTENDS Transport, SequenceTheorems, TLAPS

Stages == {"new", "queued", "packing", "datagram", "connecting", "stream",
           "gone"}

\* The inductive invariant: types, and that whatever has got as far as the
\* receive queue was verified on the way.
Inv ==
  /\ stage \in [Packets -> Stages]
  /\ unpacking \subseteq Packets \X Nat
  /\ buf \in [Packets -> Nat]
  /\ recv_queue \in Seq(Trusted)

\* Only what is signed with the secret of the cluster is unpacked.
LEMMA UnpackVerifies ==
  ASSUME NEW p, NEW length \in Nat, unpack(p, length) = "packet"
  PROVE  verify(p)
  BY DEF unpack, PrefixLen

\* The part of InTransit that is in the sender or on the network.
Underway == {p \in Packets : stage[p] \notin {"new", "gone"}}

\* The elements of a queue of packets that grows or shrinks by one.
LEMMA QueueAppend ==
  ASSUME NEW S, NEW q \in Seq(S), NEW e \in S
  PROVE  /\ Append(q, e) \in Seq(S)
         /\ {Append(q, e)[i] : i \in DOMAIN Append(q, e)} =
              {q[i] : i \in DOMAIN q} \cup {e}
<1>1. /\ Append(q, e) \in Seq(S) /\ Len(q) \in Nat
      /\ DOMAIN Append(q, e) = 1..(Len(q) + 1) /\ DOMAIN q = 1..Len(q)
      /\ \A i \in 1..Len(q) : Append(q, e)[i] = q[i]
      /\ Append(q, e)[Len(q) + 1] = e
  BY AppendProperties, LenProperties
<1>2. \A i : i \in 1..(Len(q) + 1) <=> i \in 1..Len(q) \/ i = Len(q) + 1
  BY <1>1
<1> QED
  BY <1>1, <1>2

LEMMA QueueTail ==
  ASSUME NEW S, NEW q \in Seq(S), q # << >>
  PROVE  /\ Tail(q) \in Seq(S) /\ Head(q) \in S
         /\ {q[i] : i \in DOMAIN q} =
              {Tail(q)[i] : i \in DOMAIN Tail(q)} \cup {Head(q)}
<1>1. /\ Tail(q) \in Seq(S) /\ Head(q) \in S
      /\ Len(Tail(q)) = Len(q) - 1 /\ Len(q) \in Nat \ {0}
      /\ \A i \in 1..Len(Tail(q)) : Tail(q)[i] = q[i + 1]
      /\ DOMAIN Tail(q) = 1..Len(Tail(q)) /\ DOMAIN q = 1..Len(q)
      /\ Head(q) = q[1]
  BY HeadTailProperties, EmptySeq, LenProperties
<1>2. ASSUME NEW i \in 1..Len(q), i # 1
      PROVE  \E j \in 1..(Len(q) - 1) : i = j + 1
  <2>1. i - 1 \in 1..(Len(q) - 1) /\ i = (i - 1) + 1
    BY <1>1, <1>2
  <2> QED
    BY <2>1
<1> DEFINE A == {q[i] : i \in DOMAIN q}
           B == {Tail(q)[i] : i \in DOMAIN Tail(q)}
<1>3. A \subseteq B \cup {Head(q)}
  <2> SUFFICES ASSUME NEW i \in 1..Len(q) PROVE q[i] \in B \cup {Head(q)}
    BY <1>1
  <2>1. CASE i = 1
    BY <1>1, <2>1
  <2>2. ASSUME NEW j \in 1..(Len(q) - 1), i = j + 1 PROVE q[i] \in B
    BY <1>1, <2>2
  <2> QED
    BY <1>2, <2>1, <2>2
<1>4. B \cup {Head(q)} \subseteq A
  <2>1. q[1] \in A
    BY <1>1
  <2>2. ASSUME NEW j \in 1..(Len(q) - 1) PROVE q[j + 1] \in A
    BY <1>1
  <2> HIDE DEF A
  <2> QED
    BY <1>1, <2>1, <2>2
<1> QED
  BY <1>1, <1>3, <1>4

-----------------------------------------------------------------------------
\* Nothing is underway at first.
LEMMA InvInit == Init => Inv /\ Wire!Init
<1> SUFFICES ASSUME Init PROVE Inv /\ Wire!Init
  OBVIOUS
<1>1. stage \in [Packets -> Stages] /\ buf \in [Packets -> Nat]
  BY DEF Init, Stages
<1>2. recv_queue \in Seq(Trusted) /\ DOMAIN recv_queue = {}
  BY EmptySeq, LenProperties DEF Init
<1>3. \A p \in Packets : stage[p] = "new"
  BY DEF Init
<1>4. InTransit = {}
  BY <1>2, <1>3 DEF Init, InTransit
<1> QED
  BY <1>1, <1>2, <1>4 DEF Init, Inv, Wire!Init

\* A packet that changes its stage: what that does to those underway.
LEMMA Moved ==
  ASSUME Inv, NEW p \in Packets, NEW from \in Stages \ {"new", "gone"},
         NEW to \in Stages \ {"new"}, Move(p, from, to)
  PROVE  /\ stage' \in [Packets -> Stages]
         /\ to # "gone" => Underway' = Underway
         /\ to = "gone" => Underway' = Underway \ {p}
         /\ p \in Underway
<1>1. /\ stage' = [stage EXCEPT ![p] = to] /\ stage[p] = from
      /\ stage \in [Packets -> Stages]
  BY DEF Move, Inv
<1>2. /\ stage' \in [Packets -> Stages]
      /\ \A q \in Packets : stage'[q] = IF q = p THEN to ELSE stage[q]
  BY <1>1
<1> QED
  BY <1>1, <1>2 DEF Underway

\* A step keeps the invariant and is a step of Channel: only Put adds a packet
\* to those in transit, only Hand hands one over, and all other steps at most
\* lose some.
LEMMA StepImplements ==
  ASSUME Inv, [Next]_vars
  PROVE  Inv' /\ [Wire!Next]_<<InTransit, handed>>
<1> DEFINE queued == {recv_queue[i] : i \in DOMAIN recv_queue}
           open   == {u[1] : u \in unpacking}
           Goal   == Inv' /\ [Wire!Next]_<<InTransit, handed>>
<1>1. InTransit = Underway \cup open \cup queued
  BY DEF InTransit, Underway
<1>2. ASSUME Inv', handed' = handed,
             Underway' \cup open' \cup queued' \subseteq
               Underway \cup open \cup queued
      PROVE  Goal
  <2>1. InTransit' = Underway' \cup open' \cup queued'
    BY DEF InTransit, Underway
  <2> QED
    BY <1>1, <1>2, <2>1 DEF Wire!Next, Wire!Lose
<1>3. CASE UNCHANGED vars
  BY <1>3 DEF vars, Inv, InTransit
<1>4. CASE Hand
  <2>1. /\ recv_queue' \in Seq(Trusted) /\ Head(recv_queue) \in Trusted
        /\ queued = queued' \cup {Head(recv_queue)}
    BY <1>4, QueueTail DEF Hand, Inv
  <2>2. Underway' = Underway /\ open' = open
    BY <1>4 DEF Hand, Underway
  <2>3. Inv'
    BY <1>4, <2>1 DEF Hand, Inv
  <2>4. InTransit' = Underway \cup open \cup queued'
    BY <2>2 DEF InTransit, Underway
  <2>5. /\ Head(recv_queue) \in InTransit \cap Trusted
        /\ InTransit' \in {InTransit, InTransit \ {Head(recv_queue)}}
    <3> HIDE DEF open, queued
    <3> QED
      BY <1>1, <2>1, <2>4
  <2>6. Wire!Hand(Head(recv_queue))
    BY <1>4, <2>5 DEF Hand, Wire!Hand
  <2>7. Head(recv_queue) \in Packets
    BY <2>1 DEF Trusted
  <2> QED
    BY <2>3, <2>6, <2>7 DEF Wire!Next
<1>5. CASE Crash
  <2>1. /\ stage' \in [Packets -> Stages]
        /\ Underway' \subseteq Underway
    BY <1>5 DEF Crash, Inv, Stages, Underway
  <2>2. Inv' /\ open' = open /\ queued' = queued /\ handed' = handed
    BY <1>5, <2>1 DEF Crash, Inv
  <2> QED
    BY <1>2, <2>1, <2>2
<1>6. CASE Rest
  BY <1>3, <1>6 DEF Rest
<1>7. ASSUME NEW p \in Packets, Put(p) PROVE Goal
  <2>1. /\ stage' = [stage EXCEPT ![p] = "queued"]
        /\ stage \in [Packets -> Stages]
    BY <1>7 DEF Put, Move, Inv
  <2>2. /\ stage' \in [Packets -> Stages]
        /\ Underway' = Underway \cup {p}
    BY <2>1 DEF Stages, Underway
  <2>3. Inv' /\ open' = open /\ queued' = queued /\ handed' = handed
    BY <1>7, <2>2 DEF Put, Inv
  <2>4. InTransit' = InTransit \cup {p}
    BY <1>1, <2>2, <2>3 DEF InTransit, Underway
  <2> QED
    BY <2>3, <2>4 DEF Wire!Next, Wire!Send
<1>8. ASSUME NEW p \in Packets, Task(p) PROVE Goal
  <2>1. CASE Get(p) \/ TcpSend(p)
    <3>1. /\ stage' \in [Packets -> Stages] /\ Underway' = Underway
      BY <2>1, Moved DEF Get, TcpSend, Stages
    <3>2. Inv' /\ open' = open /\ queued' = queued /\ handed' = handed
      BY <2>1, <3>1 DEF Get, TcpSend, Inv
    <3> QED
      BY <1>2, <3>1, <3>2
  <2>2. CASE DoSend(p)
    <3>1. Route(p) \in {"gone", "datagram", "connecting"}
      BY DEF Route
    <3>2. /\ stage' \in [Packets -> Stages] /\ Underway' \subseteq Underway
      <4>1. Move(p, "packing", Route(p))
        BY <2>2 DEF DoSend
      <4> QED
        BY <3>1, <4>1, Moved DEF Stages
    <3>3. Inv' /\ open' = open /\ queued' = queued /\ handed' = handed
      BY <2>2, <3>2 DEF DoSend, Inv
    <3> QED
      BY <1>2, <3>2, <3>3
  <2>3. CASE DatagramReceived(p)
    <3>1. /\ stage' \in [Packets -> Stages] /\ Underway' \subseteq Underway
          /\ p \in Underway
      <4>1. CASE Move(p, "datagram", "gone")
        BY <4>1, Moved DEF Stages
      <4>2. CASE stage[p] = "datagram" /\ UNCHANGED stage
        BY <4>2 DEF Inv, Underway
      <4> QED
        BY <2>3, <4>1, <4>2 DEF DatagramReceived
    <3>2. Packed(p) \in Nat
      BY TransportAssumption DEF Packed, PrefixLen
    <3>3. open' \subseteq open \cup {p}
      <4> SUFFICES ASSUME NEW u \in unpacking' PROVE u[1] \in open \cup {p}
        OBVIOUS
      <4> QED
        BY <2>3 DEF DatagramReceived
    <3>4. Inv' /\ queued' = queued /\ handed' = handed
      BY <2>3, <3>1, <3>2 DEF DatagramReceived, Inv
    <3> HIDE DEF open
    <3> QED
      BY <1>2, <3>1, <3>3, <3>4
  <2>4. CASE DataReceived(p)
    <3>1. /\ Underway' = Underway /\ open' = open /\ queued' = queued
          /\ handed' = handed
      BY <2>4 DEF DataReceived, Underway
    <3>2. buf' \in [Packets -> Nat]
      <4>1. Packed(p) \in Nat /\ buf[p] \in Nat
        BY TransportAssumption DEF Packed, PrefixLen, Inv
      <4>2. PICK length \in (buf[p] + 1)..Packed(p) :
              buf' = [buf EXCEPT ![p] = length]
        BY <2>4 DEF DataReceived
      <4>3. length \in Nat
        BY <4>1
      <4> QED
        BY <4>2, <4>3 DEF Inv
    <3>3. Inv'
      BY <2>4, <3>2 DEF DataReceived, Inv
    <3> QED
      BY <1>2, <3>1, <3>3
  <2>5. CASE ConnectionLost(p)
    <3>1. /\ stage' \in [Packets -> Stages] /\ Underway' \subseteq Underway
          /\ p \in Underway
      BY <2>5, Moved DEF ConnectionLost, Stages
    <3>2. open' \subseteq open \cup {p}
      <4> SUFFICES ASSUME NEW u \in unpacking' PROVE u[1] \in open \cup {p}
        OBVIOUS
      <4> QED
        BY <2>5 DEF ConnectionLost
    <3>3. unpacking' \subseteq Packets \X Nat /\ buf' \in [Packets -> Nat]
      BY <2>5 DEF ConnectionLost, Inv
    <3>4. Inv' /\ queued' = queued /\ handed' = handed
      BY <2>5, <3>1, <3>3 DEF ConnectionLost, Inv
    <3> HIDE DEF open
    <3> QED
      BY <1>2, <3>1, <3>2, <3>4
  <2>6. ASSUME NEW u \in unpacking, u[1] = p, HandlePacket(p, u[2])
        PROVE  Goal
    <3>1. u[2] \in Nat /\ u = <<p, u[2]>>
      BY <2>6 DEF Inv
    <3>2. /\ Underway' = Underway /\ open' \subseteq open /\ p \in open
          /\ handed' = handed
      BY <2>6 DEF HandlePacket, Underway
    <3>3. /\ recv_queue' \in Seq(Trusted)
          /\ queued' \subseteq queued \cup {p}
      <4>1. CASE unpack(p, u[2]) = "packet"
        <5>1. p \in Trusted
          BY <3>1, <4>1, UnpackVerifies DEF Trusted
        <5>2. recv_queue' = Append(recv_queue, p)
          BY <2>6, <4>1 DEF HandlePacket
        <5> QED
          BY <5>1, <5>2, QueueAppend DEF Inv
      <4>2. CASE unpack(p, u[2]) # "packet"
        BY <2>6, <4>2 DEF HandlePacket, Inv
      <4> QED
        BY <4>1, <4>2
    <3>4. Inv'
      BY <2>6, <3>3 DEF HandlePacket, Inv
    <3> HIDE DEF open, queued
    <3> QED
      BY <1>2, <3>2, <3>3, <3>4
  <2> QED
    BY <1>8, <2>1, <2>2, <2>3, <2>4, <2>5, <2>6 DEF Task
<1>9. ASSUME NEW p \in Packets,
             ConnectFails(p) \/ DatagramLost(p) \/ ConnectionBroken(p)
      PROVE  Goal
  <2>1. /\ stage' \in [Packets -> Stages] /\ Underway' \subseteq Underway
    BY <1>9, Moved DEF ConnectFails, DatagramLost, ConnectionBroken, Stages
  <2>2. buf' \in [Packets -> Nat]
    BY <1>9 DEF ConnectFails, DatagramLost, ConnectionBroken, Inv
  <2>3. Inv' /\ open' = open /\ queued' = queued /\ handed' = handed
    BY <1>9, <2>1, <2>2
       DEF ConnectFails, DatagramLost, ConnectionBroken, Inv
  <2> QED
    BY <1>2, <2>1, <2>3
<1> QED
  BY <1>3, <1>4, <1>5, <1>6, <1>7, <1>8, <1>9 DEF Next

\* The transport is a channel as Cluster assumes it: whatever is cut off,
\* repeated, malformed or signed by others, a worker is handed only packets that
\* were sent to it with the secret of the cluster and not lost since.
THEOREM TransportImplements == Spec => ChannelSpec
<1>1. Init => Inv /\ Wire!Init
  BY InvInit
<1>2. Inv /\ [Next]_vars => Inv' /\ [Wire!Next]_<<InTransit, handed>>
  BY StepImplements
<1> QED
  BY <1>1, <1>2, PTL DEF Spec, ChannelSpec, Wire!Spec, Wire!channelVars

=============================================================================
