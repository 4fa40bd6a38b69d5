------------------------------ MODULE Transport -----------------------------
(***************************************************************************)
(* swimprotocol/udp: how a packet gets from the send queue of one worker   *)
(* to the receive queue of another.  Each packet is packed by a task of    *)
(* its own in a thread pool and goes out as a datagram if it fits the MTU, *)
(* over a TCP connection of its own otherwise; what arrives is unpacked by *)
(* a task of its own, again in a thread pool.                              *)
(*                                                                         *)
(* Bytes are counted, not modelled: an incomplete packet is a number of    *)
(* bytes of a complete one.                                                *)
(***************************************************************************)
EXTENDS Naturals, Sequences

CONSTANTS Packets,     \* the packets, each sent once
          Size,        \* the length of each when pickled
          Signer,      \* of each, the secret and version of its sender
          Secret,      \* the secret and version of the receiver
          Name,        \* of each, the name of the member it is sent to: the
                       \* text around the last colon, if there is a colon
          Address,     \* the host and port of the receiver
          None,        \* no default, or a port that is not a number
          default_host, default_port,  \* of the sender's AddressParser
          mtu_size,    \* config.mtu_size
          SaltLen,     \* the length of the salt of Signatures.sign
          DigestLen,   \* Signatures.digest_size
          MaxFaults    \* bound: faults of the network and of the sender

ASSUME TransportAssumption ==
  /\ DOMAIN Signer = Packets /\ DOMAIN Name = Packets
  /\ Size \in [Packets -> Nat]
  /\ {mtu_size, SaltLen, DigestLen, MaxFaults} \subseteq Nat

VARIABLES stage,       \* how far each packet is: "new", "queued" (send_queue),
                       \* "packing" (a _do_send), "datagram" (on its way),
                       \* "connecting" (a _tcp_send), "stream" (in a
                       \* connection), "gone" (past the network, or lost)
          buf,         \* the number of bytes in the _buf of its connection
          unpacking,   \* the calls of handle_packet: pairs of a packet and
                       \* the number of bytes that have come of it
          recv_queue,  \* of the receiving worker
          handed,      \* history: what the receiving worker got
          up,          \* whether the sender runs
          faults       \* the number of faults so far
vars == <<stage, buf, unpacking, recv_queue, handed, up, faults>>

Init ==
  /\ stage = [p \in Packets |-> "new"]
  /\ buf = [p \in Packets |-> 0]
  /\ unpacking = {} /\ recv_queue = << >> /\ handed = {}
  /\ up = TRUE /\ faults = 0

-----------------------------------------------------------------------------
(***************************************************************************)
(* udp/pack.py, sign.py and address.py.                                    *)
(***************************************************************************)
\* verify compares digests, each made of the secret, the version, the salt and
\* the data.
verify(p) == Signer[p] = Secret
Trusted   == {p \in Packets : verify(p)}

PrefixLen == 6   \* _prefix.size

\* The length of what pack returns.
Packed(p) == PrefixLen + SaltLen + DigestLen + Size[p]

\* The length of the slice [from, to) of a byte string of this length.
Slice(length, from, to) ==
  IF length <= from THEN 0 ELSE IF length < to THEN length - from ELSE to - from

\* Mutant of unpack: the signature is not verified.
unpack_Unverified(p, length) ==
  IF length < Packed(p) THEN "none" ELSE "packet"

\* unpack: a packet, None, or an exception where the prefix is incomplete.
unpack(p, length) ==
  LET digest_start == PrefixLen + SaltLen
      data_start   == digest_start + DigestLen
  IN  CASE length < PrefixLen -> "raises"
        [] length >= PrefixLen
             /\ \/ Slice(length, digest_start, data_start) # DigestLen
                \/ Slice(length, data_start, Packed(p)) # Size[p]
                \/ ~verify(p) -> "none"
        [] OTHER -> "packet"

\* AddressParser.parse.  For a name without a colon rpartition leaves the host
\* empty; None stands for the exception.
parse(name) ==
  LET address(host, port) == [host |-> host, port |-> port]
  IN  CASE ~name.colon /\ default_port # None -> address("", default_port)
        [] name.colon /\ name.port # None /\ name.host # "" ->
             address(name.host, name.port)
        [] name.colon /\ name.port # None /\ name.host = ""
             /\ default_host # None -> address(default_host, name.port)
        [] OTHER -> None
Addressable == {p \in Packets : parse(Name[p]) = Address}

-----------------------------------------------------------------------------
Move(p, from, to) ==
  /\ stage[p] = from
  /\ stage' = [stage EXCEPT ![p] = to]

Fault == faults < MaxFaults /\ faults' = faults + 1

\* The worker puts a packet on its queue, and UdpSend.run starts a task for it.
Put(p) ==
  /\ up /\ Move(p, "new", "queued")
  /\ UNCHANGED <<buf, unpacking, recv_queue, handed, up, faults>>

Get(p) ==
  /\ Move(p, "queued", "packing")
  /\ UNCHANGED <<buf, unpacking, recv_queue, handed, up, faults>>

\* Mutant of Route: a packet that is too large is given up.
Route_UdpOnly(p) ==
  IF p \in Addressable /\ Packed(p) <= mtu_size THEN "datagram" ELSE "gone"

\* Where _do_send takes a packet.  It raises where parse does, and does not
\* reach the receiver at another address.
Route(p) ==
  IF p \notin Addressable THEN "gone"
  ELSE IF Packed(p) <= mtu_size THEN "datagram" ELSE "connecting"

\* _do_send, once the packet is packed.
DoSend(p) ==
  /\ Move(p, "packing", Route(p))
  /\ UNCHANGED <<buf, unpacking, recv_queue, handed, up, faults>>

\* _tcp_send: the connection is made; write and close do not wait.
TcpSend(p) ==
  /\ Move(p, "connecting", "stream")
  /\ UNCHANGED <<buf, unpacking, recv_queue, handed, up, faults>>

\* It is not made: the exception is passed over.
ConnectFails(p) ==
  /\ Fault /\ Move(p, "connecting", "gone")
  /\ UNCHANGED <<buf, unpacking, recv_queue, handed, up>>

-----------------------------------------------------------------------------
\* UdpProtocol: a datagram arrives, and possibly arrives again, or it is lost.
DatagramReceived(p) ==
  /\ \/ Move(p, "datagram", "gone") /\ UNCHANGED faults
     \/ stage[p] = "datagram" /\ Fault /\ UNCHANGED stage
  /\ unpacking' = unpacking \cup {<<p, Packed(p)>>}
  /\ UNCHANGED <<buf, recv_queue, handed, up>>

DatagramLost(p) ==
  /\ Fault /\ Move(p, "datagram", "gone")
  /\ UNCHANGED <<buf, unpacking, recv_queue, handed, up>>

\* TcpProtocol.data_received, for any number of bytes.
DataReceived(p) ==
  /\ up /\ stage[p] = "stream"
  /\ \E length \in (buf[p] + 1)..Packed(p) : buf' = [buf EXCEPT ![p] = length]
  /\ UNCHANGED <<stage, unpacking, recv_queue, handed, up, faults>>

\* Mutant of AtEnd: the receiver waits for as much as was written.
AtEnd_Whole(p) == buf[p] = Packed(p)

\* The other end has closed the connection: after the last byte, or earlier
\* because the sender has ended.
AtEnd(p) == buf[p] = Packed(p) \/ ~up

\* TcpProtocol.connection_lost(None): whatever has come is taken for a packet.
ConnectionLost(p) ==
  /\ AtEnd(p) /\ Move(p, "stream", "gone")
  /\ unpacking' = unpacking \cup {<<p, buf[p]>>}
  /\ buf' = [buf EXCEPT ![p] = 0]
  /\ UNCHANGED <<recv_queue, handed, up, faults>>

\* connection_lost with an exception.
ConnectionBroken(p) ==
  /\ Fault /\ Move(p, "stream", "gone")
  /\ buf' = [buf EXCEPT ![p] = 0]
  /\ UNCHANGED <<unpacking, recv_queue, handed, up>>

\* handle_packet, once the data is unpacked; an exception ends its task only.
HandlePacket(p, length) ==
  /\ <<p, length>> \in unpacking
  /\ unpacking' = unpacking \ {<<p, length>>}
  /\ recv_queue' = IF unpack(p, length) = "packet" THEN Append(recv_queue, p)
                                                   ELSE recv_queue
  /\ UNCHANGED <<stage, buf, handed, up, faults>>

\* The receiving worker takes the next packet.
Hand ==
  /\ recv_queue # << >>
  /\ handed' = handed \cup {Head(recv_queue)}
  /\ recv_queue' = Tail(recv_queue)
  /\ UNCHANGED <<stage, buf, unpacking, up, faults>>

\* The sender ends, with all its tasks; the kernel ends its connections.
Crash ==
  /\ up /\ Fault /\ up' = FALSE
  /\ stage' = [p \in Packets |->
                 IF stage[p] \in {"queued", "packing", "connecting"}
                 THEN "gone" ELSE stage[p]]
  /\ UNCHANGED <<buf, unpacking, recv_queue, handed>>

Task(p) ==
  \/ Get(p) \/ DoSend(p) \/ TcpSend(p) \/ DatagramReceived(p)
  \/ DataReceived(p) \/ ConnectionLost(p)
  \/ \E u \in unpacking : u[1] = p /\ HandlePacket(p, u[2])

\* The packets on their way.
InTransit ==
  {p \in Packets : stage[p] \notin {"new", "gone"}}
    \cup {u[1] : u \in unpacking}
    \cup {recv_queue[i] : i \in DOMAIN recv_queue}

\* Everything has been sent and nothing is left to do.
Rest ==
  /\ InTransit = {}
  /\ up => \A p \in Packets : stage[p] # "new"
  /\ UNCHANGED vars

Next ==
  \/ \E p \in Packets : \/ Put(p) \/ Task(p) \/ ConnectFails(p)
                        \/ DatagramLost(p) \/ ConnectionBroken(p)
  \/ Hand \/ Crash \/ Rest

\* Tasks and threads run, and the network passes on what it does not lose.
Spec == Init /\ [][Next]_vars /\ WF_vars(Hand)
             /\ \A p \in Packets : WF_vars(Task(p))

-----------------------------------------------------------------------------
\* The transport is a channel as Cluster assumes it: whatever is cut off,
\* repeated, malformed or signed by others, a worker is handed only packets
\* that were sent to it with the secret of the cluster and not lost since.
Wire == INSTANCE Channel WITH network <- InTransit
ChannelSpec == Wire!Spec

\* As long as nothing fails, every packet that is signed and addressed
\* properly arrives, whether it fits a datagram or needs a connection.
Delivers ==
  \A p \in Trusted \cap Addressable :
    stage[p] # "new" ~> p \in handed \/ faults > 0

\* No packet stays in the transport: no task, buffer or connection waits for
\* bytes that never come, also when the sender ends half way.
Drains == \A p \in Packets : p \in InTransit ~> p \notin InTransit

=============================================================================
