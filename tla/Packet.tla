------------------------------- MODULE Packet -------------------------------
(***************************************************************************)
(* swimprotocol/packet.py: the packets, each with its destination, which   *)
(* the worker hands to the transport beside the packet.  The Source of a   *)
(* packet is the pair of fields source and validity.                       *)
(***************************************************************************)
EXTENDS Member

Ping(to, source, validity) ==
  [type |-> "Ping", to |-> to, source |-> source, validity |-> validity]

PingReq(to, source, validity, target) ==
  [type |-> "PingReq", to |-> to, source |-> source, validity |-> validity,
   target |-> target]

Ack(to, source, validity) ==
  [type |-> "Ack", to |-> to, source |-> source, validity |-> validity]

Gossip(to, source, validity, name, mem) ==
  [type |-> "Gossip", to |-> to, source |-> source, validity |-> validity,
   name |-> name, clock |-> mem.clock, status |-> mem.status,
   metadata |-> mem.metadata]

GossipAck(to, source, validity, name, clock) ==
  [type |-> "GossipAck", to |-> to, source |-> source,
   validity |-> validity, name |-> name, clock |-> clock]

PacketTypes == {"Ping", "PingReq", "Ack", "Gossip", "GossipAck"}

\* The packets there can be.  A Gossip without metadata is never built:
\* get_gossip leaves out the members whose metadata is unknown.
Plain(types) == [type : types, to : Names, source : Names, validity : Validity]

Packet == Plain({"Ping", "Ack"})
  \cup [type : {"PingReq"}, to : Names, source : Names, validity : Validity,
        target : Names]
  \cup [type : {"Gossip"}, to : Names, source : Names, validity : Validity,
        name : Names, clock : Nat, status : RealStatus, metadata : Metadata]
  \cup [type : {"GossipAck"}, to : Names, source : Names,
        validity : Validity, name : Names, clock : Nat]

=============================================================================
