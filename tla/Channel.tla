------------------------------ MODULE Channel -------------------------------
(***************************************************************************)
(* What a transport promises its workers, and all that Cluster assumes of  *)
(* its network: a packet that is handed to a worker was sent and has not   *)
(* got lost in the meantime, and it was signed with the secret of the      *)
(* cluster.  Nothing is promised about order or duplicates, and packets,   *)
(* several at once too, may get lost.                                      *)
(***************************************************************************)
CONSTANTS Packets,  \* the packets there are
          Trusted   \* those that are signed with the secret of the cluster

VARIABLES network,  \* the packets on their way
          handed    \* the packets that have been handed to a worker
channelVars == <<network, handed>>

Init == network = {} /\ handed = {}

Send(p) == network' = network \cup {p} /\ UNCHANGED handed

Hand(p) ==
  /\ p \in network \cap Trusted
  /\ handed' = handed \cup {p}
  /\ network' \in {network, network \ {p}}

Lose == network' \subseteq network /\ UNCHANGED handed

Next == \/ \E p \in Packets : Send(p) \/ Hand(p)
        \/ Lose

Spec == Init /\ [][Next]_channelVars

=============================================================================
