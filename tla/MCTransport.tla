----------------------------- MODULE MCTransport ----------------------------
(***************************************************************************)
(* Four packets: one that just fits the MTU, one that is a byte too long,  *)
(* for a name without a host, one signed with another secret, and one for  *)
(* a name without a port, which parse does not turn into the address.      *)
(***************************************************************************)
EXTENDS Transport

Sizes   == [p \in Packets |-> IF p = "large" THEN 2 ELSE 1]
Signers == [p \in Packets |-> IF p = "foreign" THEN "other" ELSE "shared"]
Here    == [host |-> "h", port |-> 1]
NamesOf == [p \in Packets |->
              [host  |-> IF p = "large" THEN "" ELSE "h",
               colon |-> p # "bare",
               port  |-> IF p = "bare" THEN None ELSE 1]]

=============================================================================
