------------------------------ MODULE MCCluster -----------------------------
(***************************************************************************)
(* Small instances of Cluster: two processes that name each other as peer, *)
(* and three of which each names the two others.                           *)
(***************************************************************************)
EXTENDS Cluster

TwoNames   == {"a", "b"}
ThreeNames == {"a", "b", "c"}
TwoMaps    == {"m1", "m2"}

PairPeers  == [n \in Names |-> IF n = "a" THEN <<"b">> ELSE <<"a">>]
FullPeers  == [n \in Names |-> CASE n = "a" -> <<"b", "c">>
                                  [] n = "b" -> <<"a", "c">>
                                  [] n = "c" -> <<"a", "b">>]
OwnMaps    == [n \in Names |-> IF n = "a" THEN "m1" ELSE "m2"]

=============================================================================
