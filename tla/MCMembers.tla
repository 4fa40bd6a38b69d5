------------------------------ MODULE MCMembers -----------------------------
(***************************************************************************)
(* Small instances of Members: the process "a", the configured peer "b"    *)
(* and "c", that it hears of later.                                        *)
(***************************************************************************)
EXTENDS Members

ThreeNames == {"a", "b", "c"}
OnePeer    == <<"b">>
OneMap     == {"m1"}

=============================================================================
