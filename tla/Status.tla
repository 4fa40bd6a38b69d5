------------------------------- MODULE Status -------------------------------
(***************************************************************************)
(* swimprotocol/status.py.  Status is a Flag enumeration: three real       *)
(* statuses, one bit each, and three aggregates that are unions of bits.   *)
(* A status is named by a string; flags gives its bits.                    *)
(***************************************************************************)

RealStatus == {"ONLINE", "OFFLINE", "SUSPECT"}

flags == [ONLINE      |-> {"ONLINE"},
          OFFLINE     |-> {"OFFLINE"},
          SUSPECT     |-> {"SUSPECT"},
          AVAILABLE   |-> {"ONLINE", "SUSPECT"},
          UNAVAILABLE |-> {"OFFLINE", "SUSPECT"},
          ALL         |-> {"ONLINE", "OFFLINE", "SUSPECT"}]

\* Status.all_statuses(): the aggregates included.
AllStatuses == DOMAIN flags

\* The truth value of the expression  status & mask.
Has(status, mask) == flags[status] \cap flags[mask] # {}

\* Mutants of transition: one of its two rules is missing.
transition_SkipsSuspect(from, to) ==
  IF to = "SUSPECT" /\ from = "OFFLINE" THEN from ELSE to

transition_Resuspects(from, to) ==
  IF to = "OFFLINE" /\ from = "ONLINE" THEN "SUSPECT" ELSE to

\* Status.transition for a real status `to`, the only kind the program passes.
transition(from, to) ==
  IF to = "SUSPECT" /\ from = "OFFLINE" THEN from
  ELSE IF to = "OFFLINE" /\ from = "ONLINE" THEN "SUSPECT"
  ELSE to

=============================================================================
