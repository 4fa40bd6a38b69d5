------------------------------ MODULE Detector ------------------------------
(***************************************************************************)
(* What the cluster promises about statuses, without packets, clocks or    *)
(* timers: every process has a view of every member, and one step changes  *)
(* the view that one process has of one member along one of three edges,   *)
(*     OFFLINE or SUSPECT -> ONLINE -> SUSPECT -> OFFLINE.                 *)
(* A member that has never run is never trusted, and a process that has    *)
(* come to doubt itself is not told otherwise by anybody.                  *)
(***************************************************************************)
CONSTANT Names

VARIABLES running,  \* whether each process runs
          born,     \* the processes that have ever run
          view      \* what each process takes each member for
vars == <<running, born, view>>

Blank(n) == [m \in Names |-> IF m = n THEN "ONLINE" ELSE "OFFLINE"]

Init ==
  /\ running \in [Names -> BOOLEAN]
  /\ born = {n \in Names : running[n]}
  /\ view = [n \in Names |-> Blank(n)]

Start(n) ==
  /\ ~running[n]
  /\ running' = [running EXCEPT ![n] = TRUE]
  /\ born' = born \cup {n}
  /\ view' = [view EXCEPT ![n] = Blank(n)]

Stop(n) ==
  /\ running[n]
  /\ running' = [running EXCEPT ![n] = FALSE]
  /\ UNCHANGED <<born, view>>

Turn(n, m, status) ==
  /\ running[n]
  /\ view' = [view EXCEPT ![n][m] = status]
  /\ UNCHANGED <<running, born>>

Trust(n, m)   == m # n /\ m \in born /\ Turn(n, m, "ONLINE")
Suspect(n, m) == view[n][m] = "ONLINE" /\ Turn(n, m, "SUSPECT")
Expel(n, m)   == view[n][m] = "SUSPECT" /\ Turn(n, m, "OFFLINE")

Next ==
  \/ \E n \in Names : Start(n) \/ Stop(n)
  \/ \E n, m \in Names : Trust(n, m) \/ Suspect(n, m) \/ Expel(n, m)

Spec == Init /\ [][Next]_vars

=============================================================================
