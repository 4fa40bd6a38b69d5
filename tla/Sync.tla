-------------------------------- MODULE Sync --------------------------------
(***************************************************************************)
(* swimprotocol/sync.py: the process that mirrors the cluster in a         *)
(* directory.  It composes the members (as far as the mirror reads them),  *)
(* a Listener with one callback, _write_member, and the file system, which *)
(* outlives the process.                                                   *)
(*                                                                         *)
(* _write_member does all its work before its only await, the hook, so one *)
(* call is one action; calls run in the order in which their tasks were    *)
(* created.  It writes the state the member has when it runs.  The link    *)
(* .local, modification times and the hook are left out: nothing here      *)
(* reads them.                                                             *)
(***************************************************************************)
EXTENDS Status, Naturals, Sequences

CONSTANTS Local, Remotes,  \* the names of the local member and the others
          Peers,           \* those of Remotes that are configured
          Keys, Vals,      \* the keys and values of metadata
          NoFile,          \* a key that is missing
          Unknown,         \* Member.METADATA_UNKNOWN
          SameDev,         \* whether temporary files are on the file system
                           \* of the directory
          MaxItems,        \* bound: notifications per start
          MaxStarts        \* bound: how often the process starts

ASSUME SyncAssumption ==
  /\ Local \notin Remotes /\ Peers \subseteq Remotes
  /\ NoFile \notin Vals
  /\ Unknown \notin [Keys -> Vals \cup {NoFile}]
  /\ SameDev \in BOOLEAN
  /\ MaxItems \in Nat /\ MaxStarts \in Nat

VARIABLES pc,        \* "off", "running", "leaving" (the contexts are being
                     \* left), "stopping" (_cleanup has run)
          starts,    \* the number of starts so far
          ready,     \* the event loop's queue right after the start
          table,     \* status and metadata of each member
          non_local, \* the names in _non_local
          changed,   \* history: the members that changed since the start
          ran,       \* how many calls of _write_member have run
          dirs,      \* the members that have a directory
          links,     \* pairs of a status directory and a member linked there
          files,     \* the contents of the directory of each member
          phase, event, args, called, notified, polled   \* of the Listener

Writer == "writer"
Poll == INSTANCE Listener WITH Pollers <- {Writer}
polling == <<phase, event, args, called, notified, polled>>
mirror  == <<dirs, links, files>>
vars == <<pc, starts, ready, table, non_local, changed, ran, mirror,
          polling>>

Mapping   == [Keys -> Vals \cup {NoFile}]
NoFiles   == [k \in Keys |-> NoFile]
NewMember == [status |-> "OFFLINE", metadata |-> Unknown]

\* _statuses, in the order in which the links are made.
statuses == <<"ONLINE", "OFFLINE", "SUSPECT", "AVAILABLE", "UNAVAILABLE">>
First(n) == {statuses[i] : i \in 1..n}
AllDirs  == First(Len(statuses))

Unmet == [m \in Remotes \cup {Local} |-> NewMember]

Init ==
  /\ pc = "off" /\ starts = 0 /\ ready = << >> /\ table = Unmet
  /\ non_local = {} /\ changed = {} /\ ran = 0
  /\ dirs = {} /\ links = {} /\ files = [m \in Remotes |-> NoFiles]
  /\ Poll!Init

\* The process is no more, and nothing is left of its memory.
Gone ==
  /\ pc' = "off" /\ ready' = << >> /\ table' = Unmet
  /\ non_local' = {} /\ changed' = {} /\ ran' = 0
  /\ Poll!Renew("out")
  /\ UNCHANGED starts

-----------------------------------------------------------------------------
\* Mutant of Spawned: an await before the context of the callback is entered.
Spawned_Late(task) == CASE task = "main"   -> <<"worker", "rest">>
                        [] task = "worker" -> <<"handler">>
                        [] task = "rest"   -> <<"poll">>
                        [] OTHER           -> << >>

\* The tasks that a task creates before it first waits.  run enters the
\* contexts of the worker and of the callback without an await that suspends;
\* Worker.run creates the handler.
Spawned(task) == CASE task = "main"   -> <<"worker", "poll">>
                   [] task = "worker" -> <<"handler">>
                   [] OTHER           -> << >>

\* main, and run up to the entry of the transport, with the first _read_local.
Start(metadata) ==
  /\ pc = "off" /\ starts < MaxStarts
  /\ pc' = "running" /\ starts' = starts + 1
  /\ ready' = <<"main">>
  /\ table' = [Unmet EXCEPT ![Local] = [status   |-> "ONLINE",
                                        metadata |-> metadata]]
  /\ non_local' = Peers /\ changed' = {} /\ ran' = 0
  /\ Poll!Renew("entered")
  /\ UNCHANGED mirror

\* The event loop runs the tasks of the start in the order of their creation.
RunTask ==
  /\ pc = "running" /\ ready # << >>
  /\ ready' = Tail(ready) \o Spawned(Head(ready))
  /\ IF Head(ready) = "poll" THEN Poll!FirstPoll(Writer)
                             ELSE UNCHANGED polling
  /\ UNCHANGED <<pc, starts, table, non_local, changed, ran, mirror>>

\* The handler, or the worker itself, runs.
Handling == pc # "off" /\ \A i \in DOMAIN ready : ready[i] = "poll"

\* A packet of an unknown member makes Members.get create it.
Meet(m) ==
  /\ Handling /\ m \notin non_local
  /\ non_local' = non_local \cup {m}
  /\ UNCHANGED <<pc, starts, ready, table, changed, ran, mirror,
                 polling>>

\* The worker updates a member; a change is notified.  The first mapping of a
\* member is always a change.  Unknown stands for an update without metadata.
Change(m, status, metadata) ==
  LET new == [status   |-> transition(table[m].status, status),
              metadata |-> IF metadata = Unknown THEN table[m].metadata
                                                 ELSE metadata]
  IN  /\ Handling /\ new # table[m]
      /\ table' = [table EXCEPT ![m] = new]
      /\ non_local' = non_local \cup {m}
      /\ changed' = changed \cup {m}
      /\ Poll!notify(m)
      /\ UNCHANGED <<pc, starts, ready, ran, mirror>>

\* SIGHUP: _read_local gives the local member the files in its directory.
ReadLocal(metadata) ==
  /\ pc # "off" /\ metadata # table[Local].metadata
  /\ table' = [table EXCEPT ![Local].metadata = metadata]
  /\ Poll!notify(Local)
  /\ UNCHANGED <<pc, starts, ready, non_local, changed, ran, mirror>>

Dispatch ==
  /\ pc # "off"
  /\ Poll!Resume(Writer)
  /\ UNCHANGED <<pc, starts, ready, table, non_local, changed, ran, mirror>>

-----------------------------------------------------------------------------
\* Whether a call of _write_member is to come, and for which member.
Queued == ran < Len(called[Writer])
Target == called[Writer][ran + 1]

\* _update_status for each of these statuses: the links afterwards.
update_status(m, masks) ==
  {l \in links : l[2] # m \/ l[1] \notin masks}
    \cup {<<st, m>> : st \in {x \in masks : Has(table[m].status, x)}}

\* The mapping that readers of member.metadata see: unknown, it is empty.
Contents(m) == IF table[m].metadata = Unknown THEN NoFiles
                                              ELSE table[m].metadata

\* The files after the removal of the names that metadata does not have.
Pruned(m) == [k \in Keys |-> IF Contents(m)[k] = NoFile THEN NoFile
                                                       ELSE files[m][k]]

\* _write_member.  Where the temporary file is on another file system the
\* first rename raises, and the task ends there.
WriteMember ==
  LET m == Target
  IN  /\ pc # "off" /\ Queued
      /\ ran' = ran + 1
      /\ \/ m = Local /\ UNCHANGED <<dirs, links, files>>
         \/ /\ m # Local
            /\ dirs' = dirs \cup {m}
            /\ links' = update_status(m, AllDirs)
            /\ files' = [files EXCEPT ![m] = IF SameDev THEN Contents(m)
                                                        ELSE Pruned(m)]
      /\ UNCHANGED <<pc, starts, ready, table, non_local, changed, polling>>

\* The contexts are left: the callback's and the worker's task are cancelled,
\* which neither ends the calls of _write_member nor the worker's subtasks.
Leave ==
  /\ pc = "running"
  /\ pc' = "leaving"
  /\ Poll!Exit(Writer)
  /\ UNCHANGED <<starts, ready, table, non_local, changed, ran, mirror>>

\* _cleanup.  The listing of a directory that does not exist raises, when some
\* of the others have been emptied and before any link is removed.
Cleanup ==
  /\ pc = "leaving"
  /\ pc' = "stopping"
  /\ \/ /\ non_local \subseteq dirs
        /\ files' = [m \in Remotes |-> IF m \in non_local THEN NoFiles
                                                          ELSE files[m]]
        /\ links' = {}
     \/ /\ ~(non_local \subseteq dirs)
        /\ \E emptied \in SUBSET (non_local \cap dirs) :
             files' = [m \in Remotes |-> IF m \in emptied THEN NoFiles
                                                          ELSE files[m]]
        /\ UNCHANGED links
  /\ UNCHANGED <<starts, ready, table, non_local, changed, ran, dirs,
                 polling>>

\* The loop stops once it has run what was ready when run returned.
Halt ==
  /\ pc = "stopping" /\ ~Queued
  /\ Gone
  /\ UNCHANGED mirror

\* The process dies, possibly in a _write_member that has made some of the
\* links, or all of them and some of the changes to the files.
Crash ==
  /\ pc # "off"
  /\ Gone
  /\ \/ UNCHANGED <<dirs, links, files>>
     \/ /\ Queued /\ Target # Local
        /\ dirs' = dirs \cup {Target}
        /\ \/ /\ \E n \in 0..Len(statuses) :
                   links' = update_status(Target, First(n))
              /\ UNCHANGED files
           \/ /\ links' = update_status(Target, AllDirs)
              /\ \E torn \in SUBSET Keys :
                   files' = [files EXCEPT ![Target] = [k \in Keys |->
                     IF k \in torn /\ SameDev THEN Contents(Target)[k]
                     ELSE IF k \in torn THEN Pruned(Target)[k] ELSE @[k]]]

Stopped == pc = "off" /\ starts = MaxStarts /\ UNCHANGED vars

Next ==
  \/ \E md \in Mapping : Start(md) \/ ReadLocal(md)
  \/ \E m \in Remotes : Meet(m)
  \/ \E m \in Remotes, st \in RealStatus, md \in Mapping \cup {Unknown} :
       Change(m, st, md)
  \/ RunTask \/ Dispatch \/ WriteMember
  \/ Leave \/ Cleanup \/ Halt \/ Crash \/ Stopped

\* The event loop runs every task that is ready.  Signals, changes and crashes
\* are not forced.
Spec == Init /\ [][Next]_vars /\ WF_vars(RunTask) /\ WF_vars(Dispatch)
             /\ WF_vars(WriteMember) /\ WF_vars(Cleanup) /\ WF_vars(Halt)

-----------------------------------------------------------------------------
\* The callback of sync gets every change from its first poll on, once and in
\* the order of the changes (listener.py), whatever else the loop runs.
NothingLost == Poll!NothingLost

\* The links of m are those of its status, and its files are its metadata.
Mirrored(m) ==
  /\ {l[1] : l \in {x \in links : x[2] = m}}
       = {st \in AllDirs : Has(table[m].status, st)}
  /\ files[m] = Contents(m)

\* A call of _write_member for m is still to come.
Unwritten(m) ==
  \/ \E i \in DOMAIN args[Writer] : args[Writer][i] = m
  \/ \E i \in (ran + 1)..Len(called[Writer]) : called[Writer][i] = m

\* README.md:36: "While running, the state of the cluster and the metadata of
\* each member are visible on the filesystem".  For every member that changed
\* since the start the mirror is right or about to be written, whatever an
\* earlier run, a crash in the middle of a write or a failed cleanup has left.
\* The code keeps this where SameDev is TRUE, and only there.
MirrorCurrent ==
  \A m \in changed :
    pc = "running" /\ ~Unwritten(m) => Mirrored(m)

\* Every change reaches the file system, unless the process stops first or the
\* member changes again; like MirrorCurrent, where SameDev is TRUE.
EventuallyMirrored ==
  \A m \in Remotes :
    pc = "running" /\ m \in changed ~> pc # "running" \/ Mirrored(m)

=============================================================================
