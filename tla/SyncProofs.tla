----------------------------- MODULE SyncProofs -----------------------------
(***************************************************************************)
(* What Sync promises, for every set of members and every metadata: the    *)
(* callback misses no change, and the mirror of a member that has changed  *)
(* is right or about to be written.                                        *)
(*                                                                         *)
(* The argument rests on the order in which the event loop runs the tasks  *)
(* of the start: the task of the callback polls before the handler takes   *)
(* its first packet (Order), so a change of a member finds the poll        *)
(* waiting.                                                                *)
(***************************************************************************)
EXTENDS Sync, SequenceTheorems, TLAPS

Everyone == Remotes \cup {Local}
Entries  == [status : RealStatus, metadata : Mapping \cup {Unknown}]

\* The types of the process and of the file system.
Types ==
  /\ pc \in {"off", "running", "leaving", "stopping"}
  /\ table \in [Everyone -> Entries]
  /\ changed \subseteq Remotes
  /\ ran \in Nat
  /\ links \subseteq AllDirs \X Remotes
  /\ files \in [Remotes -> Mapping]

\* The types of the listener.
PollTypes ==
  /\ phase \in [{Writer} -> {"out", "entered", "polling", "exited"}]
  /\ event \in [{Writer} -> BOOLEAN]
  /\ args \in [{Writer} -> Seq(Everyone)]
  /\ called \in [{Writer} -> Seq(Everyone)]
  /\ notified \in Seq(Everyone)
  /\ polled \in [{Writer} -> Nat]

\* The calls that have run were made; what came before the first poll is not
\* more than what came; before it, the callback has nothing.
Counts ==
  /\ ran <= Len(called[Writer])
  /\ polled[Writer] <= Len(notified)
  /\ phase[Writer] = "entered" =>
       args[Writer] = << >> /\ called[Writer] = << >>

\* How the start goes on: the callback polls before the handler runs.
Order ==
  pc = "running" =>
    \/ /\ phase[Writer] = "entered"
       /\ ready \in {<<"main">>, <<"worker", "poll">>, <<"poll", "handler">>}
    \/ /\ phase[Writer] = "polling"
       /\ ready \in {<<"handler">>, << >>}

PollInv == PollTypes /\ Counts /\ NothingLost

\* MirrorCurrent, with what it says of the files only where temporary files are
\* on the file system of the directory.
Right(m) ==
  /\ {l[1] : l \in {x \in links : x[2] = m}}
       = {st \in AllDirs : Has(table[m].status, st)}
  /\ SameDev => files[m] = Contents(m)

Current ==
  \A m \in changed : pc = "running" /\ ~Unwritten(m) => Right(m)

\* The inductive invariant.
Inv == Types /\ PollInv /\ Order /\ Current

-----------------------------------------------------------------------------
(***************************************************************************)
(* Sequences.                                                              *)
(***************************************************************************)
\* What is notified after the first k items grows with every item, at its end.
LEMMA SubSeqAppend ==
  ASSUME NEW S, NEW s \in Seq(S), NEW x \in S, NEW k \in Nat, k <= Len(s)
  PROVE  SubSeq(Append(s, x), k + 1, Len(s) + 1)
           = Append(SubSeq(s, k + 1, Len(s)), x)
<1> DEFINE a == SubSeq(Append(s, x), k + 1, Len(s) + 1)
           b == SubSeq(s, k + 1, Len(s))
<1>1. Len(s) \in Nat
  OBVIOUS
<1>2. /\ Append(s, x) \in Seq(S) /\ Len(Append(s, x)) = Len(s) + 1
      /\ \A i \in 1..Len(s) : Append(s, x)[i] = s[i]
      /\ Append(s, x)[Len(s) + 1] = x
  BY AppendProperties
<1>3. /\ a \in Seq(S) /\ Len(a) = Len(s) - k + 1
      /\ \A i \in 1..(Len(s) - k + 1) : a[i] = Append(s, x)[k + i]
  <2> DEFINE l == Append(s, x)
  <2>1. \A i \in (k + 1)..(Len(s) + 1) : l[i] \in S
    BY <1>1, <1>2
  <2> HIDE DEF l
  <2> QED
    BY <1>1, <2>1, SubSeqProperties DEF l
<1>4. /\ b \in Seq(S) /\ Len(b) = Len(s) - k
      /\ \A i \in 1..(Len(s) - k) : b[i] = s[k + i]
  <2>1. \A i \in (k + 1)..Len(s) : s[i] \in S
    BY <1>1
  <2> QED
    BY <1>1, <2>1, SubSeqProperties
<1> HIDE DEF a, b
<1>5. /\ Append(b, x) \in Seq(S) /\ Len(Append(b, x)) = Len(b) + 1
      /\ \A i \in 1..Len(b) : Append(b, x)[i] = b[i]
      /\ Append(b, x)[Len(b) + 1] = x
  BY <1>4, AppendProperties
<1>6. \A i \in 1..Len(a) : a[i] = Append(b, x)[i]
  <2> SUFFICES ASSUME NEW i \in 1..Len(a) PROVE a[i] = Append(b, x)[i]
    OBVIOUS
  <2>1. CASE i = Len(s) - k + 1
    <3>1. k + i = Len(s) + 1 /\ i = Len(b) + 1 /\ i \in 1..(Len(s) - k + 1)
      BY <1>1, <1>3, <1>4, <2>1
    <3>2. a[i] = Append(s, x)[k + i]
      BY <1>3, <3>1
    <3> QED
      BY <1>2, <1>5, <3>1, <3>2
  <2>2. CASE i # Len(s) - k + 1
    <3>1. i \in 1..(Len(s) - k) /\ k + i \in 1..Len(s)
      BY <1>1, <1>3, <2>2
    <3> QED
      BY <1>2, <1>3, <1>4, <1>5, <3>1
  <2> QED
    BY <2>1, <2>2
<1>7. Len(a) = Len(Append(b, x))
  BY <1>1, <1>3, <1>4, <1>5
<1>8. a = Append(b, x)
  BY <1>3, <1>5, <1>6, <1>7, SeqEqual
<1> QED
  BY <1>8 DEF a, b

\* An item appended to what waits is appended to the whole.
LEMMA ConcatAppend ==
  ASSUME NEW S, NEW s \in Seq(S), NEW t \in Seq(S), NEW x \in S
  PROVE  s \o Append(t, x) = Append(s \o t, x)
<1>1. s \o t \in Seq(S) /\ <<x>> \in Seq(S)
  BY ConcatProperties
<1>2. Append(t, x) = t \o <<x>> /\ Append(s \o t, x) = (s \o t) \o <<x>>
  BY <1>1, AppendIsConcat
<1> QED
  BY <1>1, <1>2, ConcatAssociative

-----------------------------------------------------------------------------
(***************************************************************************)
(* The listener: each of its operations keeps what the callback has been   *)
(* given, and is to be given, in step with what was notified.              *)
(***************************************************************************)
\* A new listener has nothing to give.
LEMMA RenewKeeps ==
  ASSUME NEW ph \in {"out", "entered"}, Poll!Renew(ph), ran' = 0
  PROVE  PollInv' /\ phase'[Writer] = ph
<1>1. /\ phase' = [p \in {Writer} |-> ph] /\ event' = [p \in {Writer} |-> FALSE]
      /\ args' = [p \in {Writer} |-> << >>]
      /\ called' = [p \in {Writer} |-> << >>]
      /\ notified' = << >> /\ polled' = [p \in {Writer} |-> 0]
  BY DEF Poll!Renew, Poll!All
<1>2. PollTypes'
  BY <1>1 DEF PollTypes
<1>3. Counts'
  BY <1>1 DEF Counts
<1>4. NothingLost'
  BY <1>1 DEF NothingLost, Poll!NothingLost
<1> QED
  BY <1>1, <1>2, <1>3, <1>4 DEF PollInv

\* The same for the initial state.
LEMMA InitPoll == Init => PollInv
<1> SUFFICES ASSUME Init PROVE PollInv
  OBVIOUS
<1>1. /\ phase = [p \in {Writer} |-> "out"] /\ event = [p \in {Writer} |-> FALSE]
      /\ args = [p \in {Writer} |-> << >>]
      /\ called = [p \in {Writer} |-> << >>]
      /\ notified = << >> /\ polled = [p \in {Writer} |-> 0] /\ ran = 0
  BY DEF Init, Poll!Init, Poll!All
<1>2. PollTypes
  BY <1>1 DEF PollTypes
<1>3. Counts
  BY <1>1 DEF Counts
<1>4. NothingLost
  BY <1>1 DEF NothingLost, Poll!NothingLost
<1> QED
  BY <1>2, <1>3, <1>4 DEF PollInv

\* The first poll starts with what is notified after it.
LEMMA FirstPollKeeps ==
  ASSUME PollInv, Poll!FirstPoll(Writer), UNCHANGED ran
  PROVE  PollInv' /\ phase'[Writer] = "polling"
<1>1. PollTypes /\ Counts
  BY DEF PollInv
<1>2. phase' \in [{Writer} -> {"out", "entered", "polling", "exited"}]
      /\ phase'[Writer] = "polling"
  BY <1>1 DEF Poll!FirstPoll, PollTypes
<1>3. polled' \in [{Writer} -> Nat] /\ polled'[Writer] = Len(notified)
  BY <1>1 DEF Poll!FirstPoll, PollTypes
<1>4. UNCHANGED <<event, args, called, notified, ran>>
  BY DEF Poll!FirstPoll
<1>5. PollTypes'
  BY <1>1, <1>2, <1>3, <1>4 DEF PollTypes
<1>6. Counts'
  BY <1>1, <1>2, <1>3, <1>4 DEF Counts, PollTypes
<1>7. NothingLost'
  <2>1. args[Writer] = << >> /\ called[Writer] = << >>
    BY <1>1 DEF Counts, Poll!FirstPoll
  <2>2. Len(notified) \in Nat
    BY <1>1 DEF PollTypes
  <2>3. SubSeq(notified, Len(notified) + 1, Len(notified)) = << >>
    BY <2>2, SubSeqEmpty
  <2>4. called[Writer] \o args[Writer] = << >>
    BY <2>1, ConcatEmptySeq, EmptySeq
  <2> QED
    BY <1>3, <1>4, <2>3, <2>4 DEF NothingLost, Poll!NothingLost
<1> QED
  BY <1>2, <1>5, <1>6, <1>7 DEF PollInv

\* An item that is notified waits at the end of what the callback is given.
LEMMA NotifyKeeps ==
  ASSUME PollInv, NEW m \in Everyone, Poll!notify(m), UNCHANGED ran
  PROVE  /\ PollInv' /\ UNCHANGED <<phase, called>>
         /\ phase[Writer] = "polling" =>
              args'[Writer] = Append(args[Writer], m)
         /\ phase[Writer] # "polling" => args'[Writer] = args[Writer]
<1>1. PollTypes /\ Counts /\ NothingLost
  BY DEF PollInv
<1>2. /\ notified' = Append(notified, m)
      /\ UNCHANGED <<phase, called, polled, ran>>
      /\ phase[Writer] = "polling" => args'[Writer] = Append(args[Writer], m)
      /\ phase[Writer] # "polling" => args'[Writer] = args[Writer]
  BY DEF Poll!notify
<1>3. PollTypes'
  <2>1. args' \in [{Writer} -> Seq(Everyone)]
    BY <1>1 DEF Poll!notify, PollTypes
  <2>2. event' \in [{Writer} -> BOOLEAN]
    BY DEF Poll!notify, Poll!Woken
  <2>3. notified' \in Seq(Everyone)
    BY <1>1, <1>2 DEF PollTypes
  <2> QED
    BY <1>1, <1>2, <2>1, <2>2, <2>3 DEF PollTypes
<1>4. Counts'
  <2>1. Len(notified') = Len(notified) + 1 /\ Len(notified) \in Nat
    BY <1>1, <1>2 DEF PollTypes
  <2>2. polled[Writer] \in Nat /\ polled[Writer] <= Len(notified)
    BY <1>1 DEF Counts, PollTypes
  <2>3. polled'[Writer] <= Len(notified')
    BY <1>2, <2>1, <2>2
  <2>4. ran' <= Len(called'[Writer])
    BY <1>1, <1>2 DEF Counts
  <2>5. phase'[Writer] = "entered" =>
          args'[Writer] = << >> /\ called'[Writer] = << >>
    BY <1>1, <1>2 DEF Counts
  <2> QED
    BY <2>3, <2>4, <2>5 DEF Counts
<1>5. NothingLost'
  <2> SUFFICES ASSUME phase[Writer] = "polling"
               PROVE  called[Writer] \o Append(args[Writer], m)
                        = SubSeq(Append(notified, m), polled[Writer] + 1,
                                 Len(Append(notified, m)))
    BY <1>2 DEF NothingLost, Poll!NothingLost
  <2>1. /\ called[Writer] \in Seq(Everyone) /\ args[Writer] \in Seq(Everyone)
        /\ notified \in Seq(Everyone)
        /\ polled[Writer] \in Nat /\ polled[Writer] <= Len(notified)
    BY <1>1 DEF PollTypes, Counts
  <2>2. called[Writer] \o Append(args[Writer], m)
          = Append(called[Writer] \o args[Writer], m)
    <3>1. PICK c \in Seq(Everyone), a \in Seq(Everyone) :
            c = called[Writer] /\ a = args[Writer]
      BY <2>1
    <3>2. c \o Append(a, m) = Append(c \o a, m)
      BY ConcatAppend
    <3> QED
      BY <3>1, <3>2
  <2>3. called[Writer] \o args[Writer]
          = SubSeq(notified, polled[Writer] + 1, Len(notified))
    BY <1>1 DEF NothingLost, Poll!NothingLost
  <2>4. SubSeq(Append(notified, m), polled[Writer] + 1, Len(notified) + 1)
          = Append(SubSeq(notified, polled[Writer] + 1, Len(notified)), m)
    BY <2>1, SubSeqAppend
  <2>5. Len(Append(notified, m)) = Len(notified) + 1
    BY <2>1
  <2> QED
    BY <2>2, <2>3, <2>4, <2>5
<1> QED
  BY <1>2, <1>3, <1>4, <1>5 DEF PollInv

\* What waited is given to the callback, in the order in which it came.
LEMMA ResumeKeeps ==
  ASSUME PollInv, Poll!Resume(Writer), UNCHANGED ran, ran \in Nat
  PROVE  /\ PollInv' /\ UNCHANGED phase
         /\ args'[Writer] = << >>
         /\ called'[Writer] = called[Writer] \o args[Writer]
<1>1. PollTypes /\ Counts /\ NothingLost
  BY DEF PollInv
<1>2. /\ called[Writer] \in Seq(Everyone) /\ args[Writer] \in Seq(Everyone)
      /\ notified \in Seq(Everyone)
  BY <1>1 DEF PollTypes
<1>3. /\ called'[Writer] = called[Writer] \o args[Writer]
      /\ args'[Writer] = << >> /\ phase[Writer] = "polling"
      /\ UNCHANGED <<phase, notified, polled, ran>>
  BY <1>1 DEF Poll!Resume, Poll!Taken, PollTypes
<1>4. /\ called[Writer] \o args[Writer] \in Seq(Everyone)
      /\ Len(called[Writer] \o args[Writer])
           = Len(called[Writer]) + Len(args[Writer])
  BY <1>2, ConcatProperties
<1>5. PollTypes'
  <2>1. called' \in [{Writer} -> Seq(Everyone)]
    BY <1>1, <1>4 DEF Poll!Resume, Poll!Taken, PollTypes
  <2>2. args' \in [{Writer} -> Seq(Everyone)]
    BY <1>1 DEF Poll!Resume, PollTypes
  <2>3. event' \in [{Writer} -> BOOLEAN]
    BY <1>1 DEF Poll!Resume, PollTypes
  <2> QED
    BY <1>1, <1>3, <2>1, <2>2, <2>3 DEF PollTypes
<1>6. Counts'
  <2>1. Len(called[Writer]) \in Nat /\ Len(args[Writer]) \in Nat
    BY <1>2
  <2>2. ran <= Len(called[Writer]) /\ ran' = ran
    BY <1>1 DEF Counts
  <2>3. ran' <= Len(called[Writer]) + Len(args[Writer])
    <3>1. PICK c \in Nat, a \in Nat, r \in Nat :
            c = Len(called[Writer]) /\ a = Len(args[Writer]) /\ r = ran
      BY <2>1
    <3>2. r <= c => r <= c + a
      OBVIOUS
    <3> QED
      BY <2>2, <3>1, <3>2
  <2>4. ran' <= Len(called'[Writer])
    BY <1>3, <1>4, <2>3
  <2> QED
    BY <1>1, <1>3, <2>4 DEF Counts
<1>7. NothingLost'
  <2>1. (called[Writer] \o args[Writer]) \o << >>
          = called[Writer] \o args[Writer]
    BY <1>4, ConcatEmptySeq
  <2> QED
    BY <1>1, <1>3, <2>1 DEF NothingLost, Poll!NothingLost
<1> QED
  BY <1>3, <1>5, <1>6, <1>7 DEF PollInv

\* A cancelled callback keeps what it was given.
LEMMA ExitKeeps ==
  ASSUME PollInv, Poll!Exit(Writer), UNCHANGED ran
  PROVE  PollInv'
<1>1. PollTypes /\ Counts
  BY DEF PollInv
<1>2. /\ phase' \in [{Writer} -> {"out", "entered", "polling", "exited"}]
      /\ phase'[Writer] = "exited"
      /\ UNCHANGED <<event, args, called, notified, polled, ran>>
  BY <1>1 DEF Poll!Exit, PollTypes
<1>3. PollTypes'
  BY <1>1, <1>2 DEF PollTypes
<1>4. Counts'
  BY <1>1, <1>2 DEF Counts
<1>5. NothingLost'
  BY <1>2 DEF NothingLost, Poll!NothingLost
<1> QED
  BY <1>3, <1>4, <1>5 DEF PollInv

\* Nothing happens to the listener.
LEMMA PollSame ==
  ASSUME PollInv, UNCHANGED <<polling, ran>>
  PROVE  PollInv'
BY DEF PollInv, PollTypes, Counts, NothingLost, Poll!NothingLost, polling

-----------------------------------------------------------------------------
(***************************************************************************)
(* The mirror: the links that a call writes, and the calls to come.        *)
(***************************************************************************)
\* The status of a member stays a real one.
LEMMA TransitionReal ==
  ASSUME NEW from \in RealStatus, NEW to \in RealStatus
  PROVE  transition(from, to) \in RealStatus
BY DEF transition, RealStatus

\* The first statuses are statuses.
LEMMA FirstDirs == \A n \in 0..Len(statuses) : First(n) \subseteq AllDirs
<1>1. Len(statuses) = 5
  BY DEF statuses
<1> QED
  BY <1>1 DEF AllDirs, First

\* Links are made in the directories of the statuses only.
LEMMA LinksTyped ==
  ASSUME links \subseteq AllDirs \X Remotes, NEW m \in Remotes,
         NEW masks \in SUBSET AllDirs
  PROVE  update_status(m, masks) \subseteq AllDirs \X Remotes
BY DEF update_status

\* After all the statuses the links of the member are those of its status,
\* and those of the others are what they were.
LEMMA LinksWritten ==
  ASSUME links \subseteq AllDirs \X Remotes, NEW m \in Remotes
  PROVE  /\ {l[1] : l \in {x \in update_status(m, AllDirs) : x[2] = m}}
              = {st \in AllDirs : Has(table[m].status, st)}
         /\ \A o \in Remotes \ {m} :
              {x \in update_status(m, AllDirs) : x[2] = o}
                = {x \in links : x[2] = o}
<1> DEFINE new == {<<st, m>> : st \in {x \in AllDirs : Has(table[m].status, x)}}
           old == {l \in links : l[2] # m}
<1>1. update_status(m, AllDirs) = old \cup new
  BY DEF update_status
<1>2. {x \in old \cup new : x[2] = m} = new
  <2>1. \A x \in new : x[2] = m
    OBVIOUS
  <2>2. \A x \in old : x[2] # m
    OBVIOUS
  <2> QED
    BY <2>1, <2>2
<1>3. {l[1] : l \in new} = {st \in AllDirs : Has(table[m].status, st)}
  <2> DEFINE D == {st \in AllDirs : Has(table[m].status, st)}
  <2>1. new = {<<st, m>> : st \in D}
    OBVIOUS
  <2> HIDE DEF D, new
  <2>2. ASSUME NEW st \in D PROVE st \in {l[1] : l \in new}
    <3>1. <<st, m>> \in new /\ <<st, m>>[1] = st
      BY <2>1
    <3> QED
      BY <3>1
  <2>3. ASSUME NEW l \in new PROVE l[1] \in D
    BY <2>1
  <2>4. {l[1] : l \in new} = D
    BY <2>2, <2>3
  <2> QED
    BY <2>4 DEF D
<1>4. ASSUME NEW o \in Remotes \ {m}
      PROVE  {x \in old \cup new : x[2] = o} = {x \in links : x[2] = o}
  OBVIOUS
<1> QED
  BY <1>1, <1>2, <1>3, <1>4

\* A call to come is still to come after a change, and after a dispatch.
LEMMA NotifyUnwritten ==
  ASSUME PollTypes, NEW m \in Everyone, NEW o \in Everyone,
         \/ args'[Writer] = Append(args[Writer], m)
         \/ args'[Writer] = args[Writer],
         UNCHANGED <<ran, called>>, Unwritten(o)
  PROVE  Unwritten(o)'
<1>1. PICK a \in Seq(Everyone) : a = args[Writer]
  BY DEF PollTypes
<1>2. CASE \E i \in DOMAIN args[Writer] : args[Writer][i] = o
  <2>1. PICK i \in 1..Len(a) : a[i] = o
    BY <1>1, <1>2
  <2>2. Append(a, m)[i] = o /\ i \in DOMAIN Append(a, m)
    BY <2>1
  <2>3. \E j \in DOMAIN args'[Writer] : args'[Writer][j] = o
    BY <1>1, <1>2, <2>2
  <2> QED
    BY <2>3 DEF Unwritten
<1>3. CASE \E i \in (ran + 1)..Len(called[Writer]) : called[Writer][i] = o
  BY <1>3 DEF Unwritten
<1> QED
  BY <1>2, <1>3 DEF Unwritten

LEMMA DispatchUnwritten ==
  ASSUME PollTypes, ran \in Nat, ran <= Len(called[Writer]), NEW o \in Everyone,
         called'[Writer] = called[Writer] \o args[Writer],
         UNCHANGED ran, Unwritten(o)
  PROVE  Unwritten(o)'
<1>1. PICK a \in Seq(Everyone), c \in Seq(Everyone), r \in Nat :
        a = args[Writer] /\ c = called[Writer] /\ r = ran
  BY DEF PollTypes
<1>2. /\ Len(c \o a) = Len(c) + Len(a) /\ Len(a) \in Nat /\ Len(c) \in Nat
      /\ \A i \in 1..Len(c) : (c \o a)[i] = c[i]
      /\ \A i \in 1..Len(a) : (c \o a)[Len(c) + i] = a[i]
  OBVIOUS
<1>3. \E i \in (r + 1)..Len(c \o a) : (c \o a)[i] = o
  <2>1. CASE \E i \in DOMAIN a : a[i] = o
    <3>1. PICK i \in 1..Len(a) : a[i] = o
      BY <2>1
    <3>2. r <= Len(c)
      BY <1>1
    <3>3. Len(c) + i \in (r + 1)..Len(c \o a)
      BY <1>2, <3>2
    <3> QED
      BY <1>2, <3>1, <3>3
  <2>2. CASE \E i \in (r + 1)..Len(c) : c[i] = o
    BY <1>2, <2>2
  <2> QED
    BY <1>1, <2>1, <2>2 DEF Unwritten
<1> QED
  BY <1>1, <1>3 DEF Unwritten

\* Where the table and the mirror stay, it is enough that no call is dropped.
LEMMA MirrorKept ==
  ASSUME Current, pc' = "running" => pc = "running",
         UNCHANGED <<table, links, files, changed>>,
         \A m \in changed : Unwritten(m) => Unwritten(m)'
  PROVE  Current'
<1>1. \A m \in changed : Right(m) <=> Right(m)'
  BY DEF Right, Contents
<1> QED
  BY <1>1 DEF Current

-----------------------------------------------------------------------------
(***************************************************************************)
(* The actions.                                                            *)
(***************************************************************************)
\* A table in which every member is new.
LEMMA UnmetTyped == Unmet \in [Everyone -> Entries]
BY DEF Unmet, Everyone, Entries, NewMember, RealStatus

\* What _write_member writes is a mapping of the keys to contents.
LEMMA WrittenTyped ==
  ASSUME Types, NEW m \in Remotes
  PROVE  Contents(m) \in Mapping /\ Pruned(m) \in Mapping
<1>1. /\ table[m].metadata \in Mapping \cup {Unknown}
      /\ files[m] \in Mapping
  BY DEF Types, Everyone, Entries
<1>2. Contents(m) \in Mapping
  BY <1>1 DEF Contents, Mapping, NoFiles
<1> QED
  BY <1>1, <1>2 DEF Pruned, Mapping

LEMMA InitInv == Init => Inv
<1> SUFFICES ASSUME Init PROVE Inv
  OBVIOUS
<1>1. Types
  BY UnmetTyped DEF Init, Types, Mapping, NoFiles
<1>2. Order /\ Current
  BY DEF Init, Order, Current
<1> QED
  BY <1>1, <1>2, InitPoll DEF Inv

LEMMA StartInv ==
  ASSUME Inv, NEW md \in Mapping, Start(md)
  PROVE  Inv'
<1>1. PollInv' /\ phase'[Writer] = "entered"
  BY RenewKeeps DEF Start
<1>2. Types'
  <2>1. table' \in [Everyone -> Entries]
    BY UnmetTyped DEF Start, Everyone, Entries, RealStatus
  <2> QED
    BY <2>1 DEF Start, Types, Inv, mirror
<1>3. Order'
  BY <1>1 DEF Start, Order
<1>4. Current'
  BY DEF Start, Current
<1> QED
  BY <1>1, <1>2, <1>3, <1>4 DEF Inv

\* The queue where the first task is the last one, or creates one or none.
LEMMA Queues ==
  /\ << >> \o <<"worker", "poll">> = <<"worker", "poll">>
  /\ <<"poll">> \o <<"handler">> = <<"poll", "handler">>
  /\ <<"handler">> \o << >> = <<"handler">>
<1> DEFINE S == {"worker", "poll", "handler"}
<1>1. "worker" \in S /\ "poll" \in S /\ "handler" \in S
  OBVIOUS
<1> HIDE DEF S
<1>2. <<"poll">> \in Seq(S) /\ <<"handler">> \in Seq(S)
  BY <1>1
<1>3. <<"worker", "poll">> \in Seq(S)
  BY <1>1
<1>4. <<"poll">> \o <<"handler">> = Append(<<"poll">>, "handler")
  BY <1>1, <1>2, AppendIsConcat
<1>5. Append(<<"poll">>, "handler") = <<"poll", "handler">>
  <2> DEFINE a == Append(<<"poll">>, "handler")
             b == <<"poll", "handler">>
  <2>1. a \in Seq(S) /\ Len(a) = 2 /\ a[1] = "poll" /\ a[2] = "handler"
    BY <1>1, <1>2, AppendProperties
  <2>2. b \in Seq(S) /\ Len(b) = 2 /\ b[1] = "poll" /\ b[2] = "handler"
    BY <1>1
  <2> HIDE DEF a, b
  <2>3. Len(a) = Len(b) /\ \A i \in 1..Len(a) : a[i] = b[i]
    BY <2>1, <2>2
  <2> QED
    BY <2>1, <2>2, <2>3, SeqEqual DEF a, b
<1> QED
  BY <1>2, <1>3, <1>4, <1>5, ConcatEmptySeq

\* The task of the callback runs before that of the handler.
LEMMA RunTaskInv ==
  ASSUME Inv, RunTask
  PROVE  Inv'
<1>1. Types' /\ UNCHANGED <<pc, table, changed, ran, links, files>>
  BY DEF RunTask, mirror, Inv, Types
<1>2. CASE ready = <<"poll", "handler">>
  <2>1. Head(ready) = "poll" /\ Tail(ready) = <<"handler">>
    BY <1>2
  <2>2. Spawned("poll") = << >>
    BY DEF Spawned
  <2>3. ready' = <<"handler">> /\ Poll!FirstPoll(Writer)
    BY <2>1, <2>2, Queues DEF RunTask
  <2>4. PollInv' /\ phase'[Writer] = "polling"
    BY <1>1, <2>3, FirstPollKeeps DEF Inv
  <2>5. Order'
    BY <2>3, <2>4 DEF Order
  <2>6. \A m \in changed : Unwritten(m) => Unwritten(m)'
    BY <1>1, <2>3 DEF Unwritten, Poll!FirstPoll
  <2>7. Current'
    BY <1>1, <2>6, MirrorKept DEF Inv
  <2> QED
    BY <1>1, <2>4, <2>5, <2>7 DEF Inv
<1>3. CASE ready # <<"poll", "handler">>
  <2>1. \/ ready = <<"main">> /\ phase[Writer] = "entered"
        \/ ready = <<"worker", "poll">> /\ phase[Writer] = "entered"
        \/ ready = <<"handler">> /\ phase[Writer] = "polling"
    BY <1>3 DEF Inv, Order, RunTask
  <2>2. /\ Spawned("main") = <<"worker", "poll">>
        /\ Spawned("worker") = <<"handler">>
        /\ Spawned("handler") = << >>
    BY DEF Spawned
  <2>3. \/ ready' = <<"worker", "poll">> /\ phase[Writer] = "entered"
        \/ ready' = <<"poll", "handler">> /\ phase[Writer] = "entered"
        \/ ready' = << >> /\ phase[Writer] = "polling"
    <3>1. CASE ready = <<"main">> /\ phase[Writer] = "entered"
      <4>1. Head(ready) = "main" /\ Tail(ready) = << >>
        BY <3>1
      <4> QED
        BY <2>2, <3>1, <4>1, Queues DEF RunTask
    <3>2. CASE ready = <<"worker", "poll">> /\ phase[Writer] = "entered"
      <4>1. Head(ready) = "worker" /\ Tail(ready) = <<"poll">>
        BY <3>2
      <4> QED
        BY <2>2, <3>2, <4>1, Queues DEF RunTask
    <3>3. CASE ready = <<"handler">> /\ phase[Writer] = "polling"
      <4>1. Head(ready) = "handler" /\ Tail(ready) = << >>
        BY <3>3
      <4> QED
        BY <2>2, <3>3, <4>1 DEF RunTask
    <3> QED
      BY <2>1, <3>1, <3>2, <3>3
  <2>4. UNCHANGED polling
    BY <2>1 DEF RunTask
  <2>5. PollInv'
    BY <1>1, <2>4, PollSame DEF Inv
  <2>6. Order'
    BY <2>3, <2>4 DEF Order, polling
  <2>7. \A m \in changed : Unwritten(m) => Unwritten(m)'
    BY <1>1, <2>4 DEF Unwritten, polling
  <2>8. Current'
    BY <1>1, <2>7, MirrorKept DEF Inv
  <2> QED
    BY <1>1, <2>5, <2>6, <2>8 DEF Inv
<1> QED
  BY <1>2, <1>3

\* Once the handler runs, the callback polls.
LEMMA HandlingPolls ==
  ASSUME Inv, Handling, pc = "running"
  PROVE  phase[Writer] = "polling"
<1>1. ready # <<"main">>
  BY DEF Handling
<1>2. ready # <<"worker", "poll">>
  BY DEF Handling
<1>3. ready # <<"poll", "handler">>
  BY DEF Handling
<1> QED
  BY <1>1, <1>2, <1>3 DEF Inv, Order

\* A change while the process runs is given to the callback.
LEMMA ChangeInv ==
  ASSUME Inv, NEW m \in Remotes, NEW st \in RealStatus,
         NEW md \in Mapping \cup {Unknown}, Change(m, st, md)
  PROVE  Inv'
<1> DEFINE new == [status   |-> transition(table[m].status, st),
                   metadata |-> IF md = Unknown THEN table[m].metadata ELSE md]
<1>1. /\ Handling /\ table' = [table EXCEPT ![m] = new]
      /\ changed' = changed \cup {m} /\ Poll!notify(m)
      /\ UNCHANGED <<pc, ready, ran, links, files>>
  BY DEF Change, mirror
<1>2. Types /\ PollInv /\ m \in Everyone
  BY DEF Inv, Everyone
<1>3. /\ PollInv' /\ UNCHANGED <<phase, called>>
      /\ phase[Writer] = "polling" => args'[Writer] = Append(args[Writer], m)
      /\ phase[Writer] # "polling" => args'[Writer] = args[Writer]
  BY <1>1, <1>2, NotifyKeeps
<1>4. Types'
  <2>1. new \in Entries
    <3>1. /\ table[m].status \in RealStatus
          /\ table[m].metadata \in Mapping \cup {Unknown}
      BY <1>2 DEF Types, Entries
    <3> QED
      BY <3>1, TransitionReal DEF Entries
  <2> HIDE DEF new
  <2>2. table' \in [Everyone -> Entries]
    BY <1>1, <1>2, <2>1 DEF Types
  <2> QED
    BY <1>1, <1>2, <2>2 DEF Types
<1>5. Order'
  BY <1>1, <1>3 DEF Inv, Order
<1>6. Current'
  <2> SUFFICES ASSUME NEW o \in changed', pc' = "running", ~Unwritten(o)'
               PROVE  Right(o)'
    BY DEF Current
  <2>1. args'[Writer] = Append(args[Writer], m)
    BY <1>1, <1>3, HandlingPolls
  <2>2. o # m
    <3>1. PICK a \in Seq(Everyone) : a = args[Writer]
      BY <1>2 DEF PollInv, PollTypes
    <3>2. Append(a, m)[Len(a) + 1] = m /\ Len(a) + 1 \in DOMAIN Append(a, m)
      BY <1>2
    <3>3. Unwritten(m)'
      BY <2>1, <3>1, <3>2 DEF Unwritten
    <3> QED
      BY <3>3
  <2>3. o \in changed /\ o \in Everyone
    BY <1>1, <1>2, <2>2 DEF Types, Everyone
  <2>4. ~Unwritten(o)
    BY <1>1, <1>2, <1>3, <2>1, <2>3, NotifyUnwritten DEF PollInv
  <2>5. Right(o)
    BY <1>1, <2>3, <2>4 DEF Inv, Current
  <2>6. table'[o] = table[o]
    BY <1>1, <1>2, <2>2, <2>3 DEF Types
  <2> QED
    BY <1>1, <2>5, <2>6 DEF Right, Contents
<1> QED
  BY <1>3, <1>4, <1>5, <1>6 DEF Inv

\* What the local member's files change does not touch the others.
LEMMA ReadLocalInv ==
  ASSUME Inv, NEW md \in Mapping, ReadLocal(md)
  PROVE  Inv'
<1>1. /\ table' = [table EXCEPT ![Local].metadata = md] /\ Poll!notify(Local)
      /\ UNCHANGED <<pc, ready, ran, changed, links, files>>
  BY DEF ReadLocal, mirror
<1>2. Types /\ PollInv /\ Local \in Everyone
  BY DEF Inv, Everyone
<1>3. /\ PollInv' /\ UNCHANGED <<phase, called>>
      /\ \/ args'[Writer] = Append(args[Writer], Local)
         \/ args'[Writer] = args[Writer]
  BY <1>1, <1>2, NotifyKeeps
<1>4. Types'
  <2>1. table' \in [Everyone -> Entries]
    BY <1>1, <1>2 DEF Types, Entries
  <2> QED
    BY <1>1, <1>2, <2>1 DEF Types
<1>5. Order'
  BY <1>1, <1>3 DEF Inv, Order
<1>6. Current'
  <2> SUFFICES ASSUME NEW o \in changed, pc = "running", ~Unwritten(o)'
               PROVE  Right(o)'
    BY <1>1 DEF Current
  <2>1. o \in Everyone /\ o # Local
    BY <1>2, SyncAssumption DEF Types, Everyone
  <2>2. ~Unwritten(o)
    BY <1>1, <1>2, <1>3, <2>1, NotifyUnwritten DEF PollInv
  <2>3. Right(o)
    BY <2>2 DEF Inv, Current
  <2>4. table'[o] = table[o]
    BY <1>1, <1>2, <2>1 DEF Types
  <2> QED
    BY <1>1, <2>3, <2>4 DEF Right, Contents
<1> QED
  BY <1>3, <1>4, <1>5, <1>6 DEF Inv

LEMMA DispatchInv ==
  ASSUME Inv, Dispatch
  PROVE  Inv'
<1>1. /\ Poll!Resume(Writer)
      /\ UNCHANGED <<pc, ready, table, changed, ran, links, files>>
  BY DEF Dispatch, mirror
<1>2. Types /\ PollInv /\ ran \in Nat
  BY DEF Inv, Types
<1>3. /\ PollInv' /\ UNCHANGED phase
      /\ called'[Writer] = called[Writer] \o args[Writer]
  BY <1>1, <1>2, ResumeKeeps
<1>4. Types' /\ Order'
  BY <1>1, <1>2, <1>3 DEF Inv, Types, Order
<1>5. ASSUME NEW o \in changed, Unwritten(o) PROVE Unwritten(o)'
  <2>1. o \in Everyone /\ PollTypes /\ ran <= Len(called[Writer])
    BY <1>2 DEF Types, Everyone, PollInv, Counts
  <2> QED
    BY <1>1, <1>2, <1>3, <1>5, <2>1, DispatchUnwritten
<1>6. Current'
  BY <1>1, <1>5, MirrorKept DEF Inv
<1> QED
  BY <1>3, <1>4, <1>6 DEF Inv

\* A call that runs leaves its member mirrored, whatever was there.
LEMMA WriteMemberInv ==
  ASSUME Inv, WriteMember
  PROVE  Inv'
<1>1. /\ Queued /\ ran' = ran + 1
      /\ UNCHANGED <<pc, ready, table, changed, polling>>
  BY DEF WriteMember
<1>2. /\ Types /\ PollInv /\ PollTypes /\ Counts
  BY DEF Inv, PollInv
<1>3. PICK c \in Seq(Everyone), r \in Nat : c = called[Writer] /\ r = ran
  BY <1>2 DEF Types, PollTypes
<1>4. r < Len(c) /\ Len(c) \in Nat /\ r + 1 \in 1..Len(c)
  BY <1>1, <1>3 DEF Queued
<1>5. Target = c[r + 1] /\ c[r + 1] \in Everyone
  BY <1>3, <1>4 DEF Target
<1>6. PollInv'
  <2>1. UNCHANGED <<phase, event, args, called, notified, polled>>
    BY <1>1 DEF polling
  <2>2. PollTypes'
    BY <1>2, <2>1 DEF PollTypes
  <2>3. ran' <= Len(called'[Writer])
    BY <1>1, <1>3, <1>4, <2>1
  <2>4. Counts'
    BY <1>2, <2>1, <2>3 DEF Counts
  <2>5. NothingLost'
    BY <1>2, <2>1 DEF PollInv, NothingLost, Poll!NothingLost
  <2> QED
    BY <2>2, <2>4, <2>5 DEF PollInv
<1>7. Order'
  BY <1>1 DEF Inv, Order, polling
<1>8. ASSUME NEW o \in Everyone, Unwritten(o), o # Target
      PROVE  Unwritten(o)'
  <2>1. CASE \E j \in DOMAIN args[Writer] : args[Writer][j] = o
    BY <1>1, <2>1 DEF Unwritten, polling
  <2>2. CASE \E j \in (ran + 1)..Len(called[Writer]) : called[Writer][j] = o
    <3>1. PICK j \in (r + 1)..Len(c) : c[j] = o
      BY <1>3, <2>2
    <3>2. j # r + 1
      BY <1>5, <1>8, <3>1
    <3>3. j \in (r + 1 + 1)..Len(c)
      BY <1>4, <3>2
    <3>4. \E k \in (ran' + 1)..Len(called'[Writer]) : called'[Writer][k] = o
      BY <1>1, <1>3, <3>1, <3>3 DEF polling
    <3> QED
      BY <3>4 DEF Unwritten
  <2> QED
    BY <1>8, <2>1, <2>2 DEF Unwritten
<1>9. CASE Target = Local
  <2>1. UNCHANGED <<links, files>>
    BY <1>9 DEF WriteMember
  <2>2. Types'
    BY <1>1, <1>2, <2>1 DEF Types
  <2>3. ASSUME NEW o \in changed, Unwritten(o) PROVE Unwritten(o)'
    BY <1>2, <1>8, <1>9, <2>3, SyncAssumption DEF Types, Everyone
  <2>4. Current'
    BY <1>1, <2>1, <2>3, MirrorKept DEF Inv
  <2> QED
    BY <1>6, <1>7, <2>2, <2>4 DEF Inv
<1>10. CASE Target # Local
  <2>1. PICK m \in Remotes : m = Target
    BY <1>5, <1>10 DEF Everyone
  <2>2. /\ links' = update_status(m, AllDirs)
        /\ files' = [files EXCEPT ![m] = IF SameDev THEN Contents(m)
                                                    ELSE Pruned(m)]
    BY <1>10, <2>1 DEF WriteMember
  <2>3. Contents(m) \in Mapping /\ Pruned(m) \in Mapping
    BY <1>2, WrittenTyped
  <2>4. /\ files' \in [Remotes -> Mapping]
        /\ files'[m] = IF SameDev THEN Contents(m) ELSE Pruned(m)
        /\ \A o \in Remotes \ {m} : files'[o] = files[o]
    BY <1>2, <2>2, <2>3 DEF Types
  <2>5. links' \subseteq AllDirs \X Remotes
    BY <1>2, <2>2, LinksTyped DEF Types
  <2>6. Types'
    BY <1>1, <1>2, <2>4, <2>5 DEF Types
  <2>7. Right(m)'
    <3>1. {l[1] : l \in {x \in links' : x[2] = m}}
            = {s \in AllDirs : Has(table'[m].status, s)}
      BY <1>1, <1>2, <2>2, LinksWritten DEF Types
    <3>2. SameDev => files'[m] = Contents(m)'
      BY <1>1, <2>4 DEF Contents
    <3> QED
      BY <3>1, <3>2 DEF Right
  <2>8. ASSUME NEW o \in Remotes \ {m}, Right(o) PROVE Right(o)'
    <3>1. {x \in links' : x[2] = o} = {x \in links : x[2] = o}
      BY <1>2, <2>2, LinksWritten DEF Types
    <3> QED
      BY <1>1, <2>4, <2>8, <3>1 DEF Right, Contents
  <2>9. Current'
    <3> SUFFICES ASSUME NEW o \in changed, pc = "running", ~Unwritten(o)'
                 PROVE  Right(o)'
      BY <1>1 DEF Current
    <3>1. CASE o = m
      BY <2>7, <3>1
    <3>2. CASE o # m
      <4>1. o \in Remotes /\ o \in Everyone
        BY <1>2 DEF Types, Everyone
      <4>2. Right(o)
        BY <1>8, <2>1, <3>2, <4>1 DEF Inv, Current
      <4> QED
        BY <2>8, <3>2, <4>1, <4>2
    <3> QED
      BY <3>1, <3>2
  <2> QED
    BY <1>6, <1>7, <2>6, <2>9 DEF Inv
<1> QED
  BY <1>9, <1>10

LEMMA LeaveInv ==
  ASSUME Inv, Leave
  PROVE  Inv'
<1>1. /\ pc' = "leaving" /\ Poll!Exit(Writer)
      /\ UNCHANGED <<table, changed, ran, links, files>>
  BY DEF Leave, mirror
<1>2. PollInv'
  BY <1>1, ExitKeeps DEF Inv
<1>3. Types' /\ Order' /\ Current'
  BY <1>1 DEF Inv, Types, Order, Current
<1> QED
  BY <1>2, <1>3 DEF Inv

LEMMA CleanupInv ==
  ASSUME Inv, Cleanup
  PROVE  Inv'
<1>1. /\ pc' = "stopping"
      /\ UNCHANGED <<table, changed, ran, polling>>
  BY DEF Cleanup
<1>2. PollInv'
  BY <1>1, PollSame DEF Inv
<1>3. links' \subseteq AllDirs \X Remotes
  BY DEF Cleanup, Inv, Types
<1>4. files' \in [Remotes -> Mapping]
  <2>1. PICK some \in SUBSET Remotes :
          files' = [m \in Remotes |-> IF m \in some THEN NoFiles ELSE files[m]]
    <3>1. CASE non_local \subseteq dirs
      <4>1. files' = [m \in Remotes |-> IF m \in non_local \cap Remotes
                                        THEN NoFiles ELSE files[m]]
        BY <3>1 DEF Cleanup
      <4> QED
        BY <4>1
    <3>2. CASE ~(non_local \subseteq dirs)
      <4>1. PICK emptied \in SUBSET (non_local \cap dirs) :
              files' = [m \in Remotes |-> IF m \in emptied THEN NoFiles
                                                           ELSE files[m]]
        BY <3>2 DEF Cleanup
      <4>2. files' = [m \in Remotes |-> IF m \in emptied \cap Remotes
                                        THEN NoFiles ELSE files[m]]
        BY <4>1
      <4> QED
        BY <4>2
    <3> QED
      BY <3>1, <3>2
  <2>2. NoFiles \in Mapping
    BY DEF NoFiles, Mapping
  <2> QED
    BY <2>1, <2>2 DEF Inv, Types
<1>5. Types' /\ Order' /\ Current'
  BY <1>1, <1>3, <1>4 DEF Inv, Types, Order, Current
<1> QED
  BY <1>2, <1>5 DEF Inv

\* Nothing of the process is left, and the file system is well formed.
LEMMA GoneInv ==
  ASSUME Inv, Gone, links' \subseteq AllDirs \X Remotes,
         files' \in [Remotes -> Mapping]
  PROVE  Inv'
<1>1. PollInv'
  BY RenewKeeps DEF Gone
<1>2. Types'
  BY UnmetTyped DEF Gone, Inv, Types
<1>3. Order' /\ Current'
  BY DEF Gone, Order, Current
<1> QED
  BY <1>1, <1>2, <1>3 DEF Inv

LEMMA HaltInv ==
  ASSUME Inv, Halt
  PROVE  Inv'
BY GoneInv DEF Halt, mirror, Inv, Types

\* A crash in the middle of a write leaves some links and some of the files.
LEMMA CrashInv ==
  ASSUME Inv, Crash
  PROVE  Inv'
<1>1. Gone
  BY DEF Crash
<1>2. Types /\ PollTypes
  BY DEF Inv, PollInv
<1>3. CASE UNCHANGED <<dirs, links, files>>
  BY <1>1, <1>2, <1>3, GoneInv DEF Types
<1>4. CASE Queued /\ Target # Local /\ ~UNCHANGED <<dirs, links, files>>
  <2>1. PICK m \in Remotes : m = Target
    <3>1. PICK c \in Seq(Everyone), r \in Nat : c = called[Writer] /\ r = ran
      BY <1>2 DEF Types, PollTypes
    <3>2. r + 1 \in 1..Len(c)
      BY <1>4, <3>1 DEF Queued
    <3>3. Target \in Everyone
      BY <3>1, <3>2 DEF Target
    <3> QED
      BY <1>4, <3>3 DEF Everyone
  <2>2. links' \subseteq AllDirs \X Remotes
    <3>1. PICK masks \in SUBSET AllDirs : links' = update_status(m, masks)
      BY <1>4, <2>1, FirstDirs DEF Crash
    <3> QED
      BY <1>2, <3>1, LinksTyped DEF Types
  <2>3. files' \in [Remotes -> Mapping]
    <3>1. CASE UNCHANGED files
      BY <1>2, <3>1 DEF Types
    <3>2. CASE ~UNCHANGED files
      <4>1. PICK torn \in SUBSET Keys :
              files' = [files EXCEPT ![m] = [k \in Keys |->
                IF k \in torn /\ SameDev THEN Contents(m)[k]
                ELSE IF k \in torn THEN Pruned(m)[k] ELSE files[m][k]]]
        BY <1>2, <1>4, <2>1, <3>2 DEF Crash, Types
      <4>2. /\ Contents(m) \in Mapping /\ Pruned(m) \in Mapping
            /\ files[m] \in Mapping
        BY <1>2, WrittenTyped DEF Types
      <4>3. [k \in Keys |->
              IF k \in torn /\ SameDev THEN Contents(m)[k]
              ELSE IF k \in torn THEN Pruned(m)[k] ELSE files[m][k]] \in Mapping
        BY <4>2 DEF Mapping
      <4> QED
        BY <1>2, <4>1, <4>3 DEF Types
    <3> QED
      BY <3>1, <3>2
  <2> QED
    BY <1>1, <2>2, <2>3, GoneInv
<1> QED
  BY <1>3, <1>4 DEF Crash

\* A step that leaves alone all that the invariant reads.
LEMMA SameInv ==
  ASSUME Inv,
         UNCHANGED <<pc, ready, table, changed, ran, links, files,
                     polling>>
  PROVE  Inv'
<1>1. PollInv'
  BY PollSame DEF Inv
<1>2. Types' /\ Order'
  BY DEF Inv, Types, Order, polling
<1>3. \A m \in changed : Unwritten(m) => Unwritten(m)'
  BY DEF Unwritten, polling
<1>4. Current'
  BY <1>3, MirrorKept DEF Inv
<1> QED
  BY <1>1, <1>2, <1>4 DEF Inv

LEMMA StepInv == Inv /\ [Next]_vars => Inv'
<1> SUFFICES ASSUME Inv, [Next]_vars PROVE Inv'
  OBVIOUS
<1>1. ASSUME NEW md \in Mapping, Start(md) PROVE Inv'
  BY <1>1, StartInv
<1>2. ASSUME NEW md \in Mapping, ReadLocal(md) PROVE Inv'
  BY <1>2, ReadLocalInv
<1>3. ASSUME NEW m \in Remotes, Meet(m) PROVE Inv'
  BY <1>3, SameInv DEF Meet, mirror
<1>4. ASSUME NEW m \in Remotes, NEW st \in RealStatus,
             NEW md \in Mapping \cup {Unknown}, Change(m, st, md)
      PROVE  Inv'
  BY <1>4, ChangeInv
<1>5. CASE RunTask
  BY <1>5, RunTaskInv
<1>6. CASE Dispatch
  BY <1>6, DispatchInv
<1>7. CASE WriteMember
  BY <1>7, WriteMemberInv
<1>8. CASE Leave
  BY <1>8, LeaveInv
<1>9. CASE Cleanup
  BY <1>9, CleanupInv
<1>10. CASE Halt
  BY <1>10, HaltInv
<1>11. CASE Crash
  BY <1>11, CrashInv
<1>12. CASE Stopped \/ UNCHANGED vars
  BY <1>12, SameInv DEF Stopped, vars, mirror
<1> QED
  BY <1>1, <1>2, <1>3, <1>4, <1>5, <1>6, <1>7, <1>8, <1>9, <1>10, <1>11,
     <1>12 DEF Next

LEMMA InvAlways == Spec => []Inv
BY InitInv, StepInv, PTL DEF Spec

-----------------------------------------------------------------------------
\* In every start, however many members, changes and signals there are, the
\* callback of sync is given, or about to be given, exactly the changes from
\* its first poll on, once and in their order (Listener.notify and poll).
THEOREM SyncNothingLost == Spec => []NothingLost
<1>1. Inv => NothingLost
  BY DEF Inv, PollInv
<1> QED
  BY <1>1, InvAlways, PTL

\* Where temporary files are on the file system of the directory, every member
\* that has changed since the start has the links of its status and exactly the
\* files of its metadata, or _write_member is still to run for it: no change is
\* missed before the first poll, and what an earlier run, a torn write or a
\* failed cleanup left is corrected.
THEOREM SyncMirrorCurrent ==
  ASSUME SameDev = TRUE
  PROVE  Spec => []MirrorCurrent
<1>1. Inv => MirrorCurrent
  BY DEF Inv, Current, MirrorCurrent, Right, Mirrored
<1> QED
  BY <1>1, InvAlways, PTL

=============================================================================
