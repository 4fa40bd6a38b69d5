-------------------------------- MODULE Demo --------------------------------
(***************************************************************************)
(* swimprotocol/demo: the Members object of one process, used by two       *)
(* threads.  The event loop runs the worker and changes.py; Screen.main    *)
(* runs in a thread of its own (asyncio.to_thread) and calls               *)
(* Members.update for every key typed.  Nothing locks Members, and the     *)
(* interpreter may switch threads anywhere: a call of _update is a step    *)
(* for each access to what the two share.                                  *)
(***************************************************************************)
EXTENDS Member

CONSTANTS Local,     \* the local member
          Empty,     \* the empty mapping, the default of local_metadata
          MaxCalls,  \* bound: the calls of _update of each thread
          MaxClock   \* bound: the clocks in gossip

VARIABLES next_clock,  \* _next_clock
          table,       \* the members
          pending,     \* the _pending fields of each of them
          call,        \* of each thread, the arguments of its call of _update
                       \* and the local variable next_clock
          pc,          \* of each thread, the next step of the call
          calls,       \* of each thread, the calls so far
          started,     \* whether the task of changes.py has started
          ended        \* the tasks that an assertion has ended
vars == <<next_clock, table, pending, call, pc, calls, started, ended>>

Threads == {"loop", "screen"}
Nothing == [clock |-> NoClock, status |-> NoStatus, metadata |-> Unknown]
NoCall  == [task |-> "screen", name |-> Local, source |-> NoMember, clock |-> 0,
            status |-> NoStatus, metadata |-> Unknown, next |-> 0]
ThreadOf(task) == IF task = "screen" THEN "screen" ELSE "loop"

\* After Members.__init__: the options of the demo set no metadata.
Init ==
  /\ next_clock = 2
  /\ table = [m \in Names |->
                IF m = Local
                THEN [NewMember(TRUE, 1) EXCEPT !.status = "ONLINE",
                                     !.clock = 1, !.metadata = Empty]
                ELSE NewMember(FALSE, Fresh)]
  /\ pending = [m \in Names |-> Nothing]
  /\ call = [t \in Threads |-> NoCall]
  /\ pc = [t \in Threads |-> "idle"]
  /\ calls = [t \in Threads |-> 0]
  /\ started = FALSE /\ ended = {}

-----------------------------------------------------------------------------
\* A task calls _update, through update or apply.
Call(task, name, source, clock, status, metadata) ==
  LET t == ThreadOf(task)
  IN  /\ task \notin ended /\ pc[t] = "idle" /\ calls[t] < MaxCalls
      /\ call' = [call EXCEPT
           ![t] = [task |-> task, name |-> name, source |-> source,
                   clock |-> clock, status |-> status, metadata |-> metadata,
                   next |-> 0]]
      /\ pc' = [pc EXCEPT ![t] = "read"]
      /\ calls' = [calls EXCEPT ![t] = @ + 1]
      /\ UNCHANGED <<next_clock, table, pending, started, ended>>

\* The start of _randomize_local, which asserts that there is metadata.
StartToken ==
  /\ pc["loop"] = "idle" /\ ~started
  /\ started' = TRUE
  /\ ended' = IF table[Local].metadata = Empty THEN ended \cup {"token"}
                                              ELSE ended
  /\ UNCHANGED <<next_clock, table, pending, call, pc, calls>>

\* Screen._set_typed, and _randomize_local: new metadata for the local member.
set_typed(md) == Call("screen", Local, NoMember, next_clock, NoStatus, md)
randomize_local(md) ==
  started /\ Call("token", Local, NoMember, next_clock, NoStatus, md)

\* The end of a check, each a task of its own, and gossip.
check(m, status) == Call("check", m, NoMember, next_clock, status, Unknown)
apply(m, source, clock, status, md) ==
  source # Local /\ Call("handler", m, source, clock, status, md)

\* An assertion fails: the call and the task that made it end.
Fail(t) ==
  /\ pc' = [pc EXCEPT ![t] = "idle"]
  /\ ended' = ended \cup ({call[t].task} \ {"check"})

\* The steps of _update.
ReadNext(t) ==
  /\ pc[t] = "read"
  /\ call' = [call EXCEPT ![t].next = next_clock]
  /\ pc' = [pc EXCEPT ![t] = "clock"]
  /\ UNCHANGED <<next_clock, table, pending, calls, started, ended>>

\* _set_clock; its assertion fails where the other thread is half way.
SetClock(t) ==
  LET m == call[t].name
  IN  /\ pc[t] = "clock"
      /\ \/ /\ pending[m].clock = NoClock
            /\ pending' = [pending EXCEPT
                 ![m].clock = set_clock(table[m], call[t].clock)]
            /\ pc' = [pc EXCEPT ![t] = "values"]
            /\ UNCHANGED ended
         \/ pending[m].clock # NoClock /\ Fail(t) /\ UNCHANGED pending
      /\ UNCHANGED <<next_clock, table, call, calls, started>>

\* _set_status and then _set_metadata, where each applies.
SetValues(t) ==
  LET m      == call[t].name
      status == IF call[t].status = NoStatus THEN pending[m].status
                ELSE set_status(table[m], call[t].status)
      sHeld  == call[t].status # NoStatus /\ pending[m].status # NoStatus
      mHeld  == call[t].metadata # Unknown /\ pending[m].metadata # Unknown
  IN  /\ pc[t] = "values"
      /\ \/ sHeld /\ Fail(t) /\ UNCHANGED pending
         \/ /\ ~sHeld /\ mHeld /\ Fail(t)
            /\ pending' = [pending EXCEPT ![m].status = status]
         \/ /\ ~sHeld /\ ~mHeld
            /\ pending' = [pending EXCEPT
                 ![m].status   = status,
                 ![m].metadata = IF call[t].metadata = Unknown THEN @
                                 ELSE set_metadata(table[m], call[t].metadata)]
            /\ pc' = [pc EXCEPT ![t] = "save"]
            /\ UNCHANGED ended
      /\ UNCHANGED <<next_clock, table, call, calls, started>>

\* _save takes what is pending, whoever put it there.
Save(t) ==
  LET m == call[t].name
  IN  /\ pc[t] = "save"
      /\ table' = [table EXCEPT
           ![m] = save(m, @, call[t].source, pending[m], call[t].next)]
      /\ pending' = [pending EXCEPT ![m] = Nothing]
      /\ pc' = [pc EXCEPT ![t] = "next"]
      /\ UNCHANGED <<next_clock, call, calls, started, ended>>

\* The end of _update, which compares with the next clock it has read.
SetNext(t) ==
  LET clock == table[call[t].name].clock
  IN  /\ pc[t] = "next"
      /\ next_clock' = IF clock >= call[t].next THEN clock + 1 ELSE next_clock
      /\ pc' = [pc EXCEPT ![t] = "idle"]
      /\ UNCHANGED <<table, pending, call, calls, started, ended>>

Done ==
  /\ \A t \in Threads : pc[t] = "idle"
  /\ UNCHANGED vars

Next ==
  \/ \E md \in Metadata \ {Empty} : set_typed(md) \/ randomize_local(md)
  \/ \E m \in Names \ {Local}, status \in {"ONLINE", "SUSPECT", "OFFLINE"} :
       check(m, status)
  \/ \E m, source \in Names, clock \in 1..MaxClock, status \in RealStatus,
        md \in Metadata : apply(m, source, clock, status, md)
  \/ \E t \in Threads : \/ ReadNext(t) \/ SetClock(t) \/ SetValues(t)
                        \/ Save(t) \/ SetNext(t)
  \/ StartToken \/ Done

Spec == Init /\ [][Next]_vars

-----------------------------------------------------------------------------
\* intro.rst:127, of the sequence clock: "the next value is always higher than
\* any other observed value".  Between two calls of _update the next clock is
\* ahead of every clock in the table.
NextClockAhead ==
  (\A t \in Threads : pc[t] = "idle") =>
    \A m \in Names : table[m].clock < next_clock

=============================================================================
