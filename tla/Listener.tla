------------------------------ MODULE Listener ------------------------------
(***************************************************************************)
(* swimprotocol/listener.py: one Listener, the producers that notify it    *)
(* (Members.update and apply) and the callbacks registered with on_notify, *)
(* each driven by the task of a CallbackPoll (a DaemonTask, tasks.py).     *)
(***************************************************************************)
EXTENDS Naturals, Sequences

CONSTANTS Pollers,   \* the CallbackPoll objects
          MaxItems   \* bound: calls of notify

VARIABLES phase,     \* of each poller: "out", "entered" (the task is created),
                     \* "polling" (its event is in _waiting), "exited"
          event,     \* whether the event of its call of poll is set
          args,      \* the items in _waiting for that event
          called,    \* the items its callback was called with, in order
          notified,  \* history: the items of all calls of notify
          polled     \* history: how many there were at the first poll

All(x) == [p \in Pollers |-> x]

Init ==
  /\ phase = All("out") /\ event = All(FALSE)
  /\ args = All(<< >>)  /\ called = All(<< >>)
  /\ notified = << >>   /\ polled = All(0)

\* A new Listener; where its callbacks are entered (DaemonTask.__aenter__)
\* their tasks are created and have not run yet.
Renew(ph) ==
  /\ phase' = All(ph)    /\ event' = All(FALSE)
  /\ args' = All(<< >>)  /\ called' = All(<< >>)
  /\ notified' = << >>   /\ polled' = All(0)

\* CallbackPoll.run up to its first wait, in poll.
FirstPoll(p) ==
  /\ phase[p] = "entered"
  /\ phase' = [phase EXCEPT ![p] = "polling"]
  /\ polled' = [polled EXCEPT ![p] = Len(notified)]
  /\ UNCHANGED <<event, args, called, notified>>

\* Mutant of Woken: notify wakes nobody up.
Woken_None == event

\* The events after notify has set those of the waiting polls.
Woken == [p \in Pollers |-> event[p] \/ phase[p] = "polling"]

\* notify(item): every waiting poll gets the item and is woken up.
notify(item) ==
  /\ Len(notified) < MaxItems
  /\ notified' = Append(notified, item)
  /\ args' = [p \in Pollers |-> IF phase[p] = "polling"
                                THEN Append(args[p], item) ELSE args[p]]
  /\ event' = Woken
  /\ UNCHANGED <<phase, called, polled>>

\* Mutant of Taken: one item of those that came together.
Taken_One(items) == <<items[1]>>

\* The items run starts the callback for when poll returns.
Taken(items) == items

\* poll returns, run starts the callbacks and calls poll again, with a new
\* event: no await on the way can suspend.
Resume(p) ==
  /\ phase[p] = "polling" /\ event[p]
  /\ called' = [called EXCEPT ![p] = @ \o Taken(args[p])]
  /\ args' = [args EXCEPT ![p] = << >>]
  /\ event' = [event EXCEPT ![p] = FALSE]
  /\ UNCHANGED <<phase, notified, polled>>

\* DaemonTask.__aexit__: the task is cancelled where it waits.
Exit(p) ==
  /\ phase' = [phase EXCEPT ![p] = "exited"]
  /\ UNCHANGED <<event, args, called, notified, polled>>

-----------------------------------------------------------------------------
\* From its first poll on, a callback gets every item, once and in the order
\* of the calls of notify, however the producers and the task interleave.
NothingLost ==
  \A p \in Pollers : phase[p] = "polling" =>
    called[p] \o args[p] = SubSeq(notified, polled[p] + 1, Len(notified))

=============================================================================
