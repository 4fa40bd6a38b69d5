# swim-protocol in TLA+

A model of [swim-protocol](../src/README.md), a Python implementation of the
SWIM cluster membership protocol on asyncio: what one process keeps, what the
processes of a cluster say to each other, what becomes of it when packets are
lost, repeated and reordered and processes stop and start again, how the UDP
transport carries the packets, and how the sync tool mirrors the cluster in a
directory. TLC checks
the models on small instances (`*.cfg`); TLAPS proves every safety property of
the passing runs, and both refinements, for every value of the constants.

File names below are relative to `src/swimprotocol/`. Line numbers refer to the
commit that `src/` holds.

## 1. The system

| part | state | operations | talks to |
|---|---|---|---|
| `status.py` Status | a Flag: three real statuses, three aggregates | `transition` | Member |
| `shuffle.py` WeakShuffle | a set, an index per element, a list to draw from; weak references | `add`, `discard`, `choice`, the callback `_finalize` | Members, the garbage collector |
| `members.py` Member | clock, status, metadata, validity, known clocks, pending fields | `_set_clock`, `_set_status`, `_set_metadata`, `_save` | Members |
| `members.py` Members | next clock, the local Member, the others, a shuffle per status | `get`, `update`, `apply`, `ack_gossip`, `get_gossip`, `find` | Worker, sync, demo, Listener |
| `packet.py` | five packet types | construction | Worker, transport |
| `worker.py` Worker | send and receive queue, events that wait for acks, who listens for a forwarded ack, suspicion timers | the packet handler, `check`, `disseminate`, two loops | Members, the transport |
| `listener.py` Listener | per waiting poll, an event and its items | `notify`, `poll`, `on_notify` | Members (producer), applications |
| `tasks.py` | the tasks in progress | `run_subtask`, entering and leaving a DaemonTask | Worker, Listener, transport |
| `udp/`, `transport.py`, `sign.py`, `address.py` | a thread pool, tasks, TCP buffers | pack, sign, send, receive, verify, unpack | Worker's queues, the network |
| `sync.py` | a mirror of the cluster in a directory, which outlives the process | `_read_local`, `_write_member`, `_cleanup` | Members, Listener, the file system |
| `config.py`, `udp/config.py` | constant once parsed | parsing | all |
| `demo/` | a curses screen in a thread of its own, a task that changes a token | `_set_typed`, `_randomize_local` | Members, Listener |

A process runs three loops in one event loop. The failure detector picks a
random member, pings it, and after a timeout asks others to ping it
(`ping-req`) and waits once more; the member ends up ONLINE or SUSPECT, and a
SUSPECT member whose timer expires ends up OFFLINE. The dissemination loop picks
a random available member and sends it gossip about everything it has not
acknowledged. The handler answers pings and ping-reqs, forwards acks, applies
gossip and acknowledges it, and records acknowledgements. A process that starts
again draws a new *validity*, by which the others notice that it has forgotten
everything.

What is hard here:

- *interleaving*: the handler runs between any two awaits of a check or a
  dissemination, and the garbage collector may call `_finalize` anywhere;
- *unreliable delivery*: each packet is packed in a thread pool and sent by a
  task of its own, over UDP, so nothing keeps an order;
- *restarts*: packets of and for earlier incarnations are still on their way;
- *Lamport clocks*: one clock per process orders changes of all members, decided
  on by all processes, and a process must refute gossip about itself;
- *redundant state*: six shuffles repeat what the statuses say, and a shuffle
  keeps four structures in step;
- *partial failure*: a TCP connection ends in the middle of a packet, the sync
  tool dies in the middle of a write, its cleanup raises half way;
- *threads*: the demo changes Members from two threads, without a lock;
- *convergence*: no process ever waits for agreement; that all views become
  right and gossip ends takes many rounds of random choices.

`PROJECT.json` lists the hazards line by line with the properties about them.

## 2. The modules

| module | models | depends on |
|---|---|---|
| `Status` | `status.py` | |
| `Shuffle` | the operations of WeakShuffle, as functions | |
| `WeakShuffle` | one WeakShuffle and the garbage collector, as a state machine | Shuffle |
| `Member` | class Member, `_save` and its inputs, as functions | Status |
| `MembersOps` | class Members, as functions on a record | Member, Shuffle |
| `Members` | one Members object under every sequence of calls | MembersOps |
| `Packet` | `packet.py` | Member |
| `Worker` | the Worker of every process: one action per stretch between awaits | MembersOps, Packet |
| `Cluster` | all processes, their starts and stops, and the transport | Worker |
| `Detector` | abstract: what the cluster promises about statuses | |
| `Listener` | `listener.py` with the DaemonTask that drives a callback | |
| `Sync` | `sync.py`: its process, its callback, the directory | Status, Listener (composed) |
| `Channel` | abstract: what a transport promises, and all that Cluster assumes of it | |
| `Transport` | `udp/`, `sign.py`, `address.py`: packets from one queue to the other | Channel (implemented) |
| `Demo` | `demo/`: `_update` step by step in two threads | Member |
| `MCMembers`, `MCCluster`, `MCTransport` | values for the constants | Members, Cluster, Transport |
| `ShuffleTheorems`, `MembersTheorems` | lemmas about the functions | Shuffle, MembersOps |
| `ClusterTheorems` | the inductive invariant of the cluster, and what a step may do to a table | Cluster, MembersTheorems |
| `WeakShuffleProofs`, `MembersProofs`, `ClusterProofs`, `TransportProofs`, `SyncProofs` | theorems about the specifications | the lemmas |

The functional layer (Status, Shuffle, Member, MembersOps) is written once and
used twice: by the state machine of one object, which is exercised with
arbitrary inputs, and by the cluster, in which the inputs are what other
processes really send. The lemmas about it serve both.

### Correspondence to the code

**Shuffle.** The record holds the keys of `_weak_vals` (`vals`), `_indexes` and
`_values`. Weak references are named by their objects. `finalize` does what
`_finalize` does, the stale index included: the reference that is moved into the
free place keeps its old entry in `_indexes`. `WeakShuffle!Disappear` is the
collection of an object: the weak dictionaries lose the key and the callback
runs.

**Member, MembersOps.** `Pending` holds the three `_pending` fields, which live
only during one call of `_update`; `Updated` is the value `_save` returns, `save`
the Member it leaves. `status_time` and `previous` are only read by applications
and are left out. A Member that `get` has not created yet is represented by the
Member it would create, and `Present` tells the two apart. Metadata are model
values: the code only compares them. `METADATA_UNKNOWN` is compared by identity
and is a value of its own. `find` is the set of all results the code can return;
where its loop would never end there is none. `Tracked` selects the shuffles that
are modelled; each is computed independently of the others, and the program
reads those of ALL and AVAILABLE.

Every caller in the program passes a real status to `update` (`worker.py:146`,
`worker.py:174`, `members.py:198`) and gossip carries the status of a Member, so
`transition` is modelled for real statuses.

**Worker.** asyncio runs the tasks of a process on one thread and switches only
at an await that suspends. `Queue.put` on an unbounded queue never suspends, so
handling one packet is one action (`HandlePing` ... `HandleGossipAck`), with all
its sends, and so is a whole `disseminate`. A check has four points at which it
is suspended (`pc`): waiting for the ping, waiting for the tasks that send the
ping-reqs to start, waiting for `asyncio.wait` to notice that they are done, and
waiting for the ping-req. In the second and third no event is registered, so
packets of the target are handled without being noticed. The loop iteration that
starts a check and the start of its task are one action, because nothing the
check does first depends on what happens between them; the target of a
dissemination is chosen before its task starts (`gossiping`), because what it
sends does. `handling[n]` becomes FALSE where the assertion of `ack_gossip` ends
`_run_handler`: `gather` passes the exception on and leaves the other two loops
running.

**Cluster.** `network` is a set of packets: send queue, transport and receive
queue together. A packet is delivered at any time and in any order, to whatever
incarnation of its destination runs by then, and may stay to be delivered again;
`Lose` loses one; `Drop` takes away a packet for a process that does not
take packets. A validity is the number of the incarnation: the code draws random
bytes, which differ. `inc`, `updates`, `faults` and `premature` count what the
bounds limit: `MaxEvents` bounds changes of metadata, lost packets, repeated
packets and stops together; `MaxPremature` bounds the timers that run out early
(`Expire`), which are a wait for an answer that is still on its way, the suspicion
timer of a process that runs, the timer a process keeps for itself included, and
a pause of a loop that ends while packets are on their way. `published` and
`acked` are history.

**Detector.** Three edges per pair of processes (`Trust`, `Suspect`, `Expel`) and
starts and stops. `Cluster!View` maps the cluster to it: the view is the status
in each table.

**Listener.** `notify` appends to the list of every waiting poll and sets its
event; `Resume` is the task of a callback from the moment it wakes up to its next
wait, on which nothing suspends. The module has actions only; Sync composes them
with a producer and a callback.

**Sync.** The members are reduced to what the mirror reads, status and metadata;
`Change` is an update by the worker that changes something, and notifies. `ready`
is the queue of the event loop at the start: `run` enters the contexts of the
worker and of the callback without suspending, so the task that polls runs before
the handler, which the worker's task has yet to create (`Spawned`). That is what
makes the callback see the first change. `_write_member` awaits nothing before its
hook, so a call is one action, and the calls run in the order of the
notifications, each with the state the member has by then. The directory is a set of links (status directory,
member), the directories that exist, and the files in them. A crash leaves any
prefix of the links, or all links and some of the files. `_cleanup` raises where a
member has no directory yet, having emptied some of the others. The constant
`SameDev` is whether temporary files are on the file system of the directory:
where they are not, `os.rename` raises at the first file. A member starts with
`METADATA_UNKNOWN`, so its first mapping is a change even if it is empty.

**Transport.** `stage` is where a packet is: the send queue, a `_do_send`, on its
way as a datagram, a `_tcp_send`, in a connection. Bytes are counted: `buf` is how
much has come, `unpack` decides by lengths, in the order of the code, with Python's
slices, which are cut off at the end of the data. `parse` takes a name split at
its last colon. A connection may bring its bytes in any portions, be refused, break
with an exception, or end early without one when the sender's process ends. Each
received packet is unpacked in a thread of the pool by a task of its own, so
`unpacking` is a set. `InTransit`, everything between the two queues inclusive, is
the `network` of Channel and of Cluster.

**Demo.** A call of `_update` is five steps, one for each access to what the two
threads share: reading `_next_clock`, `_set_clock`, `_set_status` with
`_set_metadata`, `_save`, storing `_next_clock`. `save` and the rest are those of
Member. An assertion that fails ends the task that made the call.

## 3. What the runs check

| run | bounds | shows |
|---|---|---|
| `shuffle` | 4 objects | dictionaries agree on their keys; the list is as long as the set |
| `shuffle_choice` | 4 objects | **violated**: `choice` returns an element of the set |
| `members` | 3 members, clocks to 3, one mapping, one validity beside the initial one | 8 properties of the table, see below |
| `pair` | 2 processes, b starts late; a checks, both gossip; clocks to 9; one timer runs out early; one event: a packet is lost or repeated, b stops, or one changes its metadata; fair | type; implements Detector; at rest everyone knows everyone's metadata; no handler dies; unless one of the disagreements 3 and 4 of section 5 strikes, views and metadata settle and gossip ends |
| `three` | 3 processes, c may never start, or start, stop and start again; a checks, a and b gossip; clocks to 3; one event: a packet is lost or repeated, c stops, or someone changes its metadata | packets speak for incarnations that ran; no phantom members; metadata are authentic; acknowledgements of one incarnation never count for another |
| `sync` | a local member, a configured peer and one met later; one key; 2 starts with 2 changes each; `SameDev`; fair | no change is lost on the way to the callback; links and files of what changed are right or about to be written; they become right |
| `sync_tmp` | the same, not `SameDev` | **violated**: the mirror of what changed is right or about to be written |
| `transport` | 4 packets (one at the MTU, one a byte above it, one with another secret, one for a name that parses to the wrong address), 2 faults; fair | implements Channel; delivers; nothing stays behind |
| `ack_assertion` | 2 processes, b may restart | **violated**: the assertion of `ack_gossip` |
| `local_online` | 2 processes, one packet lost, one timer runs out early | **violated**: the local member is always online |
| `latest_metadata` | 2 processes, one update, one round starts early | **violated**: the latest metadata reach everyone |
| `demo_race` | 2 members, 2 calls per thread, clocks in gossip to 3 | **violated**: the next clock is ahead of every clock |

The properties of `members`: `LamportAhead` (the next clock is ahead of every
clock), `IndexAgrees` (the shuffles repeat what the statuses say),
`FindOneReturns` (a find for one member ends), `ClockMonotonic` (no clock goes
back), `StatusPath` (no ONLINE to OFFLINE, no OFFLINE to SUSPECT), `LocalChangeIsNewest`
(a change of the local Member, and a refutation, outranks everything in the
table) and `ResyncGossipsAll` (a new validity makes everything gossip again).

**Why the bounds are enough to be interesting.** Two objects other than the
local one are what a stale index needs, so `members` has three names, and
`shuffle` has four objects so that a second misplacement can follow the first. In
`members` the gossip is arbitrary: each step may carry any clock, status and
source, which covers every other process at once. Three clock values allow two
changes with different clocks and a third that is older than both. The one
clock in acknowledgements is the highest that the assertion of `ack_gossip` lets
pass, such as one for an earlier incarnation: nothing but `get_gossip` and the
resynchronisation reads what is acknowledged.

In the cluster a check raises a clock only when it changes a status. `pair` has
one detector, a; that b may suspect a as well is left to the theorems. Its one
early timer is the wait of a check, which suspects a live process; the suspicion
timer at a, which expels it; the timer that b keeps for itself; or a round that starts
before the packets of the last one have arrived, so that packets of two rounds
are out of order. Its one event may be the loss of any packet, an acknowledgement
too, or a packet that comes twice. As long as b is ONLINE to itself, no next
clock passes 9, so the bound cuts off no behaviour that `Converges` speaks of;
otherwise the clocks rise without end (section 5, item 3).

`three` is the smallest cluster with ping-reqs and forwarded acks. No timer runs
out early in it: a loop starts a round only when no packet is on its way, while
the packets that a round causes interleave freely, and a lost packet or the stop
of c still makes a check fail. c may restart because an incarnation that has forgotten everything, seen by one process
that has just met it and one that has not, needs three. `latest_metadata` needs
packets of two rounds, so one early round. A `Slot` is one check in progress; with
the default times (a check every second, waits of 0.3 and 0.9 s) two can overlap
only when neither wait is answered, and one slot leaves that out.
`Checkers` and `Gossipers` switch off the loops of some processes to keep a run
small; in `three` the others still answer, forward and acknowledge, and b gossips
too, so that metadata are relayed to c by a process that does not own them.

In `sync` two changes per start are one before and one after any step, or one of
each member; two starts are what a crash, a failed cleanup or late writes need to
be met by the next process; one key with one value is a file that appears and
disappears, and keys are handled one by one. In
`transport` the sizes put one packet on each side of the MTU; a packet is up to
eleven bytes, so that a cut can fall into the prefix, the salt, the digest and
the data; two faults allow a loss and a crash, or a duplicate and a cut. In
`demo_race` one call per thread suffices.

**Deadlock** is checked everywhere. Where a next clock has passed `MaxClock`, or
nobody runs, `AtBound` stutters; `WeakShuffle!Stop`, `Sync!Stopped`,
`Transport!Rest` and `Demo!Done` are the legitimate ends of those systems.

**Fairness** (`Cluster!Fairness`, used by `pair`). Tasks that can run do run, and
the suspicion timer of another member expires unless it is cancelled (weak
fairness of `Detect`, `Tell`, `Expel`): asyncio gives every ready task its turn.
While packets for a process are on their way, one of them is delivered or, if
nobody takes it, dropped (`Deliver`): each packet has a task of its own. Each loop
picks its target at random and forever, so each target is picked again and again
whenever it can be (strong fairness of `Check(n, t)` and `Choose(n, t)`); this is
the probability-one reading of `random.choice`. The loops wait for an empty
network once the early timers are used up, and it empties again and again
because packets are delivered and no round starts in between. No start, stop,
update, loss or repetition is forced, no single packet is promised delivery, and
nothing forces a timer that a process keeps for itself.

`Converges` has a premise, because of two disagreements that section 5 describes:
`LocalOnline`, every process stays ONLINE to itself, and `InOrder`, no two versions
of what a process says of itself are on their way to one destination at once.
Both are needed. Without the second, TLC finds the behaviour of
`latest_metadata` as a cycle in which the old metadata stay; without the first,
one expiry of b's own timer, after a lost acknowledgement, makes b and a
contradict each other forever. Lost acknowledgements, repeated and late packets,
suspected and expelled processes that come back, late starts and stops are all
within the premise. The conclusion is that `Settled` and `NoGossip` hold from
some point on together.

In `Sync` the event loop runs what is ready (weak fairness of `RunTask`,
`Dispatch`, `WriteMember`, `Cleanup`, `Halt`); changes, signals and crashes are
not forced. In `Transport` every task and thread runs and the network passes on
what it does not lose (weak fairness of `Task(p)` for each packet, and of the
receiving worker); no fault is forced, and `Delivers` asks for nothing once there
was one.

## 4. What is proved

TLAPS checks every proof; nothing is assumed but the named assumptions on the
constants: `MemberAssumption` (finitely many names; `Unknown` and `NoMember` are
neither metadata nor names), `LocalAssumption` (the local name is a name, the
peers are others and distinct), `InputAssumption` (clocks and validities in
packets are numbers), `TrackedAssumption`, `ObjectsAssumption`, `WorkerAssumption`
(the shuffles that the worker reads are tracked; the bounds are numbers),
`ClusterAssumption` (every process has a peer, its peers are others and distinct),
`TransportAssumption` (sizes are numbers), `SyncAssumption` (the local name is not
one of the others, the configured ones are, and `Unknown` is no mapping). Every
bound of a model is an arbitrary number in the theorems, so they hold however many steps of the bounded kind there are.

| theorem | says |
|---|---|
| `WeakShuffleProofs!ShuffleTyped`, `ShuffleKeys`, `ShuffleLengths` | type, `KeysAgree`, `LengthsAgree`, for any finite set of objects |
| `MembersProofs!MembersTyped`, `MembersAhead`, `MembersIndexed` | type, `LamportAhead`, `IndexAgrees` |
| `MembersProofs!MembersFindOne` | `FindOneReturns` |
| `MembersProofs!MembersClocks`, `MembersSteps` | `ClockMonotonic`, `StatusPath` |
| `MembersProofs!MembersRefutes` | `LocalChangeIsNewest` |
| `MembersProofs!MembersResync` | `ResyncGossipsAll` |
| `ClusterProofs!ClusterTyped`, `ClusterGenuine`, `ClusterNoPhantom` | type, `Genuine`, `NoPhantom`, for any finite set of processes |
| `ClusterProofs!ClusterAuthentic`, `ClusterKnown`, `ClusterAtRest` | `MetadataAuthentic`, `KnownIsAcked`, `KnownAtRest` |
| `ClusterProofs!ClusterHandlers` | `HandlerAlive` |
| `ClusterProofs!ClusterDetects` | `DetectorSpec`: Cluster implements Detector |
| `TransportProofs!TransportImplements` | `ChannelSpec`: Transport implements Channel |
| `SyncProofs!SyncNothingLost` | `NothingLost` |
| `SyncProofs!SyncMirrorCurrent` | `MirrorCurrent`, links and files, where `SameDev` |

*The shuffle.* That the list is as long as the set is not inductive alone: that
`_finalize` shortens the list exactly when the set loses an element needs to know
that an element has an index exactly when it is in the set. `ShuffleInv` is the
type with these two facts. It says nothing of *which* index, and that is the
point: the argument goes through with stale indexes, even beyond the end of the
list, which is why the code does not raise although `choice` goes wrong. `AddInv`,
`RemoveInv` and `DiscardInv` carry it through the operations.

*The table.* `TableInv` is the type, the marking of the local Member, the clocks
behind the next clock, and for every tracked status `ShuffleInv` and the
agreement with the statuses. All are needed at once: that a local update counts
as new needs the clocks, that its `discard` leaves the length right needs the
shuffle. `Advance(local, ms, t)` is what every operation does to a table `ms`
with `TableInv`: it has `TableInv` again, takes no clock back, moves statuses
along the allowed edges only, and gives a changed local Member the clock that
was next. `UpdateAdvances` proves it for `_update` (from `SaveProps` for the
Member and `RefreshInv` for the shuffles), `GetAdvances` and `AckAdvances` for
the others, `InitInv` for the constructor. The theorems follow action by action
(`InvStep`). `MaxClock` plays no part in any of them.

`ResyncGossipsAll` also needs what `get` does to the known clocks: `GetEffect` and
`AckEffect` say, for each Member, what these calls leave alone, and `ResyncStep`
that a validity changes only together with a reset of all known clocks.

*The cluster.* None of the safety properties is inductive: what a table may hold
depends on the packets that may arrive, these on the tables they were made from,
and an acknowledgement on what its destination sent before. `ClusterTheorems!Inv`
puts it together. `Tables` is `TableInv` for every process, whose own validity is
its incarnation. `Belief(n, m)` is what n may hold of m: an incarnation there has
been, metadata m published, OFFLINE if m never ran, known clocks only where m
acknowledged them, and, if m as it runs now has acknowledged n itself, that m still
has metadata of n (this last part is what `KnownAtRest` rests on). `PacketOK` says
the same of a packet on its way, so that delivering it leads to a `Belief` and
sending it needs only one. `Tasks` is about what lives across awaits: a check
waits for another member that the table holds, and is acked only by what has run.
`HandlerAlive` needs two clocks to be compared that are in different places: as
long as nobody has started twice (`Once`), the clock in an acknowledgement is behind
the next clock of the process that it is for; with a second start it need not be,
which the run `ack_assertion` shows.

`Moves(n, ms, t, pub, ack)` is all that a step may do to a table: validities of
incarnations there have been, published metadata, one status, along an edge,
acknowledged clocks. `GetMoves`, `UpdateMoves` and `AckMoves` prove it of the
functions, `MovesTwice` of a sequence of two, and `Evolution` turns it into what
becomes of the invariant: tables, beliefs and packets survive a step that moves one
table (`EvolutionTables`, `EvolutionBeliefs`, `EvolutionPackets`), and what happens
outside the table is shown action by action (`StepInv`). A lost, repeated or late
packet needs no argument of its own: `PacketOK` of a packet stays true whatever
happens later. The refinement of Detector follows from `Moves` as well: at most one
status of one table changes, so a step is `Trust`, `Suspect`, `Expel` or a stutter.

*The transport.* `TransportProofs!Inv` is types, and that `recv_queue` holds only
packets with the secret of the cluster. `unpack` returns a packet only if `verify`
holds (`UnpackVerifies`), whatever part of the bytes has come. Each action is then
`Send`, `Hand`, `Lose` or a stutter of Channel (`StepImplements`): a packet that a
`Transport` action takes further stays in `InTransit`, and a failure only removes
from it.

*The mirror.* That no change is missed rests on the order of the tasks of the
start. `SyncProofs!Order` says which queues of the event loop are possible while the
callback has not polled yet, and in each of them the handler has not run:
so a `Change` finds the poll waiting (`HandlingPolls`). `Counts` keeps the calls that
have run behind those that were made. `MirrorCurrent` needs no strengthening beyond
these and the types: `LinksWritten` and `WriteMember` itself show that a call makes
the links and files of its member exactly right from anything that is there and
leaves those of the others alone, which is why a torn write or a failed cleanup of
an earlier run does no harm. The assumption `SameDev = TRUE` is needed, as
`sync_tmp` shows.

*Only model-checked.* The liveness properties `Converges`, `EventuallyMirrored`,
`Delivers` and `Drains`: liveness under fairness, and the `ENABLED` in it, are out
of the reach of the prover. The runs that expect a
violation have nothing to prove.

## 5. Where the code and its documentation disagree

Six runs show a violation; `PROJECT.json` quotes the lines.

1. `shuffle.py:64`: the reference moved by `_finalize` keeps its old index. After
   adding x, y, z, discarding x (z moves to the front) and discarding z, the list
   holds z instead of y. As consequences `Members.find` for two members can loop
   forever on a list that holds one member twice (`members.py:245`), and the
   assertion at `shuffle.py:98` can meet a dead reference.
2. `members.py:360`: a late `GossipAck` for the previous incarnation fails the
   assertion and ends the packet handler.
3. `worker.py:119`: gossip that suspects the local member starts a timer for it;
   when it expires, the process takes itself for SUSPECT, and then the others
   learn it. One expiry is enough for good: it ignores what the others say of it
   (`members.py:164`), so checks of it that succeed and its own gossip that it is
   SUSPECT alternate, with rising clocks, and the gossip that
   `doc/source/intro.rst:43` says ends goes on. The clocks have no bound there,
   so a finite run shows the first step only (`local_online`), and `Converges`
   excludes it by `LocalOnline`.
4. `members.py:158`: a member is believed about itself whatever the clock, so the
   older of two reordered packets wins, and nothing repairs it. `Converges` excludes
   it by `InOrder`.
5. `members.py:300`: `_update` stores a next clock that it compares with one read
   at its start. In the demo the thread of the screen (`demo/screen.py:92`) and the
   event loop both run it: gossip takes the next clock from 2 to 4, then the call
   that the screen began earlier ends and sets it to 3, which a member has. The
   same race makes the assertion at `members.py:131` fail, which ends the packet
   handler or the screen.
6. `sync.py:143`: `os.rename` raises where the directory for temporary files is on
   another file system. The links of a member are made, and none of its metadata
   is ever written, although `README.md:36` has "the metadata of each member"
   visible on the filesystem. The run `sync_tmp` shows it; `sync` and the theorem
   are about the other case.

Met while modelling and not given a run of their own:

- `members.py:246`: `find` subtracts the excluded members from the count and
  draws from all of them, so it returns excluded ones although line 237 says they
  "must not be included". In the model a ping-req can thus go to the target
  itself.
- `members.py:158`: gossip of a member about itself with an old clock changes
  status or metadata and leaves the clock, which line 93 calls "always
  increasing, as changes are made".
- `members.py:299`: the next clock follows the clock a member ends up with and
  not the clock received, whereas `doc/source/intro.rst:128` has it "always
  higher than any other observed value". A refutation takes it (`members.py:161`):
  gossip about the local member with clock 3 at next clock 2 is refuted with clock
  2, which a third process that has heard the gossip drops as old.
- `members.py:293`: `update` with an aggregate status raises after the pending
  clock is stored, and the next update fails an assertion; `status.py:61` lets
  ALL pass, which line 12 says must not be assigned. No caller in the program
  does either.
- `worker.py:170`: an ack handled between the timeout of the ping and the second
  wait goes unnoticed, and a member that did answer is suspected.
- `address.py:60`: `rpartition` leaves the host empty for a name without a colon,
  so `parse('example.tld')` gives an empty host with the default port, although
  line 46 says that the default port is for such names. The packet goes elsewhere.
- `udp/pack.py:86`: data shorter than the prefix raises `ValueError`, although line
  76 says that None is returned for malformed data. Line 49 describes a prefix of 4
  bytes, `!BBH`; the code uses 6, `!BBI`.
- `sync.py:159`: `_cleanup` raises when a member never changed, before any link is
  removed; `sync.py:81`: writes that are queued when `run` ends put links back
  after it. Either way the next start finds links of the last run, and keeps those
  of every member that does not change, so that what is "visible on the
  filesystem" (`README.md:36`) may be the state of an earlier run. `MirrorCurrent`
  is therefore about members that have changed since the start.
- `demo/changes.py:17`: the assertion that there is local metadata fails with the
  default, the empty mapping, so the token that `demo/__init__.py:3` says "is
  updated on each cluster member" never is unless something was typed before.
- `config.py:100`: `_validate` asks for a local name and not for "at least one"
  peer (line 53); without one the assertion at `worker.py:207` ends the failure
  detector.
- `listener.py:82`: a notification between entering the context of `on_notify`
  and the first poll of its task reaches nobody. `NothingLost` therefore counts
  from the first poll.

## 6. What is not modelled

- `config.py`, `udp/config.py`: command line, environment and DNS are read once,
  before anything runs, and never again; nothing in the repository retries after a
  `TransientConfigError`. Their results are the constants of the models.
- pickle, HMAC and sockets: a payload is a name with a length, a signature is good
  if it was made with the same secret and version.
- drawing and key decoding of the demo, and how its screen shuts down.
- the hook, the link `.local` and modification times of the sync tool.
- `Listener.notify` from another thread (`demo/screen.py`): `Event.set` is not
  thread-safe, and what happens then is up to asyncio's internals.
- applications that override `run_failure_detection` or `run_dissemination`.
- the actual lengths of timeouts: a timer may expire at any time, early ones
  limited by `MaxPremature`.

## 7. Plan

Done: the modules of section 2. Every part of the system that keeps state is
modelled.

Larger instances worth running by hand: two checks in progress per process
(`Slots`), two ping-reqs per check (where `find` can loop), convergence with two
detectors or three processes; each takes TLC longer than a few minutes.

Proved since: all that section 4 lists. Next, to prove:

1. safety half-way to liveness: that a step which is to happen in the end stays
   possible until it does (a change that waits in `args` stays there until
   `Dispatch`; a packet in `InTransit` goes only by an action that hands or loses
   it);
2. that Cluster uses its `network` as Channel allows: that each of its actions does
   to the network what one `Hand` or `Lose` and some calls of `Send` do, so that
   Transport can stand in for it.
