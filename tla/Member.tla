------------------------------- MODULE Member -------------------------------
(***************************************************************************)
(* swimprotocol/members.py, class Member: what one process knows of one    *)
(* member of the cluster, itself included, and the rules by which an       *)
(* update changes it.  A Member is a record                                *)
(*   local     TRUE for the process's own member                           *)
(*   clock     _clock, the sequence clock of the last applied change       *)
(*   validity  _validity, the bytes identifying the member's process       *)
(*   known     _known_clocks: per member, the clock this member has        *)
(*             acknowledged last; -1 where the dictionary has no key       *)
(*   status, metadata                                                      *)
(* status_time and previous are read by applications only and left out.    *)
(***************************************************************************)
EXTENDS Integers, FiniteSets, Status

CONSTANTS Names,     \* the names of all members
          Metadata,  \* the metadata mappings in use, the empty one included
          Unknown,   \* METADATA_UNKNOWN, told from every mapping by identity
          NoMember   \* None where a Member is optional

ASSUME MemberAssumption ==
  IsFiniteSet(Names) /\ Unknown \notin Metadata /\ NoMember \notin Names

NoClock    == -1       \* None where a clock is optional, no key in known
NoStatus   == "none"   \* None where a status is optional
NoValidity == -1       \* None where a validity is optional
Fresh      == 0        \* random bytes drawn here: no process's validity

\* A process's own validity is drawn at random when it starts; it is named by
\* the number of the incarnation, from 1.
Validity == Nat

MemberState == [local    : BOOLEAN,
                clock    : Nat,
                validity : Validity,
                known    : [Names -> Nat \cup {NoClock}],
                status   : RealStatus,
                metadata : Metadata \cup {Unknown}]

\* Member.__init__
NewMember(isLocal, validity) ==
  [local    |-> isLocal,
   clock    |-> 0,
   validity |-> validity,
   known    |-> [n \in Names |-> NoClock],
   status   |-> "OFFLINE",
   metadata |-> Unknown]

\* target._needs_gossip(member), for the member with this name and clock.
needs_gossip(target, name, clock) == clock > target.known[name]

-----------------------------------------------------------------------------
(***************************************************************************)
(* An update first records what it would change (_set_clock, _set_status,  *)
(* _set_metadata fill the _pending fields, None meaning no change) and     *)
(* _save then decides what of it is kept.                                  *)
(***************************************************************************)

\* Mutant of set_clock: any clock is taken for a new one.
set_clock_Any(mem, clock) == clock

set_clock(mem, clock) == IF clock > mem.clock THEN clock ELSE NoClock

set_status(mem, status) ==
  IF status = NoStatus \/ transition(mem.status, status) = mem.status
  THEN NoStatus
  ELSE transition(mem.status, status)

\* Unknown differs from every mapping, so the first one is always a change.
set_metadata(mem, metadata) ==
  IF metadata = mem.metadata THEN Unknown ELSE metadata

Pending(mem, clock, status, metadata) ==
  [clock    |-> set_clock(mem, clock),
   status   |-> set_status(mem, status),
   metadata |-> set_metadata(mem, metadata)]

\* An update that a peer disseminated about the process's own member.
Ignored(mem, source) == mem.local /\ source # NoMember

\* Mutant of Updated: a member is not believed about itself either.
Updated_NoSelf(name, source, pend) ==
  /\ pend.clock # NoClock
  /\ pend.status # NoStatus \/ pend.metadata # Unknown

\* What _save returns.  An update whose clock is not newer is dropped, unless
\* it comes from the very member it is about.
Updated(name, source, pend) ==
  /\ pend.clock # NoClock \/ name = source
  /\ pend.status # NoStatus \/ pend.metadata # Unknown

\* Mutants of SavedClock: a clock of None is stored; an ignored update is given
\* the clock it came with.
SavedClock_None(mem, source, pend, next_clock) ==
  IF Ignored(mem, source) THEN next_clock ELSE pend.clock

SavedClock_NoRefute(mem, source, pend, next_clock) ==
  IF pend.clock = NoClock THEN mem.clock ELSE pend.clock

\* The clock of the member after _save: for an ignored update one that refutes
\* it.
SavedClock(mem, source, pend, next_clock) ==
  LET clock == IF Ignored(mem, source) THEN next_clock ELSE pend.clock
  IN  IF clock = NoClock THEN mem.clock ELSE clock

\* _save: the member after the update.  For an ignored update only the clock
\* moves.
save(name, mem, source, pend, next_clock) ==
  LET ignored == Ignored(mem, source)
  IN  IF ~Updated(name, source, pend) THEN mem
      ELSE [mem EXCEPT
              !.status   = IF ignored \/ pend.status = NoStatus
                           THEN @ ELSE pend.status,
              !.metadata = IF ignored \/ pend.metadata = Unknown
                           THEN @ ELSE pend.metadata,
              !.clock    = SavedClock(mem, source, pend, next_clock)]

=============================================================================
