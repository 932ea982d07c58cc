------------------------------- MODULE Polls -------------------------------
(***************************************************************************)
(* One poll: the taps of its voters, each a transaction of several         *)
(* statements that keeps a counter beside the votes; closing, reopening    *)
(* and deleting; its card in the chat, which follows the poll through the  *)
(* outbox; and the reminder that it is about to close, sent by a timer on  *)
(* every worker.                                                           *)
(*                                                                         *)
(* READ COMMITTED: statements read what is committed, and a row written    *)
(* by a transaction makes other writers of it wait until it commits.       *)
(***************************************************************************)
EXTENDS Integers, Sequences, FiniteSets

CONSTANTS
  Users, Options,
  Procs,          \* taps served at a time
  Workers,        \* worker processes, each with a scheduler
  Nobody,         \* holds no lock
  MaxTaps,        \* taps
  MaxMoves,       \* closings, reopenings
  MaxFaults       \* deaths of a worker, transactions that fail

ASSUME PollsAssumption ==
  /\ Nobody \notin Procs \cup Workers
  /\ Procs \cap Workers = {} /\ Users \cap Options = {}
  /\ {MaxTaps, MaxMoves, MaxFaults} \subseteq Nat

VARIABLES
  exists, multi,  \* polls: the row, and allow_multiple
  closed,         \* closed_at
  clock,          \* "early", "soon" (ten minutes before closes_at) or "over"
  stamped,        \* closing_soon_notified_at
  votes, count,   \* poll_votes as <<option, user>>; poll_options.vote_count
  lock,           \* lock[x]: who has written x's rows: a user's votes, or an option
  tap,            \* what each process is doing
  polled,         \* who holds the poll's row for the stamp
  tick,           \* where each worker's scheduler is
  events, handled, card,  \* the poll's events, how many are handled, the card in the chat
  reminders,      \* history: fan-outs of the reminder
  hasty,          \* history: who tapped while a tap of theirs was under way
  taps, moves, faults

poll == <<exists, multi, closed, clock, stamped>>
ballot == <<votes, count, lock, tap, hasty, taps>>
worker == <<polled, tick, handled, card, reminders>>
vars == <<poll, ballot, worker, events, moves, faults>>

Resting == [step |-> "rest"]

\* Right after createPoll: the poll and its event are one commit.
Init ==
  /\ exists = TRUE /\ multi \in BOOLEAN /\ closed = FALSE /\ clock = "early" /\ stamped = FALSE
  /\ votes = {} /\ count = [o \in Options |-> 0]
  /\ lock = [x \in Users \cup Options |-> Nobody]
  /\ tap = [p \in Procs |-> Resting]
  /\ polled = Nobody /\ tick = [w \in Workers |-> "rest"]
  /\ events = <<"created">> /\ handled = 0 /\ card = "none"
  /\ reminders = 0 /\ hasty = {}
  /\ taps = 0 /\ moves = 0 /\ faults = 0

(***************************************************************************)
(* toggleVote.                                                             *)
(***************************************************************************)

\* Closed-ness is evaluated on every read; no job closes a poll.
Open == exists /\ ~closed /\ clock # "over"

Tapping(u) == \E p \in Procs : tap[p] # Resting /\ tap[p].user = u

\* The poll is looked at before the transaction.
Tap(p, u, o) ==
  /\ taps < MaxTaps
  /\ tap[p] = Resting
  /\ Open
  /\ tap' = [tap EXCEPT ![p] = [user |-> u, option |-> o, step |-> "read", prior |-> {}, gone |-> {}]]
  /\ hasty' = IF Tapping(u) THEN hasty \cup {u} ELSE hasty
  /\ taps' = taps + 1
  /\ UNCHANGED <<poll, votes, count, lock, worker, events, moves, faults>>

Of(u) == {v \in votes : v[2] = u}
Doing(p, step) == tap[p] # Resting /\ tap[p].step = step
Goto(p, step) == tap' = [tap EXCEPT ![p].step = step]

\* Whether this option is chosen already, and if not, what else is.
Read(p) ==
  /\ Doing(p, "read")
  /\ LET mine == <<tap[p].option, tap[p].user>>
     IN IF mine \in votes
        THEN tap' = [tap EXCEPT ![p].step = "withdraw", ![p].prior = {mine}]
        ELSE Goto(p, IF multi THEN "cast" ELSE "look")
  /\ UNCHANGED <<poll, votes, count, lock, hasty, taps, worker, events, moves, faults>>

Look(p) ==
  /\ Doing(p, "look")
  /\ tap' = [tap EXCEPT ![p].prior = Of(tap[p].user), ![p].step = IF Of(tap[p].user) = {} THEN "cast" ELSE "clear"]
  /\ UNCHANGED <<poll, votes, count, lock, hasty, taps, worker, events, moves, faults>>

Mine(p, x) == lock[x] \in {p, Nobody}

\* Deletes what is there by now: this vote, or all of the user's.  (A delete that began
\* before the row it waits for was replaced misses the new row, and then its insert fails.)
Delete(p) ==
  /\ Doing(p, "withdraw") \/ Doing(p, "clear")
  /\ LET u == tap[p].user
         found == IF tap[p].step = "withdraw" THEN votes \cap tap[p].prior ELSE Of(u)
     IN /\ found # {} => Mine(p, u)
        /\ lock' = IF found # {} THEN [lock EXCEPT ![u] = p] ELSE lock
        /\ tap' = [tap EXCEPT ![p].gone = found,
                              ![p].step = IF @ = "withdraw" THEN "subtract" ELSE "subtract then cast"]
  /\ UNCHANGED <<poll, votes, count, hasty, taps, worker, events, moves, faults>>

\* The counters of what was read, whatever was deleted.
Uncounted(p) == {v[1] : v \in tap[p].prior}

Subtract(p) ==
  /\ Doing(p, "subtract") \/ Doing(p, "subtract then cast")
  /\ \A o \in Uncounted(p) : Mine(p, o)
  /\ lock' = [x \in DOMAIN lock |-> IF x \in Uncounted(p) THEN p ELSE lock[x]]
  /\ Goto(p, IF tap[p].step = "subtract" THEN "commit" ELSE "cast")
  /\ UNCHANGED <<poll, votes, count, hasty, taps, worker, events, moves, faults>>

Released(p) == [x \in DOMAIN lock |-> IF lock[x] = p THEN Nobody ELSE lock[x]]
Rest(p) == tap' = [tap EXCEPT ![p] = Resting]

\* The primary key and, on a single-choice poll the partial unique index.
Conflict(p) == {v \in Of(tap[p].user) \ tap[p].gone : multi => v[1] = tap[p].option}

\* The insert waits for a transaction that is writing this user's votes; a conflict with
\* a committed row, or a poll that is gone, fails the transaction.
Insert(p) ==
  /\ Doing(p, "cast")
  /\ Mine(p, tap[p].user)
  /\ IF Conflict(p) # {} \/ ~exists
     THEN Rest(p) /\ lock' = Released(p)
     ELSE Goto(p, "add") /\ lock' = [lock EXCEPT ![tap[p].user] = p]
  /\ UNCHANGED <<poll, votes, count, hasty, taps, worker, events, moves, faults>>

Add(p) ==
  /\ Doing(p, "add")
  /\ Mine(p, tap[p].option)
  /\ lock' = [lock EXCEPT ![tap[p].option] = p]
  /\ Goto(p, "commit after add")
  /\ UNCHANGED <<poll, votes, count, hasty, taps, worker, events, moves, faults>>

Decremented(n) == IF n > 0 THEN n - 1 ELSE 0

CountedForgettingPrior(p, o) == IF o = tap[p].option THEN count[o] + 1 ELSE count[o]
Counted(p, o) ==
  LET left == IF o \in Uncounted(p) THEN Decremented(count[o]) ELSE count[o]
  IN IF o = tap[p].option THEN left + 1 ELSE left

CommitWithdrawal(p) ==
  /\ Doing(p, "commit")
  /\ votes' = votes \ tap[p].gone
  /\ count' = [o \in Options |-> IF exists /\ o \in Uncounted(p) THEN Decremented(count[o]) ELSE count[o]]
  /\ Rest(p) /\ lock' = Released(p)
  /\ UNCHANGED <<poll, hasty, taps, worker, events, moves, faults>>

CommitVote(p) ==
  /\ Doing(p, "commit after add")
  /\ votes' = (votes \ tap[p].gone) \cup {<<tap[p].option, tap[p].user>>}
  /\ count' = [o \in Options |-> Counted(p, o)]
  /\ Rest(p) /\ lock' = Released(p)
  /\ UNCHANGED <<poll, hasty, taps, worker, events, moves, faults>>

\* Postgres fails one of two transactions that wait for each other, or a process dies.
Abort(p) ==
  /\ tap[p] # Resting
  /\ \E x \in DOMAIN lock : lock[x] = p
  /\ faults < MaxFaults
  /\ faults' = faults + 1
  /\ Rest(p) /\ lock' = Released(p)
  /\ UNCHANGED <<poll, votes, count, hasty, taps, worker, events, moves>>

(***************************************************************************)
(* The creator, and time.                                                  *)
(***************************************************************************)

setPollClosed(c) ==
  /\ exists /\ polled = Nobody
  /\ moves < MaxMoves
  /\ moves' = moves + 1
  /\ closed' = c
  /\ UNCHANGED <<exists, multi, clock, stamped, ballot, worker, events, faults>>

deletePollQuietly ==
  /\ exists /\ polled = Nobody
  /\ \A x \in DOMAIN lock : lock[x] = Nobody
  /\ exists' = FALSE
  /\ votes' = {} /\ count' = [o \in Options |-> 0]
  /\ UNCHANGED <<multi, closed, clock, stamped, lock, tap, hasty, taps, worker, events, moves, faults>>

\* Options and votes cascade, so their writers are waited for.
deletePoll ==
  /\ exists /\ polled = Nobody
  /\ \A x \in DOMAIN lock : lock[x] = Nobody
  /\ exists' = FALSE
  /\ votes' = {} /\ count' = [o \in Options |-> 0]
  /\ events' = Append(events, "deleted")
  /\ UNCHANGED <<multi, closed, clock, stamped, lock, tap, hasty, taps, worker, moves, faults>>

Tock ==
  /\ clock # "over"
  /\ clock' = IF clock = "early" THEN "soon" ELSE "over"
  /\ UNCHANGED <<exists, multi, closed, stamped, ballot, worker, events, moves, faults>>

(***************************************************************************)
(* runScheduledTick, on each worker.                                       *)
(***************************************************************************)

ClaimUnlocked(w) ==
  /\ tick[w] = "rest"
  /\ exists /\ ~closed /\ ~stamped /\ clock = "soon"
  /\ polled' = w
  /\ tick' = [tick EXCEPT ![w] = "stamp"]
  /\ UNCHANGED <<poll, ballot, handled, card, reminders, events, moves, faults>>

\* FOR UPDATE SKIP LOCKED: a poll that another worker has claimed is passed over.
Claim(w) ==
  /\ tick[w] = "rest"
  /\ exists /\ ~closed /\ ~stamped /\ clock = "soon"
  /\ polled = Nobody
  /\ polled' = w
  /\ tick' = [tick EXCEPT ![w] = "stamp"]
  /\ UNCHANGED <<poll, ballot, handled, card, reminders, events, moves, faults>>

CommitStamp(w) ==
  /\ tick[w] = "stamp"
  /\ stamped' = TRUE
  /\ polled' = IF polled = w THEN Nobody ELSE polled
  /\ tick' = [tick EXCEPT ![w] = "remind"]
  /\ UNCHANGED <<exists, multi, closed, clock, ballot, handled, card, reminders, events, moves, faults>>

\* Notifications and pushes, after the commit: nobody asks whether the poll is still there.
FanOut(w) ==
  /\ tick[w] = "remind"
  /\ reminders' = reminders + 1
  /\ tick' = [tick EXCEPT ![w] = "rest"]
  /\ UNCHANGED <<poll, ballot, polled, handled, card, events, moves, faults>>

\* The worker dies, or the tick throws: the scheduler starts over at its next interval.
TickFails(w) ==
  /\ tick[w] # "rest"
  /\ faults < MaxFaults
  /\ faults' = faults + 1
  /\ polled' = IF polled = w THEN Nobody ELSE polled
  /\ tick' = [tick EXCEPT ![w] = "rest"]
  /\ UNCHANGED <<poll, ballot, handled, card, reminders, events, moves>>

(***************************************************************************)
(* The drain and the card.                                                 *)
(***************************************************************************)

\* The card of an event is posted once: a redelivery finds it by its client id.
Posted == IF card = "none" THEN "shown" ELSE card
\* Every card that links to the poll is turned into a tombstone.
Removed == IF card = "shown" THEN "removed" ELSE card

CardAfter(type) == IF type = "created" THEN Posted ELSE Removed

Handle ==
  /\ handled < Len(events)
  /\ card' = CardAfter(events[handled + 1])
  /\ handled' = handled + 1
  /\ UNCHANGED <<poll, ballot, polled, tick, reminders, events, moves, faults>>

\* The worker dies before the row is marked: it is handled again.
HandleAndDie ==
  /\ handled < Len(events)
  /\ faults < MaxFaults
  /\ faults' = faults + 1
  /\ card' = CardAfter(events[handled + 1])
  /\ UNCHANGED <<poll, ballot, polled, tick, handled, reminders, events, moves>>

\* The author or a moderator deletes the card as a message.
DeleteCard ==
  /\ card = "shown"
  /\ moves < MaxMoves
  /\ moves' = moves + 1
  /\ card' = "removed"
  /\ UNCHANGED <<poll, ballot, polled, tick, handled, reminders, events, faults>>

(***************************************************************************)
(* Specification.                                                          *)
(***************************************************************************)

Vote(p) ==
  \/ \E u \in Users, o \in Options : Tap(p, u, o)
  \/ Read(p) \/ Look(p) \/ Delete(p) \/ Subtract(p) \/ Insert(p) \/ Add(p)
  \/ CommitWithdrawal(p) \/ CommitVote(p) \/ Abort(p)

Remind(w) == Claim(w) \/ CommitStamp(w) \/ FanOut(w) \/ TickFails(w)

Next ==
  \/ \E p \in Procs : Vote(p)
  \/ \E w \in Workers : Remind(w)
  \/ \E c \in BOOLEAN : setPollClosed(c)
  \/ deletePoll \/ Tock \/ Handle \/ HandleAndDie \/ DeleteCard

Spec == Init /\ [][Next]_vars

(***************************************************************************)
(* Properties.                                                             *)
(***************************************************************************)

\* The values each variable may take.
TypeOK ==
  /\ {exists, multi, closed, stamped} \subseteq BOOLEAN
  /\ clock \in {"early", "soon", "over"}
  /\ votes \subseteq Options \X Users
  /\ count \in [Options -> Nat]
  /\ lock \in [Users \cup Options -> Procs \cup {Nobody}]
  /\ polled \in Workers \cup {Nobody}
  /\ tick \in [Workers -> {"rest", "stamp", "remind"}]
  /\ events \in Seq({"created", "deleted"}) /\ handled \in 0..Len(events)
  /\ card \in {"none", "shown", "removed"}
  /\ hasty \subseteq Users

Tally(o) == Cardinality({v \in votes : v[1] = o})

\* The public count of an option is the number of its votes, however the taps of different
\* people overlap, as long as nobody has tapped again before their own last tap answered.
CountsAreVotes == hasty = {} => \A o \in Options : count[o] = Tally(o)

\* The reminder goes out at most once in the life of a poll, on however many workers, and
\* however often it is closed and reopened.
RemindedOnce == reminders <= 1

\* Once the events are handled, a poll that is there has had its card, and a poll that is
\* not has left none behind.
CardFollowsPoll ==
  handled = Len(events) => (exists => card # "none") /\ (~exists => card = "removed")

\* A creation that is handled again never brings back a card that somebody removed.
CardStaysRemoved == [][card = "removed" => card' = "removed"]_vars
=============================================================================
