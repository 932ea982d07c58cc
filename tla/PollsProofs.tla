---------------------------- MODULE PollsProofs ----------------------------
(* What holds of a poll for any voters, options, taps and workers. *)
EXTENDS Polls, SequenceTheorems, FiniteSetTheorems, TLAPS

(***************************************************************************)
(* The reminder.  A worker between its claim and its commit holds the      *)
(* poll's row; after the commit the stamp keeps every other from claiming. *)
(***************************************************************************)

ReminderInv ==
  /\ polled \in Workers \cup {Nobody}
  /\ tick \in [Workers -> {"rest", "stamp", "remind"}]
  /\ \A w \in Workers : tick[w] = "stamp" => polled = w /\ ~stamped
  /\ \A w \in Workers : tick[w] = "remind" => stamped /\ reminders = 0
  /\ \A v, w \in Workers : tick[v] = "remind" /\ tick[w] = "remind" => v = w
  /\ reminders \in {0, 1}
  /\ reminders = 1 => stamped

LEMMA ReminderInit == Init => ReminderInv
  BY DEF Init, ReminderInv

LEMMA ReminderStep == ReminderInv /\ [Next]_vars => ReminderInv'
<1>1. SUFFICES ASSUME ReminderInv, [Next]_vars PROVE ReminderInv'
  OBVIOUS
<1>2. CASE UNCHANGED <<stamped, polled, tick, reminders>>
  BY <1>1, <1>2 DEF ReminderInv
<1>3. ASSUME NEW w \in Workers, Claim(w) PROVE ReminderInv'
  BY <1>1, <1>3, PollsAssumption DEF ReminderInv, Claim, poll
<1>4. ASSUME NEW w \in Workers, CommitStamp(w) PROVE ReminderInv'
  <2>1. ~stamped /\ polled = w /\ stamped' = TRUE /\ polled' = Nobody
    BY <1>1, <1>4 DEF ReminderInv, CommitStamp
  <2>2. reminders = 0 /\ reminders' = 0
    BY <1>1, <1>4, <2>1 DEF ReminderInv, CommitStamp
  <2>3. \A v \in Workers : tick[v] # "remind"
    BY <1>1, <2>1 DEF ReminderInv
  <2>4. \A v \in Workers : tick'[v] = "stamp" => FALSE
    BY <1>1, <1>4, <2>1 DEF ReminderInv, CommitStamp
  <2>5. QED
    BY <1>1, <1>4, <2>1, <2>2, <2>3, <2>4 DEF ReminderInv, CommitStamp
<1>5. ASSUME NEW w \in Workers, FanOut(w) PROVE ReminderInv'
  <2>1. stamped /\ reminders = 0 /\ reminders' = 1
    BY <1>1, <1>5 DEF ReminderInv, FanOut
  <2>2. \A v \in Workers : tick'[v] # "remind"
    BY <1>1, <1>5 DEF ReminderInv, FanOut
  <2>3. QED
    BY <1>1, <1>5, <2>1, <2>2 DEF ReminderInv, FanOut, poll
<1>6. ASSUME NEW w \in Workers, TickFails(w) PROVE ReminderInv'
  BY <1>1, <1>6 DEF ReminderInv, TickFails, poll
<1>7. CASE UNCHANGED vars
  BY <1>2, <1>7 DEF vars, poll, worker
<1>8. ASSUME NEW p \in Procs, Vote(p) PROVE ReminderInv'
  BY <1>2, <1>8 DEF Vote, Tap, Read, Look, Delete, Subtract, Insert, Add, CommitWithdrawal, CommitVote, Abort, poll, worker
<1>9. CASE \E c \in BOOLEAN : setPollClosed(c)
  BY <1>2, <1>9 DEF setPollClosed, worker
<1>10. CASE deletePoll \/ Tock
  BY <1>2, <1>10 DEF deletePoll, Tock, worker
<1>11. CASE Handle \/ HandleAndDie \/ DeleteCard
  BY <1>2, <1>11 DEF Handle, HandleAndDie, DeleteCard, poll
<1>12. QED
  BY <1>1, <1>3, <1>4, <1>5, <1>6, <1>7, <1>8, <1>9, <1>10, <1>11 DEF Next, Remind

\* The closing reminder of a poll is fanned out at most once (runScheduledTick: the row
\* lock of the claim, then the stamp).
THEOREM OneReminder == Spec => []RemindedOnce
<1>1. ReminderInv => RemindedOnce
  BY DEF ReminderInv, RemindedOnce
<1>2. QED
  BY ReminderInit, ReminderStep, <1>1, PTL DEF Spec

(***************************************************************************)
(* The card.  Its events are a creation and at most one deletion.          *)
(***************************************************************************)

CardInv ==
  /\ exists \in BOOLEAN
  /\ events \in Seq({"created", "deleted"})
  /\ Len(events) = IF exists THEN 1 ELSE 2
  /\ events[1] = "created"
  /\ ~exists => events[2] = "deleted"
  /\ handled \in 0..2
  /\ handled <= Len(events)
  /\ card \in {"none", "shown", "removed"}
  /\ handled = 1 => card # "none"
  /\ handled = 2 => card = "removed"

LEMMA CardInit == Init => CardInv
  BY DEF Init, CardInv

\* One event handled, whether or not the row is marked afterwards.
LEMMA CardHandled ==
  ASSUME CardInv, handled < Len(events), card' = CardAfter(events[handled + 1]),
         UNCHANGED <<exists, events>>
  PROVE  (handled' \in {handled, handled + 1}) => CardInv'
<1>1. handled = 0 => card' = Posted
  BY DEF CardInv, CardAfter
<1>2. handled = 1 => card' = Removed
  BY DEF CardInv, CardAfter
<1>3. handled \in {0, 1}
  BY DEF CardInv
<1>4. QED
  BY <1>1, <1>2, <1>3 DEF CardInv, Posted, Removed

LEMMA CardStep == CardInv /\ [Next]_vars => CardInv'
<1>1. SUFFICES ASSUME CardInv, [Next]_vars PROVE CardInv'
  OBVIOUS
<1>2. CASE UNCHANGED <<exists, events, handled, card>>
  BY <1>1, <1>2 DEF CardInv
<1>3. CASE UNCHANGED vars
  BY <1>2, <1>3 DEF vars, poll, worker
<1>4. ASSUME NEW p \in Procs, Vote(p) PROVE CardInv'
  BY <1>2, <1>4 DEF Vote, Tap, Read, Look, Delete, Subtract, Insert, Add, CommitWithdrawal, CommitVote, Abort, poll, worker
<1>5. ASSUME NEW w \in Workers, Remind(w) PROVE CardInv'
  BY <1>2, <1>5 DEF Remind, Claim, CommitStamp, FanOut, TickFails, poll
<1>6. CASE \E c \in BOOLEAN : setPollClosed(c)
  BY <1>2, <1>6 DEF setPollClosed, worker
<1>7. CASE Tock
  BY <1>2, <1>7 DEF Tock, worker
<1>8. CASE deletePoll
  <2>1. exists /\ exists' = FALSE /\ events' = Append(events, "deleted") /\ UNCHANGED <<handled, card>>
    BY <1>8 DEF deletePoll, worker
  <2>2. handled <= 1
    BY <1>1, <2>1 DEF CardInv
  <2>3. events \in Seq({"created", "deleted"}) /\ Len(events) = 1 /\ events[1] = "created"
    BY <1>1, <2>1 DEF CardInv
  <2>4. /\ events' \in Seq({"created", "deleted"}) /\ Len(events') = 2
        /\ events'[1] = "created" /\ events'[2] = "deleted"
    <3> DEFINE Types == {"created", "deleted"}
    <3>1. events \in Seq(Types) /\ "deleted" \in Types
      BY <2>3
    <3> HIDE DEF Types
    <3>2. /\ Append(events, "deleted") \in Seq(Types)
          /\ Len(Append(events, "deleted")) = Len(events) + 1
          /\ \A i \in 1..Len(events) : Append(events, "deleted")[i] = events[i]
          /\ Append(events, "deleted")[Len(events) + 1] = "deleted"
      BY ONLY <3>1, AppendProperties
    <3>3. QED
      BY <2>1, <2>3, <3>2 DEF Types
  <2>5. handled' <= 1 /\ exists' = FALSE /\ handled' = handled /\ card' = card
    BY <2>1, <2>2
  <2>6. /\ handled' \in 0..2 /\ handled' <= 2 /\ handled' # 2
        /\ card' \in {"none", "shown", "removed"} /\ (handled' = 1 => card' # "none")
    BY <1>1, <2>5 DEF CardInv
  <2>7. QED
    BY ONLY <2>4, <2>5, <2>6 DEF CardInv
<1>9. CASE Handle
  BY <1>1, <1>9, CardHandled DEF Handle, poll
<1>10. CASE HandleAndDie
  BY <1>1, <1>10, CardHandled DEF HandleAndDie, poll
<1>11. CASE DeleteCard
  BY <1>1, <1>11 DEF DeleteCard, CardInv, poll
<1>12. QED
  BY <1>1, <1>3, <1>4, <1>5, <1>6, <1>7, <1>8, <1>9, <1>10, <1>11 DEF Next

\* When the outbox has caught up, the chat shows a card for a poll that exists unless
\* somebody removed it, and none for a poll that was deleted (makeCreationHandler,
\* removeCards).
THEOREM NoDeadCard == Spec => []CardFollowsPoll
<1>1. CardInv => CardFollowsPoll
  BY DEF CardInv, CardFollowsPoll
<1>2. QED
  BY CardInit, CardStep, <1>1, PTL DEF Spec

\* A redelivered creation finds the card it posted, removed or not, and posts no other
\* (postSystemMessage through appendMessage's idempotency key).
THEOREM CardsAreNotRevived == Spec => CardStaysRemoved
<1>1. [Next]_vars => (card = "removed" => card' = "removed")
  BY DEF Next, vars, Vote, Remind, Tap, Read, Look, Delete, Subtract, Insert, Add, CommitWithdrawal, CommitVote, Abort,
         setPollClosed, deletePoll, Tock, Claim, CommitStamp, FanOut, TickFails, Handle, HandleAndDie, DeleteCard,
         CardAfter, Posted, Removed, poll, worker
<1>2. QED
  BY <1>1, PTL DEF Spec, CardStaysRemoved

(***************************************************************************)
(* The counters.  While nobody has two taps under way, what a tap has read  *)
(* of its voter's votes is what it deletes, unless the poll is gone.        *)
(***************************************************************************)

TapSteps == {"read", "look", "withdraw", "clear", "subtract", "subtract then cast", "cast",
             "add", "commit", "commit after add"}
Ballots == Options \X Users
TapRecords == [user : Users, option : Options, step : TapSteps,
               prior : SUBSET Ballots, gone : SUBSET Ballots]

BallotTypes ==
  /\ votes \subseteq Ballots /\ IsFiniteSet(votes)
  /\ count \in [Options -> Nat]
  /\ lock \in [Users \cup Options -> Procs \cup {Nobody}]
  /\ tap \in [Procs -> TapRecords \cup {Resting}]
  /\ hasty \subseteq Users

LEMMA BallotInit == Init => BallotTypes
  BY FS_EmptySet DEF Init, BallotTypes

\* A process that serves a tap carries its record.
LEMMA Tapper ==
  ASSUME BallotTypes, NEW p \in Procs, tap[p] # Resting
  PROVE  /\ tap[p] \in TapRecords
         /\ tap[p].user \in Users /\ tap[p].option \in Options /\ tap[p].step \in TapSteps
         /\ tap[p].prior \subseteq Ballots /\ tap[p].gone \subseteq Ballots
<1>1. tap[p] \in TapRecords
  BY DEF BallotTypes
<1>2. QED
  BY <1>1 DEF TapRecords

LEMMA NotResting == Resting \notin TapRecords
  BY DEF TapRecords, Resting, TapSteps

\* How a tap's record changes: the rest of it stays.
LEMMA Moved ==
  ASSUME BallotTypes, NEW p \in Procs, tap[p] # Resting,
         NEW step \in TapSteps, NEW prior, NEW gone, prior \subseteq Ballots, gone \subseteq Ballots,
         tap' = [tap EXCEPT ![p].step = step, ![p].prior = prior, ![p].gone = gone]
  PROVE  /\ tap' \in [Procs -> TapRecords \cup {Resting}]
         /\ tap'[p] # Resting
         /\ tap'[p].user = tap[p].user /\ tap'[p].option = tap[p].option
         /\ tap'[p].step = step /\ tap'[p].prior = prior /\ tap'[p].gone = gone
         /\ \A q \in Procs \ {p} : tap'[q] = tap[q]
<1>1. tap[p] \in TapRecords
  BY Tapper
<1>2. /\ tap'[p].user = tap[p].user /\ tap'[p].option = tap[p].option
      /\ tap'[p].step = step /\ tap'[p].prior = prior /\ tap'[p].gone = gone
      /\ tap'[p] \in TapRecords
      /\ \A q \in Procs \ {p} : tap'[q] = tap[q]
  BY <1>1 DEF BallotTypes, TapRecords
<1>3. QED
  BY <1>2, NotResting DEF BallotTypes

\* A step of p's transaction before it ends: its record moves, and it takes locks
\* that nobody else holds.
Moves(p, step, prior, gone) ==
  /\ tap[p] # Resting
  /\ step \in TapSteps /\ prior \subseteq Ballots /\ gone \subseteq Ballots
  /\ tap' = [tap EXCEPT ![p].step = step, ![p].prior = prior, ![p].gone = gone]
  /\ lock' \in [Users \cup Options -> Procs \cup {Nobody}]
  /\ \A x \in Users \cup Options : lock'[x] = lock[x] \/ (lock[x] = Nobody /\ lock'[x] = p)
  /\ UNCHANGED <<poll, votes, count, hasty>>

LEMMA ReadMoves ==
  ASSUME BallotTypes, NEW p \in Procs, Read(p)
  PROVE  LET t == tap[p] IN
         /\ t.step = "read"
         /\ \/ /\ <<t.option, t.user>> \in votes
               /\ Moves(p, "withdraw", {<<t.option, t.user>>}, t.gone)
            \/ \E step \in {"cast", "look"} : Moves(p, step, t.prior, t.gone)
<1> DEFINE t == tap[p]
<1>1. t # Resting /\ t.step = "read"
  BY DEF Read, Doing
<1>2. t.user \in Users /\ t.option \in Options /\ t.prior \subseteq Ballots /\ t.gone \subseteq Ballots
  BY <1>1, Tapper
<1>3. CASE <<t.option, t.user>> \in votes
  <2>1. tap' = [tap EXCEPT ![p].step = "withdraw", ![p].prior = {<<t.option, t.user>>}, ![p].gone = t.gone]
    BY <1>1, <1>3, Tapper DEF Read, BallotTypes, TapRecords
  <2>2. QED
    BY <1>1, <1>2, <1>3, <2>1 DEF Read, Moves, BallotTypes, Ballots, TapSteps
<1>4. CASE <<t.option, t.user>> \notin votes
  <2>1. PICK step \in {"cast", "look"} : tap' = [tap EXCEPT ![p].step = step]
    BY <1>4 DEF Read, Goto
  <2>2. tap' = [tap EXCEPT ![p].step = step, ![p].prior = t.prior, ![p].gone = t.gone]
    BY <1>1, <2>1, Tapper DEF BallotTypes, TapRecords
  <2>3. QED
    BY <1>1, <1>2, <2>2 DEF Read, Moves, BallotTypes, TapSteps
<1>5. QED
  BY <1>3, <1>4

LEMMA LookMoves ==
  ASSUME BallotTypes, NEW p \in Procs, Look(p)
  PROVE  LET t == tap[p] IN
         /\ t.step = "look"
         /\ \/ Of(t.user) = {} /\ Moves(p, "cast", {}, t.gone)
            \/ Moves(p, "clear", Of(t.user), t.gone)
<1> DEFINE t == tap[p]
<1>1. t # Resting /\ t.step = "look"
  BY DEF Look, Doing
<1>2. t.gone \subseteq Ballots /\ Of(t.user) \subseteq Ballots
  BY <1>1, Tapper DEF Of, BallotTypes
<1>3. PICK step \in {"cast", "clear"} :
         /\ step = (IF Of(t.user) = {} THEN "cast" ELSE "clear")
         /\ tap' = [tap EXCEPT ![p].prior = Of(t.user), ![p].step = step]
  BY DEF Look
<1>4. tap' = [tap EXCEPT ![p].step = step, ![p].prior = Of(t.user), ![p].gone = t.gone]
  BY <1>1, <1>3, Tapper DEF BallotTypes, TapRecords
<1>5. Moves(p, step, Of(t.user), t.gone)
  BY <1>1, <1>2, <1>4 DEF Look, Moves, BallotTypes, TapSteps
<1>6. QED
  BY <1>1, <1>3, <1>5

LEMMA DeleteMoves ==
  ASSUME BallotTypes, NEW p \in Procs, Delete(p)
  PROVE  LET t == tap[p] IN
         \/ t.step = "withdraw" /\ Moves(p, "subtract", t.prior, votes \cap t.prior)
         \/ t.step = "clear" /\ Moves(p, "subtract then cast", t.prior, Of(t.user))
<1> DEFINE t == tap[p]
           found == IF t.step = "withdraw" THEN votes \cap t.prior ELSE Of(t.user)
<1>1. t # Resting /\ t.step \in {"withdraw", "clear"}
  BY DEF Delete, Doing
<1>2. /\ t.user \in Users /\ t.prior \subseteq Ballots /\ found \subseteq Ballots
  BY <1>1, Tapper DEF Of, BallotTypes
<1>3. PICK step \in {"subtract", "subtract then cast"} :
         /\ step = (IF t.step = "withdraw" THEN "subtract" ELSE "subtract then cast")
         /\ tap' = [tap EXCEPT ![p].gone = found, ![p].step = step]
  BY DEF Delete
<1>4. tap' = [tap EXCEPT ![p].step = step, ![p].prior = t.prior, ![p].gone = found]
  BY <1>1, <1>3, Tapper DEF BallotTypes, TapRecords
<1>5. /\ lock' \in [Users \cup Options -> Procs \cup {Nobody}]
      /\ \A x \in Users \cup Options : lock'[x] = lock[x] \/ (lock[x] = Nobody /\ lock'[x] = p)
  BY <1>2 DEF Delete, Mine, BallotTypes
<1>6. Moves(p, step, t.prior, found)
  BY <1>1, <1>2, <1>4, <1>5 DEF Delete, Moves, TapSteps
<1>7. QED
  BY <1>1, <1>3, <1>6

LEMMA SubtractMoves ==
  ASSUME BallotTypes, NEW p \in Procs, Subtract(p)
  PROVE  LET t == tap[p] IN
         \/ t.step = "subtract" /\ Moves(p, "commit", t.prior, t.gone)
         \/ t.step = "subtract then cast" /\ Moves(p, "cast", t.prior, t.gone)
<1> DEFINE t == tap[p]
<1>1. t # Resting /\ t.step \in {"subtract", "subtract then cast"}
  BY DEF Subtract, Doing
<1>2. t.prior \subseteq Ballots /\ t.gone \subseteq Ballots /\ Uncounted(p) \subseteq Options
  BY <1>1, Tapper DEF Uncounted, Ballots
<1>3. PICK step \in {"commit", "cast"} :
         /\ step = (IF t.step = "subtract" THEN "commit" ELSE "cast")
         /\ tap' = [tap EXCEPT ![p].step = step]
  BY DEF Subtract, Goto
<1>4. tap' = [tap EXCEPT ![p].step = step, ![p].prior = t.prior, ![p].gone = t.gone]
  BY <1>1, <1>3, Tapper DEF BallotTypes, TapRecords
<1>5. /\ lock' \in [Users \cup Options -> Procs \cup {Nobody}]
      /\ \A x \in Users \cup Options : lock'[x] = lock[x] \/ (lock[x] = Nobody /\ lock'[x] = p)
  BY <1>2 DEF Subtract, Mine, BallotTypes
<1>6. Moves(p, step, t.prior, t.gone)
  BY <1>1, <1>2, <1>4, <1>5 DEF Subtract, Moves, TapSteps
<1>7. QED
  BY <1>1, <1>3, <1>6

\* An end of p's transaction, whatever it wrote: its locks are free, its tap is over.
Ends(p) ==
  /\ tap[p] # Resting
  /\ tap' = [tap EXCEPT ![p] = Resting]
  /\ lock' = Released(p)
  /\ UNCHANGED <<poll, hasty>>

LEMMA InsertMoves ==
  ASSUME BallotTypes, NEW p \in Procs, Insert(p)
  PROVE  LET t == tap[p] IN
         /\ t.step = "cast"
         /\ \/ /\ Moves(p, "add", t.prior, t.gone) /\ lock'[t.user] = p
               /\ exists /\ Conflict(p) = {}
            \/ Ends(p) /\ UNCHANGED <<votes, count>>
<1> DEFINE t == tap[p]
<1>1. t # Resting /\ t.step = "cast"
  BY DEF Insert, Doing
<1>2. t.user \in Users /\ t.prior \subseteq Ballots /\ t.gone \subseteq Ballots
  BY <1>1, Tapper
<1>3. CASE Conflict(p) # {} \/ ~exists
  BY <1>1, <1>3 DEF Insert, Ends, Rest
<1>4. CASE ~(Conflict(p) # {} \/ ~exists)
  <2>1. tap' = [tap EXCEPT ![p].step = "add"] /\ lock' = [lock EXCEPT ![t.user] = p]
    BY <1>4 DEF Insert, Goto
  <2>2. tap' = [tap EXCEPT ![p].step = "add", ![p].prior = t.prior, ![p].gone = t.gone]
    BY <1>1, <2>1, Tapper DEF BallotTypes, TapRecords
  <2>3. /\ lock' \in [Users \cup Options -> Procs \cup {Nobody}] /\ lock'[t.user] = p
        /\ \A x \in Users \cup Options : lock'[x] = lock[x] \/ (lock[x] = Nobody /\ lock'[x] = p)
    BY <1>2, <2>1 DEF Insert, Mine, BallotTypes
  <2>4. Moves(p, "add", t.prior, t.gone)
    BY <1>1, <1>2, <2>2, <2>3 DEF Insert, Moves, TapSteps
  <2>5. QED
    BY <1>1, <1>4, <2>3, <2>4
<1>5. QED
  BY <1>3, <1>4

LEMMA AddMoves ==
  ASSUME BallotTypes, NEW p \in Procs, Add(p)
  PROVE  LET t == tap[p] IN
         t.step = "add" /\ Moves(p, "commit after add", t.prior, t.gone)
<1> DEFINE t == tap[p]
<1>1. t # Resting /\ t.step = "add"
  BY DEF Add, Doing
<1>2. t.option \in Options /\ t.prior \subseteq Ballots /\ t.gone \subseteq Ballots
  BY <1>1, Tapper
<1>3. tap' = [tap EXCEPT ![p].step = "commit after add", ![p].prior = t.prior, ![p].gone = t.gone]
  BY <1>1, Tapper DEF Add, Goto, BallotTypes, TapRecords
<1>4. /\ lock' \in [Users \cup Options -> Procs \cup {Nobody}]
      /\ \A x \in Users \cup Options : lock'[x] = lock[x] \/ (lock[x] = Nobody /\ lock'[x] = p)
  BY <1>2 DEF Add, Mine, BallotTypes
<1>5. QED
  BY <1>1, <1>2, <1>3, <1>4 DEF Add, Moves, TapSteps

LEMMA CommitsEnd ==
  ASSUME BallotTypes, NEW p \in Procs
  PROVE  /\ CommitWithdrawal(p) => Ends(p) /\ tap[p].step = "commit"
         /\ CommitVote(p) => Ends(p) /\ tap[p].step = "commit after add"
         /\ Abort(p) => Ends(p) /\ UNCHANGED <<votes, count>>
  BY DEF CommitWithdrawal, CommitVote, Abort, Ends, Rest, Doing

LEMMA TapTypes ==
  ASSUME BallotTypes, NEW p \in Procs, NEW u \in Users, NEW o \in Options, Tap(p, u, o)
  PROVE  /\ BallotTypes' /\ \A q \in Procs \ {p} : tap'[q] = tap[q]
         /\ tap'[p] # Resting /\ tap'[p].user = u /\ tap'[p].step = "read"
         /\ tap'[p].prior = {} /\ tap'[p].gone = {}
         /\ hasty' = {} => hasty = {} /\ ~Tapping(u)
         /\ UNCHANGED <<exists, votes, count, lock>>
<1> DEFINE r == [user |-> u, option |-> o, step |-> "read", prior |-> {}, gone |-> {}]
<1>1. r \in TapRecords
  BY DEF TapRecords, TapSteps
<1>2. tap' = [tap EXCEPT ![p] = r] /\ hasty' \subseteq Users /\ UNCHANGED <<exists, votes, count, lock>>
  BY DEF Tap, BallotTypes, poll
<1>3. tap'[p] = r /\ tap' \in [Procs -> TapRecords \cup {Resting}] /\ \A q \in Procs \ {p} : tap'[q] = tap[q]
  BY <1>1, <1>2 DEF BallotTypes
<1>4. hasty' = {} => hasty = {} /\ ~Tapping(u)
  BY DEF Tap
<1>5. QED
  BY <1>1, <1>2, <1>3, <1>4, NotResting DEF BallotTypes

LEMMA MovesTypes ==
  ASSUME BallotTypes, NEW p \in Procs, NEW step, NEW prior, NEW gone, Moves(p, step, prior, gone)
  PROVE  /\ BallotTypes' /\ \A q \in Procs \ {p} : tap'[q] = tap[q]
         /\ tap[p] # Resting /\ tap'[p] # Resting
         /\ tap'[p].user = tap[p].user /\ tap'[p].option = tap[p].option
         /\ tap'[p].step = step /\ tap'[p].prior = prior /\ tap'[p].gone = gone
         /\ \A x \in Users \cup Options : lock'[x] = lock[x] \/ (lock[x] = Nobody /\ lock'[x] = p)
         /\ UNCHANGED <<exists, votes, count, hasty>>
<1>1. /\ tap[p] # Resting
      /\ step \in TapSteps /\ prior \subseteq Ballots /\ gone \subseteq Ballots
      /\ tap' = [tap EXCEPT ![p].step = step, ![p].prior = prior, ![p].gone = gone]
  BY DEF Moves
<1>2. /\ tap' \in [Procs -> TapRecords \cup {Resting}]
      /\ tap'[p] # Resting
      /\ tap'[p].user = tap[p].user /\ tap'[p].option = tap[p].option
      /\ tap'[p].step = step /\ tap'[p].prior = prior /\ tap'[p].gone = gone
      /\ \A q \in Procs \ {p} : tap'[q] = tap[q]
  BY <1>1, Moved
<1>3. /\ lock' \in [Users \cup Options -> Procs \cup {Nobody}]
      /\ \A x \in Users \cup Options : lock'[x] = lock[x] \/ (lock[x] = Nobody /\ lock'[x] = p)
      /\ UNCHANGED <<exists, votes, count, hasty>>
  BY DEF Moves, poll
<1>4. QED
  BY <1>1, <1>2, <1>3 DEF BallotTypes

LEMMA EndsTypes ==
  ASSUME BallotTypes, NEW p \in Procs, Ends(p),
         votes' \subseteq Ballots, IsFiniteSet(votes'), count' \in [Options -> Nat]
  PROVE  /\ BallotTypes' /\ \A q \in Procs \ {p} : tap'[q] = tap[q]
         /\ tap'[p] = Resting
         /\ \A x \in Users \cup Options : lock'[x] = lock[x] \/ lock[x] = p
         /\ UNCHANGED <<exists, hasty>>
  BY DEF Ends, Released, BallotTypes, poll

\* What a commit writes has the types of the ballot.
LEMMA CommitTypes ==
  ASSUME BallotTypes, NEW p \in Procs, CommitWithdrawal(p) \/ CommitVote(p)
  PROVE  votes' \subseteq Ballots /\ IsFiniteSet(votes') /\ count' \in [Options -> Nat]
<1>1. tap[p] # Resting
  BY DEF CommitWithdrawal, CommitVote, Doing
<1>2. tap[p].user \in Users /\ tap[p].option \in Options
  BY <1>1, Tapper
<1>3. IsFiniteSet(votes \ tap[p].gone)
  BY FS_Difference DEF BallotTypes
<1>4. \A n \in Nat : Decremented(n) \in Nat
  BY DEF Decremented
<1>5. CASE CommitWithdrawal(p)
  BY <1>3, <1>4, <1>5 DEF CommitWithdrawal, BallotTypes
<1>6. CASE CommitVote(p)
  <2>1. votes' \subseteq Ballots /\ IsFiniteSet(votes')
    <3>1. votes' = (votes \ tap[p].gone) \cup {<<tap[p].option, tap[p].user>>}
      BY <1>6 DEF CommitVote
    <3>2. IsFiniteSet(votes')
      BY <1>3, <3>1, FS_AddElement
    <3>3. votes' \subseteq Ballots
      BY <1>2, <3>1 DEF BallotTypes, Ballots
    <3>4. QED
      BY <3>2, <3>3
  <2>2. \A o \in Options : Counted(p, o) \in Nat
    BY <1>4 DEF Counted, BallotTypes
  <2>3. count' \in [Options -> Nat]
    BY <1>6, <2>2 DEF CommitVote
  <2>4. QED
    BY <2>1, <2>3
<1>7. QED
  BY <1>5, <1>6

\* The steps of the transaction.
LEMMA VoteCases ==
  ASSUME BallotTypes, NEW p \in Procs, Vote(p)
  PROVE  \/ \E u \in Users, o \in Options : Tap(p, u, o)
         \/ \E step, prior, gone : Moves(p, step, prior, gone)
         \/ Ends(p) /\ UNCHANGED <<votes, count>>
         \/ Ends(p) /\ (CommitWithdrawal(p) \/ CommitVote(p))
<1>1. CASE Read(p)
  BY <1>1, ReadMoves
<1>2. CASE Look(p)
  BY <1>2, LookMoves
<1>3. CASE Delete(p)
  BY <1>3, DeleteMoves
<1>4. CASE Subtract(p)
  BY <1>4, SubtractMoves
<1>5. CASE Insert(p)
  BY <1>5, InsertMoves
<1>6. CASE Add(p)
  BY <1>6, AddMoves
<1>7. QED
  BY <1>1, <1>2, <1>3, <1>4, <1>5, <1>6, CommitsEnd DEF Vote

\* What everybody else does to the ballot: nothing, or the poll goes with its votes.
LEMMA OthersKeepBallot ==
  ASSUME [Next]_vars, ~ \E p \in Procs : Vote(p)
  PROVE  \/ UNCHANGED <<exists, ballot>>
         \/ deletePoll
<1>1. ASSUME NEW w \in Workers, Remind(w) PROVE UNCHANGED <<exists, ballot>>
  BY <1>1 DEF Remind, Claim, CommitStamp, FanOut, TickFails, poll
<1>2. ASSUME NEW c \in BOOLEAN, setPollClosed(c) PROVE UNCHANGED <<exists, ballot>>
  BY <1>2 DEF setPollClosed
<1>3. CASE Tock \/ Handle \/ HandleAndDie \/ DeleteCard
  BY <1>3 DEF Tock, Handle, HandleAndDie, DeleteCard, poll
<1>4. CASE UNCHANGED vars
  BY <1>4 DEF vars, poll
<1>5. QED
  BY <1>1, <1>2, <1>3, <1>4 DEF Next

LEMMA BallotStep == BallotTypes /\ [Next]_vars => BallotTypes'
<1>1. SUFFICES ASSUME BallotTypes, [Next]_vars PROVE BallotTypes'
  OBVIOUS
<1>2. ASSUME NEW p \in Procs, Vote(p) PROVE BallotTypes'
  <2>1. CASE Ends(p) /\ UNCHANGED <<votes, count>>
    BY <1>1, <2>1, EndsTypes DEF BallotTypes
  <2>2. CASE Ends(p) /\ (CommitWithdrawal(p) \/ CommitVote(p))
    BY <1>1, <2>2, EndsTypes, CommitTypes
  <2>3. QED
    BY <1>1, <1>2, <2>1, <2>2, VoteCases, TapTypes, MovesTypes
<1>3. CASE UNCHANGED <<exists, ballot>>
  BY <1>1, <1>3 DEF BallotTypes, ballot
<1>4. CASE deletePoll
  BY <1>1, <1>4, FS_EmptySet DEF BallotTypes, deletePoll
<1>5. QED
  BY <1>1, <1>2, <1>3, <1>4, OthersKeepBallot

\* Nobody has two taps under way.
Alone ==
  \A p, q \in Procs :
    tap[p] # Resting /\ tap[q] # Resting /\ tap[p].user = tap[q].user => p = q

\* What p has read is its voter's; while the poll is there it stands, what is deleted is
\* what was read, and a vote about to be written is not there yet.
Before == {"read", "look", "withdraw", "clear"}
Adding == {"add", "commit after add"}
Kept(p) ==
  LET t == tap[p] IN
  tap[p] # Resting =>
    /\ \A v \in t.prior : v[2] = t.user
    /\ t.step \in {"read", "look"} => t.prior = {}
    /\ t.step \in Before => t.gone = {}
    /\ exists => t.prior \subseteq votes
    /\ exists /\ t.step = "clear" => t.prior = Of(t.user)
    /\ exists /\ t.step \notin Before => t.gone = t.prior
    /\ t.step \in Adding => /\ exists /\ lock[t.user] = p
                            /\ <<t.option, t.user>> \notin votes \ t.gone

Tallied == \A o \in Options : count[o] = Tally(o)

CountInv == hasty = {} => /\ Alone /\ \A p \in Procs : Kept(p)
                          /\ Tallied
                          /\ ~exists => votes = {}

LEMMA CountInit == Init => CountInv
<1>1. SUFFICES ASSUME Init PROVE CountInv
  OBVIOUS
<1>2. Tallied
  <2>1. \A o \in Options : {v \in votes : v[1] = o} = {}
    BY <1>1 DEF Init
  <2>2. QED
    BY <1>1, <2>1, FS_EmptySet DEF Init, Tallied, Tally
<1>3. Alone /\ \A p \in Procs : Kept(p)
  BY <1>1 DEF Init, Alone, Kept
<1>4. exists = TRUE
  BY <1>1 DEF Init
<1>5. QED
  BY <1>2, <1>3, <1>4 DEF CountInv

\* The other taps keep what they have, when the step takes no lock of theirs and
\* changes only votes of other voters.
LEMMA KeptByOthers ==
  ASSUME BallotTypes, NEW q \in Procs, Kept(q), tap'[q] = tap[q],
         exists' = exists,
         tap[q] # Resting => /\ \A v \in Ballots : v[2] = tap[q].user => (v \in votes' <=> v \in votes)
                             /\ lock[tap[q].user] = q => lock'[tap[q].user] = q,
         votes' \subseteq Ballots
  PROVE  Kept(q)'
<1>1. SUFFICES ASSUME tap[q] # Resting PROVE Kept(q)'
  BY DEF Kept
<1> DEFINE t == tap[q]
<1>2. /\ t.user \in Users /\ t.option \in Options
      /\ t.prior \subseteq Ballots /\ t.gone \subseteq Ballots
  BY <1>1, Tapper
<1>3. votes \subseteq Ballots /\ <<t.option, t.user>> \in Ballots
  BY <1>2 DEF BallotTypes, Ballots
<1>4. Of(t.user)' = Of(t.user)
  BY <1>1, <1>3 DEF Of
<1>5. exists /\ t.prior \subseteq votes => t.prior \subseteq votes'
  BY <1>1, <1>2 DEF Kept
<1>6. <<t.option, t.user>> \notin votes \ t.gone => <<t.option, t.user>> \notin votes' \ t.gone
  BY <1>1, <1>3
<1>7. QED
  BY <1>1, <1>4, <1>5, <1>6 DEF Kept

\* The steps of a transaction before it ends.
LEMMA KeptByMoves ==
  ASSUME BallotTypes, CountInv, hasty = {}, NEW p \in Procs,
         Read(p) \/ Look(p) \/ Delete(p) \/ Subtract(p) \/ Insert(p) \/ Add(p),
         NEW step, NEW prior, NEW gone, Moves(p, step, prior, gone)
  PROVE  Kept(p)'
<1> DEFINE t == tap[p]
<1>1. /\ tap'[p] # Resting /\ t # Resting
      /\ tap'[p].user = t.user /\ tap'[p].option = t.option
      /\ tap'[p].step = step /\ tap'[p].prior = prior /\ tap'[p].gone = gone
      /\ UNCHANGED <<exists, votes>>
      /\ lock[t.user] = p => lock'[t.user] = p
  <2>1. tap[p] # Resting
    BY DEF Moves
  <2>2. tap[p].user \in Users
    BY <2>1, Tapper
  <2>3. QED
    BY <2>2, MovesTypes
<1>2. Kept(p) /\ (~exists => votes = {})
  BY DEF CountInv
<1>3. Of(t.user)' = Of(t.user)
  BY <1>1 DEF Of
<1>4. t.user \in Users /\ t.option \in Options
  BY <1>1, Tapper
<1> USE DEF Before, Adding
<1>5. ASSUME NEW s, NEW pr, NEW g, Moves(p, s, pr, g) PROVE s = step /\ pr = prior /\ g = gone
  BY <1>1, <1>5, MovesTypes
<1>6. CASE Read(p)
  <2>1. t.step = "read" /\ t.prior = {} /\ t.gone = {}
    BY <1>1, <1>2, <1>6, ReadMoves DEF Kept
  <2>2. CASE <<t.option, t.user>> \in votes /\ step = "withdraw" /\ prior = {<<t.option, t.user>>} /\ gone = {}
    BY <1>1, <2>1, <2>2 DEF Kept
  <2>3. CASE step \in {"cast", "look"} /\ prior = {} /\ gone = {}
    BY <1>1, <2>1, <2>3 DEF Kept
  <2>4. QED
    BY <1>5, <1>6, <2>1, <2>2, <2>3, ReadMoves
<1>7. CASE Look(p)
  <2>1. t.step = "look" /\ t.gone = {}
    BY <1>1, <1>2, <1>7, LookMoves DEF Kept
  <2>2. CASE step = "cast" /\ prior = {} /\ gone = {}
    BY <1>1, <2>1, <2>2 DEF Kept
  <2>3. CASE step = "clear" /\ prior = Of(t.user) /\ gone = {}
    BY <1>1, <1>3, <2>1, <2>3 DEF Kept, Of
  <2>4. QED
    BY <1>5, <1>7, <2>1, <2>2, <2>3, LookMoves
<1>8. CASE Delete(p)
  <2>1. CASE t.step = "withdraw" /\ step = "subtract" /\ prior = t.prior /\ gone = votes \cap t.prior
    BY <1>1, <1>2, <2>1 DEF Kept
  <2>2. CASE t.step = "clear" /\ step = "subtract then cast" /\ prior = t.prior /\ gone = Of(t.user)
    BY <1>1, <1>2, <2>2 DEF Kept
  <2>3. QED
    BY <1>5, <1>8, <2>1, <2>2, DeleteMoves
<1>9. CASE Subtract(p)
  <2>1. /\ t.step \in {"subtract", "subtract then cast"} /\ step \in {"commit", "cast"}
        /\ prior = t.prior /\ gone = t.gone
    BY <1>5, <1>9, SubtractMoves
  <2>2. QED
    BY <1>1, <1>2, <2>1 DEF Kept
<1>10. CASE Insert(p)
  <2>1. t.step = "cast" /\ ~Ends(p)
    BY <1>1, <1>10, EndsTypes, InsertMoves DEF Ends, BallotTypes
  <2>2. /\ step = "add" /\ prior = t.prior /\ gone = t.gone
        /\ lock'[t.user] = p /\ exists /\ Conflict(p) = {}
    BY <1>5, <1>10, <2>1, InsertMoves
  <2>3. <<t.option, t.user>> \notin votes \ t.gone
    BY <2>2 DEF Conflict, Of
  <2>4. QED
    BY <1>1, <1>2, <2>1, <2>2, <2>3 DEF Kept
<1>11. CASE Add(p)
  <2>1. t.step = "add" /\ step = "commit after add" /\ prior = t.prior /\ gone = t.gone
    BY <1>5, <1>11, AddMoves
  <2>2. QED
    BY <1>1, <1>2, <2>1 DEF Kept
<1>12. QED
  BY <1>6, <1>7, <1>8, <1>9, <1>10, <1>11

\* One vote of a voter moves one tally by one.
LEMMA TallyChange ==
  ASSUME BallotTypes, NEW gone \in SUBSET votes, NEW add \in SUBSET Ballots, NEW u \in Users,
         \A v \in gone \cup add : v[2] = u,
         add \cap (votes \ gone) = {},
         votes' = (votes \ gone) \cup add,
         NEW o \in Options
  PROVE  /\ Tally(o) \in Nat
         /\ <<o, u>> \in gone => Tally(o) > 0
         /\ Tally(o)' = Tally(o) - (IF <<o, u>> \in gone THEN 1 ELSE 0)
                                 + (IF <<o, u>> \in add THEN 1 ELSE 0)
<1> DEFINE A == {v \in votes : v[1] = o}
           B == A \ (IF <<o, u>> \in gone THEN {<<o, u>>} ELSE {})
           C == B \cup (IF <<o, u>> \in add THEN {<<o, u>>} ELSE {})
<1>1. \A v \in Ballots : v = <<v[1], v[2]>> /\ v[1] \in Options /\ v[2] \in Users
  BY DEF Ballots
<1>2. votes \subseteq Ballots /\ gone \subseteq Ballots
  BY DEF BallotTypes
<1>3. {v \in votes' : v[1] = o} = C
  <2>1. ASSUME NEW v \in votes', v[1] = o PROVE v \in C
    <3>1. v \in Ballots /\ v = <<o, v[2]>>
      BY <1>1, <1>2, <2>1
    <3>2. CASE v \in add
      BY <3>1, <3>2
    <3>3. CASE v \in votes \ gone
      BY <2>1, <3>3
    <3>4. QED
      BY <3>2, <3>3
  <2>2. ASSUME NEW v \in C PROVE v \in votes' /\ v[1] = o
    <3>1. CASE v \in B
      <4>1. v \in votes /\ v[1] = o
        BY <3>1
      <4>2. v \notin gone
        BY <1>1, <1>2, <3>1, <4>1
      <4>3. QED
        BY <4>1, <4>2
    <3>2. CASE v \notin B
      BY <2>2, <3>2
    <3>3. QED
      BY <3>1, <3>2
  <2>3. QED
    BY <2>1, <2>2
<1>4. IsFiniteSet(A) /\ Cardinality(A) \in Nat
  BY FS_Subset, FS_CardinalityType DEF BallotTypes
<1>5. /\ IsFiniteSet(B) /\ Cardinality(B) \in Nat
      /\ Cardinality(B) = Cardinality(A) - (IF <<o, u>> \in gone THEN 1 ELSE 0)
  <2>1. CASE <<o, u>> \in gone
    <3>1. <<o, u>> \in A /\ B = A \ {<<o, u>>}
      BY <2>1
    <3> HIDE DEF A, B
    <3>2. IsFiniteSet(A \ {<<o, u>>})
      BY <1>4, FS_RemoveElement
    <3>3. IsFiniteSet(B) /\ Cardinality(B) \in Nat
      BY <3>1, <3>2, FS_CardinalityType
    <3>4. A = B \cup {<<o, u>>} /\ <<o, u>> \notin B
      BY <3>1
    <3>5. Cardinality(A) = Cardinality(B) + 1
      BY <3>3, <3>4, FS_AddElement
    <3>6. QED
      BY <1>4, <2>1, <3>3, <3>5
  <2>2. CASE <<o, u>> \notin gone
    <3>1. B = A
      BY <2>2
    <3>2. QED
      BY <1>4, <2>2, <3>1
  <2>3. QED
    BY <2>1, <2>2
<1>6. Cardinality(C) = Cardinality(B) + (IF <<o, u>> \in add THEN 1 ELSE 0)
  <2>1. CASE <<o, u>> \in add
    <3>1. <<o, u>> \notin B /\ C = B \cup {<<o, u>>}
      BY <2>1
    <3> HIDE DEF B, C
    <3>2. QED
      BY <1>5, <2>1, <3>1, FS_AddElement
  <2>2. CASE <<o, u>> \notin add
    <3>1. C = B
      BY <2>2
    <3>2. QED
      BY <1>5, <2>2, <3>1
  <2>3. QED
    BY <2>1, <2>2
<1>7. Tally(o) = Cardinality(A) /\ Tally(o)' = Cardinality(C)
  BY <1>3 DEF Tally
<1> HIDE DEF A, B, C
<1>8. QED
  BY <1>4, <1>5, <1>6, <1>7

\* A commit moves each counter as it moves the votes.
LEMMA CommitTallies ==
  ASSUME BallotTypes, CountInv, hasty = {}, NEW p \in Procs, CommitWithdrawal(p) \/ CommitVote(p)
  PROVE  /\ Tallied' /\ (~exists => votes' = {})
         /\ \A v \in Ballots : v[2] # tap[p].user => (v \in votes' <=> v \in votes)
<1> DEFINE t == tap[p]
           u == t.user
           mine == <<t.option, u>>
<1>1. t # Resting /\ t.step = (IF CommitVote(p) THEN "commit after add" ELSE "commit")
  BY CommitsEnd DEF Ends, CommitWithdrawal, Doing
<1>2. u \in Users /\ t.option \in Options /\ mine \in Ballots /\ t.prior \subseteq Ballots
  BY <1>1, Tapper DEF Ballots
<1>3. Kept(p) /\ Tallied /\ (~exists => votes = {})
  BY DEF CountInv
<1>4. \A v \in t.prior : v[2] = u
  BY <1>1, <1>3 DEF Kept
<1>5. \A o \in Options : o \in Uncounted(p) <=> <<o, u>> \in t.prior
  <2>1. \A v \in t.prior : v = <<v[1], u>>
    BY <1>2, <1>4 DEF Ballots
  <2>2. QED
    BY <2>1 DEF Uncounted
<1>6. CASE ~exists
  <2>1. CommitWithdrawal(p) /\ votes = {}
    BY <1>1, <1>3, <1>6 DEF Kept, Adding
  <2>2. votes' = {} /\ \A o \in Options : count'[o] = count[o]
    BY <1>6, <2>1 DEF CommitWithdrawal
  <2>3. QED
    BY <1>3, <2>1, <2>2 DEF Tallied, Tally
<1>7. CASE exists
  <2>1. t.gone = t.prior /\ t.prior \subseteq votes
    BY <1>1, <1>3, <1>7 DEF Kept, Before
  <2>2. PICK add \in SUBSET {mine} : /\ votes' = (votes \ t.gone) \cup add
                                     /\ add \cap (votes \ t.gone) = {}
                                     /\ CommitVote(p) <=> mine \in add
    <3>1. CASE CommitVote(p)
      BY <1>1, <1>3, <3>1 DEF CommitVote, Kept, Adding
    <3>2. CASE ~CommitVote(p)
      BY <3>2 DEF CommitWithdrawal
    <3>3. QED
      BY <3>1, <3>2
  <2>3. \A o \in Options : /\ Tally(o) \in Nat
                           /\ <<o, u>> \in t.prior => Tally(o) > 0
                           /\ Tally(o)' = Tally(o) - (IF <<o, u>> \in t.prior THEN 1 ELSE 0)
                                                   + (IF <<o, u>> \in add THEN 1 ELSE 0)
    <3>1. add \in SUBSET Ballots /\ \A v \in t.gone \cup add : v[2] = u
      BY <1>2, <1>4, <2>1
    <3>2. QED
      BY <1>2, <2>1, <2>2, <3>1, TallyChange
  <2>4. \A o \in Options : <<o, u>> \in add <=> CommitVote(p) /\ o = t.option
    BY <2>2
  <2>5. ASSUME NEW o \in Options PROVE count'[o] = Tally(o)'
    <3>1. count[o] = Tally(o) /\ count[o] \in Nat
      BY <1>3 DEF Tallied, BallotTypes
    <3> DEFINE left == IF <<o, u>> \in t.prior THEN Tally(o) - 1 ELSE Tally(o)
    <3>2. left \in Nat /\ left = (IF o \in Uncounted(p) THEN Decremented(count[o]) ELSE count[o])
      BY <1>5, <2>3, <3>1 DEF Decremented
    <3>3. CASE CommitVote(p)
      <4>1. count'[o] = IF o = t.option THEN left + 1 ELSE left
        BY <3>2, <3>3 DEF CommitVote, Counted
      <4>2. QED
        BY <2>3, <2>4, <3>3, <4>1
    <3>4. CASE ~CommitVote(p)
      <4>1. count'[o] = left
        BY <1>7, <3>2, <3>4 DEF CommitWithdrawal
      <4>2. QED
        BY <2>3, <2>4, <3>4, <4>1
    <3>5. QED
      BY <3>3, <3>4
  <2>6. Tallied'
    BY <2>5 DEF Tallied
  <2>7. \A v \in Ballots : v[2] # u => (v \in votes' <=> v \in votes)
    BY <1>4, <2>1, <2>2
  <2>8. QED
    BY <1>7, <2>6, <2>7
<1>8. QED
  BY <1>6, <1>7

LEMMA CountStep == BallotTypes /\ CountInv /\ [Next]_vars => CountInv'
<1>1. SUFFICES ASSUME BallotTypes, CountInv, [Next]_vars, hasty' = {}
               PROVE  /\ Alone' /\ \A q \in Procs : Kept(q)'
                      /\ Tallied' /\ (~exists => votes = {})'
  BY DEF CountInv
<1>2. BallotTypes' /\ votes \subseteq Ballots
  BY <1>1, BallotStep DEF BallotTypes
<1>3. ASSUME NEW p \in Procs, Vote(p)
      PROVE  /\ Alone' /\ \A q \in Procs : Kept(q)'
             /\ Tallied' /\ (~exists => votes = {})'
  <2>1. ASSUME NEW u \in Users, NEW o \in Options, Tap(p, u, o)
        PROVE  /\ Alone' /\ \A q \in Procs : Kept(q)'
               /\ Tallied' /\ (~exists => votes = {})'
    <3>1. /\ \A q \in Procs \ {p} : tap'[q] = tap[q]
          /\ tap'[p] # Resting /\ tap'[p].user = u /\ tap'[p].step = "read"
          /\ tap'[p].prior = {} /\ tap'[p].gone = {}
          /\ hasty = {} /\ ~Tapping(u)
          /\ UNCHANGED <<exists, votes, count, lock>>
      BY <1>1, <2>1, TapTypes
    <3>2. Alone /\ (\A q \in Procs : Kept(q)) /\ Tallied /\ (~exists => votes = {})
      BY <1>1, <3>1 DEF CountInv
    <3>3. Alone'
      BY <3>1, <3>2 DEF Alone, Tapping
    <3>4. Kept(p)'
      BY <3>1 DEF Kept, Before, Adding
    <3>5. \A q \in Procs \ {p} : Kept(q)'
      BY <1>1, <1>2, <3>1, <3>2, KeptByOthers
    <3>6. Tallied' /\ (~exists => votes = {})'
      BY <3>1, <3>2 DEF Tallied, Tally
    <3>7. QED
      BY <3>3, <3>4, <3>5, <3>6
  <2>2. ASSUME Read(p) \/ Look(p) \/ Delete(p) \/ Subtract(p) \/ Insert(p) \/ Add(p),
               NEW step, NEW prior, NEW gone, Moves(p, step, prior, gone)
        PROVE  /\ Alone' /\ \A q \in Procs : Kept(q)'
               /\ Tallied' /\ (~exists => votes = {})'
    <3>1. /\ \A q \in Procs \ {p} : tap'[q] = tap[q]
          /\ tap[p] # Resting /\ tap'[p] # Resting /\ tap'[p].user = tap[p].user
          /\ \A x \in Users \cup Options : lock'[x] = lock[x] \/ (lock[x] = Nobody /\ lock'[x] = p)
          /\ UNCHANGED <<exists, votes, count, hasty>>
      BY <1>1, <2>2, MovesTypes
    <3>2. hasty = {} /\ Alone /\ (\A q \in Procs : Kept(q)) /\ Tallied /\ (~exists => votes = {})
      BY <1>1, <3>1 DEF CountInv
    <3>3. Alone'
      BY <3>1, <3>2 DEF Alone
    <3>4. Kept(p)'
      BY <1>1, <2>2, <3>2, KeptByMoves
    <3>5. ASSUME NEW q \in Procs \ {p} PROVE Kept(q)'
      <4>1. tap[q] # Resting => tap[q].user \in Users
        BY <1>1, Tapper
      <4>2. tap[q] # Resting => (lock[tap[q].user] = q => lock'[tap[q].user] = q)
        BY <3>1, <4>1, PollsAssumption
      <4>3. QED
        BY <1>1, <1>2, <3>1, <3>2, <4>2, KeptByOthers
    <3>6. Tallied' /\ (~exists => votes = {})'
      BY <3>1, <3>2 DEF Tallied, Tally
    <3>7. QED
      BY <3>3, <3>4, <3>5, <3>6
  <2>3. ASSUME Ends(p),
               hasty = {} => /\ Tallied' /\ (~exists => votes' = {})
                             /\ \A v \in Ballots : v[2] # tap[p].user => (v \in votes' <=> v \in votes)
        PROVE  /\ Alone' /\ \A q \in Procs : Kept(q)'
               /\ Tallied' /\ (~exists => votes = {})'
    <3>1. /\ \A q \in Procs \ {p} : tap'[q] = tap[q]
          /\ tap[p] # Resting /\ tap'[p] = Resting
          /\ \A x \in Users \cup Options : lock'[x] = lock[x] \/ lock[x] = p
          /\ UNCHANGED <<exists, hasty>>
      BY <1>1, <1>2, <2>3, EndsTypes DEF BallotTypes, Ends
    <3>2. hasty = {} /\ Alone /\ (\A q \in Procs : Kept(q))
      BY <1>1, <3>1 DEF CountInv
    <3>3. Alone' /\ Kept(p)'
      BY <3>1, <3>2 DEF Alone, Kept
    <3>4. ASSUME NEW q \in Procs \ {p} PROVE Kept(q)'
      <4>1. tap[q] # Resting => tap[q].user \in Users /\ tap[q].user # tap[p].user
        BY <1>1, <3>1, <3>2, Tapper DEF Alone
      <4>2. tap[q] # Resting => /\ \A v \in Ballots : v[2] = tap[q].user => (v \in votes' <=> v \in votes)
                                /\ lock[tap[q].user] = q => lock'[tap[q].user] = q
        BY <2>3, <3>1, <3>2, <4>1
      <4>3. QED
        BY <1>1, <1>2, <3>1, <3>2, <4>2, KeptByOthers DEF BallotTypes
    <3>5. QED
      BY <2>3, <3>1, <3>2, <3>3, <3>4
  <2>4. CASE CommitWithdrawal(p) \/ CommitVote(p)
    BY <1>1, <2>3, <2>4, CommitsEnd, CommitTallies
  <2>5. ASSUME Ends(p), UNCHANGED <<votes, count>>
        PROVE  /\ Alone' /\ \A q \in Procs : Kept(q)'
               /\ Tallied' /\ (~exists => votes = {})'
    <3>1. hasty = {} => /\ Tallied' /\ (~exists => votes' = {})
                        /\ \A v \in Ballots : v[2] # tap[p].user => (v \in votes' <=> v \in votes)
      BY <1>1, <2>5 DEF CountInv, Tallied, Tally
    <3>2. QED
      BY <2>3, <2>5, <3>1
  <2>6. CASE Read(p) \/ Look(p) \/ Delete(p) \/ Subtract(p) \/ Insert(p) \/ Add(p)
    BY <1>1, <2>2, <2>5, <2>6, ReadMoves, LookMoves, DeleteMoves, SubtractMoves, InsertMoves, AddMoves
  <2>7. QED
    BY <1>1, <1>3, <2>1, <2>4, <2>5, <2>6, CommitsEnd DEF Vote
<1>4. CASE UNCHANGED <<exists, ballot>>
  BY <1>1, <1>4 DEF CountInv, Alone, Kept, Tallied, Tally, Of, ballot
<1>5. CASE deletePoll
  <2>1. /\ exists /\ exists' = FALSE /\ votes' = {} /\ count' = [o \in Options |-> 0]
        /\ UNCHANGED <<lock, tap, hasty>>
        /\ \A x \in Users \cup Options : lock[x] = Nobody
    BY <1>1, <1>5 DEF deletePoll, BallotTypes
  <2>2. Alone /\ \A q \in Procs : Kept(q)
    BY <1>1, <2>1 DEF CountInv
  <2>3. \A o \in Options : {v \in votes' : v[1] = o} = {}
    BY <2>1
  <2>4. Tallied'
    BY <2>1, <2>3, FS_EmptySet DEF Tallied, Tally
  <2>5. Alone'
    BY <2>1, <2>2 DEF Alone
  <2>6. ASSUME NEW q \in Procs PROVE Kept(q)'
    <3>1. tap[q] # Resting => tap[q].user \in Users
      BY <1>1, Tapper
    <3>2. q # Nobody
      BY PollsAssumption
    <3>3. tap[q] # Resting => lock[tap[q].user] # q
      BY <2>1, <3>1, <3>2
    <3>4. tap[q] # Resting => tap[q].step \notin Adding
      BY <2>2, <3>3 DEF Kept
    <3>5. QED
      BY <2>1, <2>2, <3>4 DEF Kept
  <2>7. QED
    BY <2>1, <2>4, <2>5, <2>6
<1>6. QED
  BY <1>1, <1>3, <1>4, <1>5, OthersKeepBallot

\* CountsAreVotes: toggleVote moves the counters it read and deletes the votes it finds, in
\* transactions that overlap, and the counters still are the numbers of votes, through
\* aborts and the deletion of the poll, unless somebody taps twice at once.
THEOREM CountersAgree == Spec => []CountsAreVotes
<1>1. CountInv => CountsAreVotes
  BY DEF CountInv, CountsAreVotes, Tallied
<1>2. QED
  BY <1>1, BallotInit, BallotStep, CountInit, CountStep, PTL DEF Spec

(***************************************************************************)
(* Types.                                                                  *)
(***************************************************************************)

FlagTypes == /\ multi \in BOOLEAN /\ closed \in BOOLEAN /\ stamped \in BOOLEAN
             /\ clock \in {"early", "soon", "over"}

LEMMA FlagStep == FlagTypes /\ [Next]_vars => FlagTypes'
<1>1. SUFFICES ASSUME FlagTypes, [Next]_vars PROVE FlagTypes'
  OBVIOUS
<1>2. ASSUME NEW p \in Procs, Vote(p) PROVE UNCHANGED poll
  BY <1>2 DEF Vote, Tap, Read, Look, Delete, Subtract, Insert, Add, CommitWithdrawal, CommitVote, Abort
<1>3. ASSUME NEW w \in Workers, Claim(w) \/ FanOut(w) \/ TickFails(w) PROVE UNCHANGED poll
  BY <1>3 DEF Claim, FanOut, TickFails
<1>4. CASE Handle \/ HandleAndDie \/ DeleteCard \/ UNCHANGED vars
  BY <1>1, <1>4 DEF Handle, HandleAndDie, DeleteCard, vars, poll, FlagTypes
<1>5. ASSUME NEW w \in Workers, CommitStamp(w) PROVE FlagTypes'
  BY <1>1, <1>5 DEF CommitStamp, FlagTypes
<1>6. ASSUME NEW c \in BOOLEAN, setPollClosed(c) PROVE FlagTypes'
  BY <1>1, <1>6 DEF setPollClosed, FlagTypes
<1>7. CASE deletePoll \/ Tock
  BY <1>1, <1>7 DEF deletePoll, Tock, FlagTypes
<1>8. CASE UNCHANGED poll
  BY <1>1, <1>8 DEF poll, FlagTypes
<1>9. QED
  BY <1>1, <1>2, <1>3, <1>4, <1>5, <1>6, <1>7, <1>8 DEF Next, Remind

\* Every variable of the poll keeps its type; in particular no counter of votes falls
\* below zero (toggleVote's GREATEST(vote_count - 1, 0)).
THEOREM TypeCorrect == Spec => []TypeOK
<1>1. Init => FlagTypes
  BY DEF Init, FlagTypes
<1>2. FlagTypes /\ BallotTypes /\ CardInv /\ ReminderInv => TypeOK
  <2>1. SUFFICES ASSUME FlagTypes, BallotTypes, CardInv, ReminderInv PROVE TypeOK
    OBVIOUS
  <2>2. {exists, multi, closed, stamped} \subseteq BOOLEAN
    BY <2>1 DEF FlagTypes, CardInv
  <2>3. handled \in 0..Len(events)
    BY <2>1 DEF CardInv
  <2>4. QED
    BY <2>1, <2>2, <2>3 DEF TypeOK, FlagTypes, BallotTypes, Ballots, CardInv, ReminderInv
<1>3. QED
  BY <1>1, <1>2, FlagStep, BallotInit, BallotStep, CardInit, CardStep, ReminderInit, ReminderStep, PTL DEF Spec
=============================================================================
