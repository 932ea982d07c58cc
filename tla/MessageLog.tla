------------------------------ MODULE MessageLog ------------------------------
(***************************************************************************)
(* One channel's message log as packages/server/src/domain writes it:      *)
(* appendMessage, editMessage, softDeleteMessage, setPinned and the part   *)
(* of toggleReaction that touches the message.  Several API requests, and  *)
(* the worker, run these commands at once against PostgreSQL under READ    *)
(* COMMITTED; each command is cut where another one can get in between:    *)
(* after a read outside the transaction, while it waits for the channel    *)
(* row, between its commit and what it does next.                          *)
(*                                                                         *)
(* `messages', `lastSeq' and `lastRev' are the committed tables.  What a   *)
(* transaction has allocated and not committed is in tx[p].  The channel   *)
(* row is locked by the first UPDATE channels and released by commit,      *)
(* rollback or the loss of the connection.                                 *)
(***************************************************************************)
EXTENDS Integers, FiniteSets, Sequences

CONSTANTS Users,    \* senders; the system actor is one of them
          Keys,     \* client message ids
          Procs,    \* requests that can be in progress at once
          Nobody,   \* the holder of a free channel row
          MaxRev    \* bound: revisions a behaviour may allocate

ASSUME NobodyAssumption == Nobody \notin Procs

VARIABLES alive,    \* the row in `channels' exists
          lastSeq, lastRev,
          messages, \* rows of `messages'
          outbox,   \* rows of `outbox' in id order
          lock,     \* who holds the channel row
          pc, req,  \* per request: where it is and what it was asked
          tx,       \* per request: the seq and rev its transaction allocated
          acked     \* history: what callers of appendMessage were told

channelVars == <<alive, lastSeq, lastRev>>
vars == <<alive, lastSeq, lastRev, messages, outbox, lock, pc, req, tx, acked>>

Commands == {"edit", "delete", "pin", "react"}
NoReq == [op |-> "none"]
Request == {NoReq} \union [op: {"send"}, user: Users, key: Keys]
                   \union [op: Commands, seq: Nat \ {0}, on: BOOLEAN]
NoTx == [seq |-> 0, rev |-> 0]

Message == [seq: Nat \ {0}, rev: Nat \ {0}, sender: Users, key: Keys,
            body: {"first", "edited", "null"}, deleted: BOOLEAN, pinned: BOOLEAN]

Event == [type: {"message.created", "message.edited", "message.deleted", "message.reacted",
                 "message.pinned"}, seq: Nat \ {0}]

Init == /\ alive = TRUE
        /\ lastSeq = 0 /\ lastRev = 0
        /\ messages = {} /\ outbox = <<>>
        /\ lock = Nobody
        /\ pc = [p \in Procs |-> "idle"]
        /\ req = [p \in Procs |-> NoReq]
        /\ tx = [p \in Procs |-> NoTx]
        /\ acked = {}
-------------------------------------------------------------------------------
FindByIdempotencyKey(u, k) == {m \in messages : m.sender = u /\ m.key = k}
LoadMessage(s) == {m \in messages : m.seq = s}

\* The request goes on to step `at'.
Goto(p, at) == pc' = [pc EXCEPT ![p] = at]

\* The command returns (or its process dies): nothing of it is left.
Finish(p) == /\ Goto(p, "idle")
             /\ req' = [req EXCEPT ![p] = NoReq]
             /\ tx' = [tx EXCEPT ![p] = NoTx]

\* The bound on revisions, applied when a command is accepted.
WithinBound == lastRev + Cardinality({p \in Procs : pc[p] # "idle"}) < MaxRev

Accept(p, r, at) == /\ pc[p] = "idle"
                    /\ WithinBound
                    /\ req' = [req EXCEPT ![p] = r]
                    /\ Goto(p, at)
                    /\ UNCHANGED <<channelVars, messages, outbox, lock, tx, acked>>

Tell(m) == acked' = acked \union {[user |-> m.sender, key |-> m.key, seq |-> m.seq]}

Emit(type, s) == outbox' = Append(outbox, [type |-> type, seq |-> s])

UpdateRow(s, change(_)) ==
    messages' = {IF m.seq = s THEN change(m) ELSE m : m \in messages}
-------------------------------------------------------------------------------
\* appendMessage.

\* Fast path: a retry that is recognised before the counter is touched.
SendDeduplicated(p) ==
    /\ pc[p] = "idle"
    /\ \E m \in messages : Tell(m)
    /\ UNCHANGED <<channelVars, messages, outbox, lock, pc, req, tx>>

SendStart(p, u, k) ==
    /\ FindByIdempotencyKey(u, k) = {}
    /\ Accept(p, [op |-> "send", user |-> u, key |-> k], "bump")

\* Mutant: a rev not allocated by an append.
AppendBumpSeqOnly(p) ==
    /\ pc[p] = "bump" /\ alive /\ lock = Nobody
    /\ lock' = p
    /\ tx' = [tx EXCEPT ![p] = [seq |-> lastSeq + 1, rev |-> lastRev]]
    /\ Goto(p, "insert")
    /\ UNCHANGED <<channelVars, messages, outbox, req, acked>>

\* UPDATE channels SET last_seq = last_seq + 1, last_rev = last_rev + 1.
AppendBump(p) ==
    /\ pc[p] = "bump"
    /\ alive
    /\ lock = Nobody
    /\ lock' = p
    /\ tx' = [tx EXCEPT ![p] = [seq |-> lastSeq + 1, rev |-> lastRev + 1]]
    /\ Goto(p, "insert")
    /\ UNCHANGED <<channelVars, messages, outbox, req, acked>>

\* Mutant: the event left out.
AppendCommitNoEvent(p) ==
    /\ pc[p] = "insert"
    /\ FindByIdempotencyKey(req[p].user, req[p].key) = {}
    /\ messages' = messages \union
         {[seq |-> tx[p].seq, rev |-> tx[p].rev, sender |-> req[p].user, key |-> req[p].key,
           body |-> "first", deleted |-> FALSE, pinned |-> FALSE]}
    /\ lastSeq' = tx[p].seq /\ lastRev' = tx[p].rev
    /\ lock' = Nobody
    /\ Goto(p, "answer")
    /\ UNCHANGED <<alive, outbox, req, tx, acked>>

\* The row and message.created land together.
AppendCommit(p) ==
    /\ pc[p] = "insert"
    /\ FindByIdempotencyKey(req[p].user, req[p].key) = {}
    /\ messages' = messages \union
         {[seq |-> tx[p].seq, rev |-> tx[p].rev, sender |-> req[p].user, key |-> req[p].key,
           body |-> "first", deleted |-> FALSE, pinned |-> FALSE]}
    /\ lastSeq' = tx[p].seq
    /\ lastRev' = tx[p].rev
    /\ Emit("message.created", tx[p].seq)
    /\ lock' = Nobody
    /\ Goto(p, "answer")
    /\ UNCHANGED <<alive, req, tx, acked>>

\* Mutant: counters that do not roll back, as a PostgreSQL SEQUENCE would not.
AppendConflictLeaksSeq(p) ==
    /\ pc[p] = "insert"
    /\ FindByIdempotencyKey(req[p].user, req[p].key) # {}
    /\ lastSeq' = tx[p].seq /\ lastRev' = tx[p].rev
    /\ lock' = Nobody
    /\ tx' = [tx EXCEPT ![p] = NoTx]
    /\ Goto(p, "reply")
    /\ UNCHANGED <<alive, messages, outbox, req, acked>>

\* The unique index on (channel, sender, client_msg_id) refuses the insert:
\* the whole transaction, counters included, rolls back.
AppendConflict(p) ==
    /\ pc[p] = "insert"
    /\ FindByIdempotencyKey(req[p].user, req[p].key) # {}
    /\ lock' = Nobody
    /\ tx' = [tx EXCEPT ![p] = NoTx]
    /\ Goto(p, "reply")
    /\ UNCHANGED <<channelVars, messages, outbox, req, acked>>

\* Mutant: the retry is answered with the newest seq instead of the winner's.
AppendReplyLatest(p) ==
    /\ pc[p] = "reply"
    /\ LET found == FindByIdempotencyKey(req[p].user, req[p].key)
       IN  IF found = {} THEN UNCHANGED acked
           ELSE \E m \in found : Tell([m EXCEPT !.seq = lastSeq])
    /\ Finish(p)
    /\ UNCHANGED <<channelVars, messages, outbox, lock>>

\* isUniqueViolation: the caller learns the seq of the winner's row.  When that
\* went with its channel in between, nothing is told and the error is rethrown.
AppendReply(p) ==
    /\ pc[p] = "reply"
    /\ LET found == FindByIdempotencyKey(req[p].user, req[p].key)
       IN  IF found = {} THEN UNCHANGED acked ELSE \E m \in found : Tell(m)
    /\ Finish(p)
    /\ UNCHANGED <<channelVars, messages, outbox, lock>>

\* The transaction has committed: the caller learns the seq of its own row.
AppendAnswer(p) ==
    /\ pc[p] = "answer"
    /\ Tell([sender |-> req[p].user, key |-> req[p].key, seq |-> tx[p].seq])
    /\ Finish(p)
    /\ UNCHANGED <<channelVars, messages, outbox, lock>>
-------------------------------------------------------------------------------
\* The commands over an existing message.  Each reads the row first, outside
\* the transaction that will change it.

Command(op, s, on) == [op |-> op, seq |-> s, on |-> on]

\* canEditMessage refuses a tombstone.
EditLoad(p) ==
    \E m \in messages : ~m.deleted /\ Accept(p, Command("edit", m.seq, TRUE), "touch")

\* canDeleteMessage asks who, never whether it is a tombstone already.
DeleteLoad(p) ==
    \E m \in messages : Accept(p, Command("delete", m.seq, TRUE), "touch")

PinLoad(p) ==
    \E m \in messages, on \in BOOLEAN : Accept(p, Command("pin", m.seq, on), "touch")

ReactLoad(p) ==
    \E m \in messages : ~m.deleted /\ Accept(p, Command("react", m.seq, TRUE), "touch")

\* nextRevision: UPDATE channels SET last_rev = last_rev + 1, inside the
\* transaction of the change.
NextRevision(p) ==
    /\ pc[p] = "touch"
    /\ alive
    /\ lock = Nobody
    /\ lock' = p
    /\ tx' = [tx EXCEPT ![p] = [seq |-> req[p].seq, rev |-> lastRev + 1]]
    /\ Goto(p, "write")
    /\ UNCHANGED <<channelVars, messages, outbox, req, acked>>

\* What every change commits: the row with its revision, and the lock let go.
CommitChange(p, change(_)) ==
    /\ pc[p] = "write"
    /\ UpdateRow(tx[p].seq, change)
    /\ lastRev' = tx[p].rev
    /\ lock' = Nobody
    /\ UNCHANGED <<alive, lastSeq, acked>>

\* Mutant: an edit that does not advance the row's rev.
EditCommitNoRev(p) ==
    /\ req[p].op = "edit"
    /\ CommitChange(p, LAMBDA m : [m EXCEPT !.body = "edited"])
    /\ Emit("message.edited", tx[p].seq)
    /\ Finish(p)

EditCommit(p) ==
    /\ req[p].op = "edit"
    /\ CommitChange(p, LAMBDA m : [m EXCEPT !.body = "edited", !.rev = tx[p].rev])
    /\ Emit("message.edited", tx[p].seq)
    /\ Finish(p)

\* applySoftDelete, reached from softDeleteMessage and removeReportedMessage.
DeleteCommit(p) ==
    /\ req[p].op = "delete"
    /\ CommitChange(p, LAMBDA m : [m EXCEPT !.deleted = TRUE, !.pinned = FALSE,
                                            !.body = "null", !.rev = tx[p].rev])
    /\ Emit("message.deleted", tx[p].seq)
    /\ Finish(p)

\* touchMessage, at the end of toggleReaction's transaction.
ReactCommit(p) ==
    /\ req[p].op = "react"
    /\ CommitChange(p, LAMBDA m : [m EXCEPT !.rev = tx[p].rev])
    /\ Emit("message.reacted", tx[p].seq)
    /\ Finish(p)

\* setPinned writes its outbox row after the transaction, on its own.
PinCommit(p) ==
    /\ req[p].op = "pin"
    /\ CommitChange(p, LAMBDA m : [m EXCEPT !.pinned = req[p].on, !.rev = tx[p].rev])
    /\ Goto(p, "announce")
    /\ UNCHANGED <<outbox, req, tx>>

PinAnnounce(p) ==
    /\ pc[p] = "announce"
    /\ Emit("message.pinned", req[p].seq)
    /\ Finish(p)
    /\ UNCHANGED <<channelVars, messages, lock, acked>>
-------------------------------------------------------------------------------
\* ChannelGoneError from the append; `null' from nextRevision, answered
\* not_found by the commands.
ChannelGone(p) ==
    /\ pc[p] \in {"bump", "touch"}
    /\ ~alive
    /\ Finish(p)
    /\ UNCHANGED <<channelVars, messages, outbox, lock, acked>>

\* The process dies or its connection drops: PostgreSQL rolls back what was
\* open and frees the row; what had committed stays.
Crash(p) ==
    /\ pc[p] # "idle"
    /\ Finish(p)
    /\ lock' = IF lock = p THEN Nobody ELSE lock
    /\ UNCHANGED <<channelVars, messages, outbox, acked>>

\* DELETE FROM channels: it waits for the row like everyone else, and the
\* messages cascade.
DropChannel ==
    /\ alive
    /\ lock = Nobody
    /\ alive' = FALSE
    /\ messages' = {}
    /\ UNCHANGED <<lastSeq, lastRev, outbox, lock, pc, req, tx, acked>>

Work(p) == \/ AppendBump(p) \/ AppendCommit(p) \/ AppendConflict(p) \/ AppendReply(p)
           \/ AppendAnswer(p) \/ NextRevision(p) \/ EditCommit(p) \/ DeleteCommit(p) \/ ReactCommit(p)
           \/ PinCommit(p) \/ PinAnnounce(p) \/ ChannelGone(p)

Arrive(p) == \/ SendDeduplicated(p)
             \/ \E u \in Users, k \in Keys : SendStart(p, u, k)
             \/ EditLoad(p) \/ DeleteLoad(p) \/ PinLoad(p) \/ ReactLoad(p)

Next == \/ \E p \in Procs : Arrive(p) \/ Work(p) \/ Crash(p)
        \/ DropChannel

Spec == Init /\ [][Next]_vars
-------------------------------------------------------------------------------
TypeOK ==
    /\ alive \in BOOLEAN
    /\ lastSeq \in Nat /\ lastRev \in Nat
    /\ messages \subseteq Message
    /\ outbox \in Seq(Event)
    /\ lock \in Procs \union {Nobody}
    /\ pc \in [Procs -> {"idle", "bump", "insert", "answer", "reply", "touch", "write", "announce"}]
    /\ req \in [Procs -> Request]
    /\ tx \in [Procs -> [seq: Nat, rev: Nat]]
    /\ acked \subseteq [user: Users, key: Keys, seq: Nat \ {0}]

\* The seqs of the log are exactly 1..last_seq, one row each: no send that
\* lost a race, failed or crashed leaves a hole a client would sync after.
Gapless ==
    alive => /\ {m.seq : m \in messages} = 1..lastSeq
             /\ \A m, n \in messages : m.seq = n.seq => m = n

\* However often and however concurrently a client id is sent, one row of the
\* channel carries it.
OneRowPerKey ==
    \A m, n \in messages : m.sender = n.sender /\ m.key = n.key => m = n

\* No two rows of a channel were last changed at the same revision, and none
\* at one the channel has not committed: a page cut at any revision is exact.
RevisionsDistinct ==
    /\ \A m \in messages : m.rev <= lastRev
    /\ \A m, n \in messages : m.rev = n.rev => m = n

\* What sync rests on, all of it at once: append's counter, its unique index and
\* the revision counter neither leak nor collide, whoever races, fails or dies.
LogWellFormed == Gapless /\ OneRowPerKey /\ RevisionsDistinct

\* Every answer a sender was ever given for one client id names the same seq,
\* and the row is there while the channel is.
AcksAgree ==
    /\ \A a, b \in acked : a.user = b.user /\ a.key = b.key => a.seq = b.seq
    /\ alive => \A a \in acked :
                    \E m \in messages : m.sender = a.user /\ m.key = a.key /\ m.seq = a.seq

Created == {i \in DOMAIN outbox : outbox[i].type = "message.created"}

\* message.created events stand in the partition in seq order, exactly one
\* per row ever written: a fan-out can neither miss a message nor reorder two.
CreatedEventsMirrorLog ==
    /\ {outbox[i].seq : i \in Created} = 1..lastSeq
    /\ \A i, j \in Created : i < j => outbox[i].seq < outbox[j].seq

\* A commit that changes what a reader can see puts the row's revision above
\* every revision any earlier reader can have used as its mark.
RevisionIsWatermark ==
    [][\A m \in messages' : m \notin messages => m.rev > lastRev]_vars

\* A message keeps its address and its author, and a tombstone stays one.
LogIsAppendOnly ==
    [][alive' => \A m \in messages : \E n \in messages' :
         /\ n.seq = m.seq /\ n.sender = m.sender /\ n.key = m.key
         /\ m.deleted => n.deleted]_vars

\* The log the rest of the system may rely on.
Abstract == INSTANCE ChannelLog
              WITH entries <- {[seq |-> m.seq, sender |-> m.sender, key |-> m.key,
                                rev |-> m.rev] : m \in messages},
                   top <- lastSeq, rev <- lastRev, open <- alive

ImplementsChannelLog == Abstract!Spec
===============================================================================
