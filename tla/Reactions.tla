------------------------------- MODULE Reactions -------------------------------
(***************************************************************************)
(* The reactions of one message: toggleReaction of domain/reactions.ts      *)
(* against applySoftDelete of domain/send-message.ts, statement by          *)
(* statement under READ COMMITTED, and the worker's message.reacted and     *)
(* message.deleted handlers that tell the connected clients.                *)
(*                                                                          *)
(* A toggle writes message_reactions first and takes the channel row in     *)
(* touchMessage; a delete takes the channel row first.  PostgreSQL breaks   *)
(* the cycle that makes possible by aborting one of the two.                *)
(***************************************************************************)
EXTENDS Integers, FiniteSets, Sequences

CONSTANTS Users, Emojis, \* whose reactions, and which
          Procs,         \* requests in progress at once
          Nobody,        \* the holder of a free channel row
          MaxDistinct,   \* MAX_DISTINCT_REACTIONS
          MaxRequests    \* bound: requests accepted, and redeliveries of events

ASSUME ReactionsAssumption == /\ Nobody \notin Procs \union Users /\ IsFiniteSet(Procs)
                              /\ MaxDistinct \in Nat \ {0} /\ MaxRequests \in Nat

VARIABLES rows,      \* message_reactions of the message, as committed
          deleted, rev,
          lock,      \* who holds the channel row
          pc, req,
          removed, added, \* per request: rows its open transaction took and put
          outbox,    \* events not processed yet, in id order
          snapshot,  \* what the running handler read
          shown,     \* what the last published update made clients show
          requests, redelivered

dbVars == <<rows, deleted, rev>>
workerVars == <<outbox, snapshot, shown, redelivered>>
vars == <<rows, deleted, rev, lock, pc, req, removed, added, workerVars, requests>>

Keys == [user: Users, emoji: Emojis]
SoftDelete == [user |-> Nobody, emoji |-> Nobody]
NoSnapshot == {SoftDelete}
Steps == {"idle", "remove", "count", "insert", "touch", "commit", "lock", "clear", "cleared"}

Init == /\ rows = {} /\ deleted = FALSE /\ rev = 0
        /\ lock = Nobody
        /\ pc = [p \in Procs |-> "idle"]
        /\ req = [p \in Procs |-> SoftDelete]
        /\ removed = [p \in Procs |-> {}] /\ added = [p \in Procs |-> {}]
        /\ outbox = <<>> /\ snapshot = NoSnapshot /\ shown = {}
        /\ requests = 0 /\ redelivered = 0
-------------------------------------------------------------------------------
Goto(p, at) == pc' = [pc EXCEPT ![p] = at]

\* Commit or rollback: locks free, locals gone.
End(p) == /\ Goto(p, "idle")
          /\ req' = [req EXCEPT ![p] = SoftDelete]
          /\ removed' = [removed EXCEPT ![p] = {}]
          /\ added' = [added EXCEPT ![p] = {}]
          /\ lock' = IF lock = p THEN Nobody ELSE lock

Accept(p, r, at) ==
    /\ pc[p] = "idle" /\ requests < MaxRequests
    /\ requests' = requests + 1
    /\ req' = [req EXCEPT ![p] = r]
    /\ Goto(p, at)
    /\ UNCHANGED <<dbVars, lock, removed, added, workerVars>>

\* The row is read, and a tombstone refused, before the transaction.
ToggleStart(p, k) == ~deleted /\ Accept(p, k, "remove")
DeleteStart(p) == Accept(p, SoftDelete, "lock")

Others(p) == Procs \ {p}

\* DELETE ... RETURNING waits for a concurrent delete of the same row, and
\* finds nothing when that one commits.
RemoveRow(p) ==
    /\ pc[p] = "remove"
    /\ \A q \in Others(p) : req[p] \notin removed[q]
    /\ removed' = [removed EXCEPT ![p] = rows \intersect {req[p]}]
    /\ Goto(p, IF req[p] \in rows THEN "touch" ELSE "count")
    /\ UNCHANGED <<dbVars, lock, req, added, workerVars, requests>>

\* Mutant: the distinct count left out.
CountNothing(p) ==
    /\ pc[p] = "count"
    /\ Goto(p, "insert")
    /\ UNCHANGED <<dbVars, lock, req, removed, added, workerVars, requests>>

\* Rule R4, counted over what has committed.
OtherEmojis(p) == {k.emoji : k \in rows} \ {req[p].emoji}
Count(p) ==
    /\ pc[p] = "count"
    /\ Cardinality(OtherEmojis(p)) < MaxDistinct
    /\ Goto(p, "insert")
    /\ UNCHANGED <<dbVars, lock, req, removed, added, workerVars, requests>>

\* Mutant: a refused toggle asks again with its transaction open.
RefuseRetries(p) ==
    /\ pc[p] = "count"
    /\ Cardinality(OtherEmojis(p)) >= MaxDistinct
    /\ UNCHANGED vars

Refuse(p) ==
    /\ pc[p] = "count"
    /\ Cardinality(OtherEmojis(p)) >= MaxDistinct
    /\ End(p)
    /\ UNCHANGED <<dbVars, workerVars, requests>>

\* INSERT ... ON CONFLICT DO NOTHING waits for an open transaction that put, or
\* took, the same key.
InsertRow(p) ==
    /\ pc[p] = "insert"
    /\ \A q \in Others(p) : req[p] \notin added[q] \union removed[q]
    /\ added' = [added EXCEPT ![p] = {req[p]} \ rows]
    /\ Goto(p, "touch")
    /\ UNCHANGED <<dbVars, lock, req, removed, workerVars, requests>>

TakeChannel(p, from, to) ==
    /\ pc[p] = from /\ lock = Nobody
    /\ lock' = p
    /\ Goto(p, to)
    /\ UNCHANGED <<dbVars, req, removed, added, workerVars, requests>>

\* Mutants: a toggle that does not touch the message; one that announces only
\* what it adds.
CommitToggleUntouched(p) ==
    /\ pc[p] = "commit"
    /\ rows' = (rows \ removed[p]) \union added[p]
    /\ outbox' = Append(outbox, "message.reacted")
    /\ End(p)
    /\ UNCHANGED <<rev, deleted, snapshot, shown, redelivered, requests>>
CommitToggleAddedOnly(p) ==
    /\ pc[p] = "commit"
    /\ rows' = (rows \ removed[p]) \union added[p]
    /\ rev' = rev + 1
    /\ outbox' = IF removed[p] = {} THEN Append(outbox, "message.reacted") ELSE outbox
    /\ End(p)
    /\ UNCHANGED <<deleted, snapshot, shown, redelivered, requests>>

CommitToggle(p) ==
    /\ pc[p] = "commit"
    /\ rows' = (rows \ removed[p]) \union added[p]
    /\ rev' = rev + 1
    /\ outbox' = Append(outbox, "message.reacted")
    /\ End(p)
    /\ UNCHANGED <<deleted, snapshot, shown, redelivered, requests>>

\* The delete clears what its statement sees, waiting for rows that are being
\* taken by somebody else.
ClearRows(p) ==
    /\ pc[p] = "clear"
    /\ \A q \in Others(p) : removed[q] = {}
    /\ removed' = [removed EXCEPT ![p] = rows]
    /\ Goto(p, "cleared")
    /\ UNCHANGED <<dbVars, lock, req, added, workerVars, requests>>

CommitDelete(p) ==
    /\ pc[p] = "cleared"
    /\ rows' = rows \ removed[p]
    /\ deleted' = TRUE
    /\ rev' = rev + 1
    /\ outbox' = Append(outbox, "message.deleted")
    /\ End(p)
    /\ UNCHANGED <<snapshot, shown, redelivered, requests>>

\* PostgreSQL's deadlock detector picks either side of a cycle; the request
\* fails and is not retried.
DeadlockAbort(p) ==
    /\ \E t, d \in Procs : /\ p \in {t, d}
                           /\ pc[t] = "touch" /\ removed[t] # {}
                           /\ pc[d] = "clear" /\ lock = d
    /\ End(p)
    /\ UNCHANGED <<dbVars, workerVars, requests>>

\* The process dies: its transaction rolls back.
Crash(p) ==
    /\ pc[p] # "idle"
    /\ End(p)
    /\ UNCHANGED <<dbVars, workerVars, requests>>
-------------------------------------------------------------------------------
\* The worker, one machine, in outbox order.  message.reacted reads the set when
\* it runs; message.deleted announces an empty one without reading.
HandlerRead ==
    /\ outbox # <<>> /\ snapshot = NoSnapshot
    /\ snapshot' = IF Head(outbox) = "message.reacted" THEN rows ELSE {}
    /\ UNCHANGED <<dbVars, lock, pc, req, removed, added, outbox, shown, redelivered, requests>>

\* The event is done, or the worker dies first and it will be delivered again.
HandlerPublish ==
    /\ snapshot # NoSnapshot
    /\ shown' = snapshot
    /\ snapshot' = NoSnapshot
    /\ \/ outbox' = Tail(outbox) /\ UNCHANGED redelivered
       \/ /\ redelivered < MaxRequests
          /\ redelivered' = redelivered + 1
          /\ UNCHANGED outbox
    /\ UNCHANGED <<dbVars, lock, pc, req, removed, added, requests>>

Work(p) == \/ RemoveRow(p) \/ Count(p) \/ Refuse(p) \/ InsertRow(p)
           \/ TakeChannel(p, "touch", "commit") \/ CommitToggle(p)
           \/ TakeChannel(p, "lock", "clear") \/ ClearRows(p) \/ CommitDelete(p)
           \/ DeadlockAbort(p)

Next == \/ \E p \in Procs : \/ \E k \in Keys : ToggleStart(p, k)
                            \/ DeleteStart(p) \/ Work(p) \/ Crash(p)
        \/ HandlerRead \/ HandlerPublish

Spec == Init /\ [][Next]_vars

\* Row locks are granted in turn, and the detector runs after deadlock_timeout.
FairSpec == /\ Spec
            /\ \A p \in Procs : SF_vars(Work(p))
            /\ WF_vars(HandlerRead) /\ WF_vars(HandlerPublish)
-------------------------------------------------------------------------------
TypeOK ==
    /\ rows \subseteq Keys
    /\ deleted \in BOOLEAN /\ rev \in Nat
    /\ lock \in Procs \union {Nobody}
    /\ pc \in [Procs -> Steps]
    /\ req \in [Procs -> Keys \union {SoftDelete}]
    /\ removed \in [Procs -> SUBSET Keys] /\ added \in [Procs -> SUBSET Keys]
    /\ outbox \in Seq({"message.reacted", "message.deleted"})
    /\ snapshot \in (SUBSET Keys) \union {NoSnapshot} /\ shown \subseteq Keys
    /\ requests \in 0..MaxRequests /\ redelivered \in 0..MaxRequests

Distinct == {k.emoji : k \in rows}

\* What a reader of the message sees never changes without its revision moving,
\* and a delete leaves nothing of what was committed before it: sync cannot miss
\* a reaction, nor keep one on a tombstone.
EveryChangeIsARevision ==
    [][/\ rows' # rows => rev' > rev
       /\ deleted' /\ ~deleted => rows' = {} /\ rev' > rev]_vars

\* Requests racing past the cap overshoot it by at most one each: the update
\* frame stays bounded.
CapOvershoot == Cardinality(Distinct) < MaxDistinct + Cardinality(Procs)

\* Once every event is processed, clients show the committed reactions, however
\* events were delivered again.
ClientsConverge ==
    outbox = <<>> => shown = rows

\* A toggle and a delete that wait for each other do not wait for ever.
RequestsEnd == \A p \in Procs : pc[p] # "idle" ~> pc[p] = "idle"
===============================================================================
