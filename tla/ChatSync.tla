-------------------------------- MODULE ChatSync --------------------------------
(***************************************************************************)
(* One client's copy of one channel (packages/client-core): frames from the *)
(* gateway applied under the gap rule, reconciliation with GET /sync by     *)
(* revision, the repair of holes by seq, a store and a watermark that       *)
(* survive the app.  Several reconciliations run at once: one per gap, per  *)
(* opened chat, per reconnect and per return to the foreground.             *)
(*                                                                          *)
(* The server is its channel log (MessageLog): each row has the revision of *)
(* its last change, and that revision stands for what the row shows.  The   *)
(* fields an update can carry are alike and independent; the model has one. *)
(***************************************************************************)
EXTENDS Integers, FiniteSets, FiniteSetsExt, Sequences

CONSTANTS Fetches,    \* bound: reconciliations at once
          PageSize,   \* SYNC_PAGE_SIZE
          MaxSeq, MaxRev, \* bounds: messages, and revisions
          MaxFlight,  \* bound: frames under way to the client
          MaxBreaks   \* bound: drops, kills of the app, failed requests, sends repeated

ASSUME ChatSyncAssumption ==
    /\ PageSize \in Nat \ {0} /\ MaxSeq \in Nat /\ MaxRev \in Nat
    /\ MaxFlight \in Nat \ {0} /\ MaxBreaks \in Nat

VARIABLES log,     \* the server's rows by seq: revision when sent, and when last changed
          lastRev, \* channels.last_rev
          news, updates, \* publications not made yet: of envelopes, and of changed seqs
          online, frames, \* the socket, and what is under way on it
          held,    \* the store: what each seq shows, 0 when it is not held
          mark,    \* the store: syncMark
          fetch,   \* per reconciliation: where it is, and its locals
          breaks,
          shown    \* history: the newest revision each seq was ever stored with

server == <<log, lastRev, news, updates>>
client == <<held, mark, fetch, shown>>
vars == <<server, online, frames, client, breaks>>

Seqs == 1..MaxSeq
Idle == [step |-> "idle", repairing |-> FALSE, cursor |-> 0, page |-> {}, more |-> FALSE]

Init == /\ log = <<>> /\ lastRev = 0
        /\ news = {} /\ updates = {}
        /\ online = FALSE /\ frames = <<>>
        /\ held = [s \in Seqs |-> 0] /\ mark = 0
        /\ fetch = [f \in Fetches |-> Idle]
        /\ breaks = 0
        /\ shown = [s \in Seqs |-> 0]
-------------------------------------------------------------------------------
\* The server: a message is stored, or changes.
AppendMessage ==
    /\ Len(log) < MaxSeq /\ lastRev < MaxRev
    /\ lastRev' = lastRev + 1
    /\ log' = Append(log, [sent |-> lastRev', rev |-> lastRev'])
    /\ news' = news \union {[seq |-> Len(log'), at |-> lastRev']}
    /\ UNCHANGED <<updates, online, frames, client, breaks>>

ChangeMessage(s) ==
    /\ lastRev < MaxRev
    /\ lastRev' = lastRev + 1
    /\ log' = [log EXCEPT ![s].rev = lastRev']
    /\ updates' = updates \union {s}
    /\ UNCHANGED <<news, online, frames, client, breaks>>

\* A retried send is published again, as its envelope was when it was sent.
Resend(s) ==
    /\ breaks < MaxBreaks
    /\ breaks' = breaks + 1
    /\ news' = news \union {[seq |-> s, at |-> log[s].sent]}
    /\ UNCHANGED <<log, lastRev, updates, online, frames, client>>

\* Redis, or a socket that is not attached, may lose what is published.
Deliver(frame) ==
    \/ online /\ Len(frames) < MaxFlight /\ frames' = Append(frames, frame)
    \/ UNCHANGED frames

PublishNew(n) ==
    /\ news' = news \ {n}
    /\ Deliver([t |-> "new", seq |-> n.seq, at |-> n.at])
    /\ UNCHANGED <<log, lastRev, updates, online, client, breaks>>

\* The worker reads the row again when it publishes a change.
PublishUpdate(s) ==
    /\ updates' = updates \ {s}
    /\ Deliver([t |-> "update", seq |-> s, at |-> log[s].rev])
    /\ UNCHANGED <<log, lastRev, news, online, client, breaks>>
-------------------------------------------------------------------------------
\* The store.
Kept == {s \in Seqs : held[s] # 0}
LocalMax == Max(Kept \union {0})
Holes == {s \in Seqs : s \notin Kept /\ s < LocalMax /\ \E k \in Kept : k < s}

\* Rows stored: they replace what was held.
Upsert(rows) ==
    /\ held' = [s \in Seqs |-> IF \E r \in rows : r.seq = s
                               THEN (CHOOSE r \in rows : r.seq = s).at ELSE held[s]]
    /\ shown' = [s \in Seqs |-> Max({shown[s], held'[s]})]

Put(f, state) == fetch' = [fetch EXCEPT ![f] = state]

\* A syncChannels begins: the app came to the foreground, opened the chat, or
\* could not read a frame.
Start(f) ==
    /\ fetch[f] = Idle
    /\ Put(f, [Idle EXCEPT !.step = "begin"])
    /\ UNCHANGED <<server, online, frames, held, mark, shown, breaks>>

\* applyIncoming: stored whatever the decision; a gap makes a sync begin.
ReceiveNew ==
    /\ frames # <<>> /\ Head(frames).t = "new"
    /\ Upsert({[seq |-> Head(frames).seq, at |-> Head(frames).at]})
    /\ IF Head(frames).seq <= LocalMax + 1
       THEN UNCHANGED fetch
       ELSE \E f \in Fetches : fetch[f] = Idle /\ Put(f, [Idle EXCEPT !.step = "begin"])
    /\ frames' = Tail(frames)
    /\ UNCHANGED <<server, online, mark, breaks>>

\* msg.update: store.patch, of a message that is held.
ReceiveUpdate ==
    /\ frames # <<>> /\ Head(frames).t = "update"
    /\ IF Head(frames).seq \in Kept
       THEN Upsert({[seq |-> Head(frames).seq, at |-> Head(frames).at]})
       ELSE UNCHANGED <<held, shown>>
    /\ frames' = Tail(frames)
    /\ UNCHANGED <<server, online, mark, fetch, breaks>>
-------------------------------------------------------------------------------
\* One reconciliation.
AskSync == [Idle EXCEPT !.step = "ask", !.cursor = mark]
AskRepair(since) == [Idle EXCEPT !.step = "ask", !.repairing = TRUE, !.cursor = since]

\* repairGaps first, from below the lowest hole.
Begin(f) ==
    /\ fetch[f].step = "begin"
    /\ Put(f, IF Holes = {} THEN AskSync ELSE AskRepair(Min(Holes) - 1))
    /\ UNCHANGED <<server, online, frames, held, mark, shown, breaks>>

\* Mutant: the reconciling query pages by seq, as the repairing one does.
PageBySeq(repairing, cursor) ==
    LET above == {s \in DOMAIN log : IF repairing THEN s > cursor ELSE log[s].rev > cursor}
    IN  [rows |-> {s \in above : Cardinality({o \in above : o < s}) < PageSize},
         more |-> Cardinality(above) > PageSize]

\* Mutant: reconciling asks for what is above the highest seq held.
PageAboveLocalMax(repairing, cursor) ==
    LET above == {s \in DOMAIN log : s > IF repairing THEN cursor ELSE LocalMax}
    IN  [rows |-> {s \in above : Cardinality({o \in above : o < s}) < PageSize},
         more |-> Cardinality(above) > PageSize]

\* syncManySince: the first rows above the cursor, by seq or by revision.
Page(repairing, cursor) ==
    LET key(s) == IF repairing THEN s ELSE log[s].rev
        above == {s \in DOMAIN log : key(s) > cursor}
    IN  [rows |-> {s \in above : Cardinality({o \in above : key(o) < key(s)}) < PageSize},
         more |-> Cardinality(above) > PageSize]

\* The server reads the page; the answer is under way.
ReadPage(f) ==
    /\ fetch[f].step = "ask"
    /\ LET page == Page(fetch[f].repairing, fetch[f].cursor)
       IN  Put(f, [fetch[f] EXCEPT !.step = "apply", !.more = page.more,
                                   !.page = {[seq |-> s, at |-> log[s].rev] : s \in page.rows}])
    /\ UNCHANGED <<server, online, frames, held, mark, shown, breaks>>

Highest(page) == Max({r.seq : r \in page})

\* The page goes into the store.  A repair asks for the next one from its last
\* row; when it ends, or has nothing, the sync proper follows from the mark.
StorePage(f) ==
    /\ fetch[f].step = "apply" /\ fetch[f].page # {}
    /\ Upsert(fetch[f].page)
    /\ Put(f, IF ~fetch[f].repairing THEN [fetch[f] EXCEPT !.step = "mark"]
              ELSE IF fetch[f].more THEN AskRepair(Highest(fetch[f].page)) ELSE AskSync)
    /\ UNCHANGED <<server, online, frames, mark, breaks>>

EmptyPage(f) ==
    /\ fetch[f].step = "apply" /\ fetch[f].page = {}
    /\ Put(f, IF fetch[f].repairing THEN AskSync ELSE Idle)
    /\ UNCHANGED <<server, online, frames, held, mark, shown, breaks>>

MaxRevOf(page) == Max({r.at : r \in page})

\* setSyncMark is monotonic; this loop pages on from its own mark.
SetMark(f) ==
    /\ fetch[f].step = "mark"
    /\ LET reached == MaxRevOf(fetch[f].page)
       IN  /\ mark' = Max({mark, reached})
           /\ Put(f, IF fetch[f].more THEN [Idle EXCEPT !.step = "ask", !.cursor = reached]
                                      ELSE Idle)
    /\ UNCHANGED <<server, online, frames, held, shown, breaks>>

\* A request fails, or a write does: a repair gives way to the sync, a sync throws.
Fail(f) ==
    /\ fetch[f].step \in {"ask", "apply", "mark"} /\ breaks < MaxBreaks
    /\ breaks' = breaks + 1
    /\ Put(f, IF fetch[f].repairing THEN AskSync ELSE Idle)
    /\ UNCHANGED <<server, online, frames, held, mark, shown>>

Reconcile(f) == Begin(f) \/ ReadPage(f) \/ StorePage(f) \/ EmptyPage(f) \/ SetMark(f)
-------------------------------------------------------------------------------
\* The socket closes; requests go on.
Drop == /\ online /\ breaks < MaxBreaks
        /\ breaks' = breaks + 1
        /\ online' = FALSE /\ frames' = <<>>
        /\ UNCHANGED <<server, client>>

\* The app is killed: only the store is left.
Kill == /\ breaks < MaxBreaks
        /\ breaks' = breaks + 1
        /\ online' = FALSE /\ frames' = <<>>
        /\ fetch' = [f \in Fetches |-> Idle]
        /\ UNCHANGED <<server, held, mark, shown>>

\* reconnect: connect, subscribe, syncAll.
Reconnect ==
    /\ ~online
    /\ online' = TRUE
    /\ \E f \in Fetches : fetch[f] = Idle /\ Put(f, [Idle EXCEPT !.step = "begin"])
    /\ UNCHANGED <<server, frames, held, mark, shown, breaks>>

Next == \/ AppendMessage
        \/ \E s \in DOMAIN log : ChangeMessage(s) \/ Resend(s)
        \/ \E n \in news : PublishNew(n)
        \/ \E s \in updates : PublishUpdate(s)
        \/ ReceiveNew \/ ReceiveUpdate
        \/ \E f \in Fetches : Start(f) \/ Reconcile(f) \/ Fail(f)
        \/ Drop \/ Kill \/ Reconnect

Spec == Init /\ [][Next]_vars

\* A dropped socket reconnects, the member comes back to the app, requests end.
FairSpec == /\ Spec
            /\ WF_vars(Reconnect) /\ WF_vars(ReceiveNew) /\ WF_vars(ReceiveUpdate)
            /\ \A f \in Fetches : WF_vars(Start(f)) /\ WF_vars(Reconcile(f))
-------------------------------------------------------------------------------
Rows == [seq: Seqs, at: 1..MaxRev]

TypeOK ==
    /\ log \in Seq([sent: 1..MaxRev, rev: 1..MaxRev]) /\ Len(log) <= MaxSeq
    /\ lastRev \in 0..MaxRev
    /\ news \subseteq Rows /\ updates \subseteq Seqs
    /\ online \in BOOLEAN
    /\ frames \in Seq([t: {"new", "update"}, seq: Seqs, at: 1..MaxRev])
    /\ held \in [Seqs -> 0..MaxRev] /\ mark \in 0..MaxRev
    /\ fetch \in [Fetches -> [step: {"idle", "begin", "ask", "apply", "mark"},
                              repairing: BOOLEAN, cursor: 0..Max({MaxRev, MaxSeq}),
                              page: SUBSET Rows, more: BOOLEAN]]
    /\ breaks \in 0..MaxBreaks
    /\ shown \in [Seqs -> 0..MaxRev]

\* The watermark never claims what the client was not told: a row whose last
\* change is at or below it has been stored as it is now, whatever pages raced,
\* failed or were cut off between the rows and the mark.
NothingSkipped == \A s \in DOMAIN log : log[s].rev <= mark => shown[s] = log[s].rev

\* However frames are lost, sockets drop, requests fail and the app is killed, the
\* client is level with the server again and again: after the last of the bounded
\* writes, every change of every message has reached the store.
Behind(s) == s \in DOMAIN log /\ shown[s] < log[s].rev
EventuallyShown == []<>(\A s \in Seqs : ~Behind(s))

Settled == /\ online /\ frames = <<>> /\ news = {} /\ updates = {}
           /\ \A f \in Fetches : fetch[f] = Idle

\* "The mark is now a channel REVISION, which an append and a mutation both
\* advance, so one question covers both" (syncChannel): a client that reached
\* the server's revision shows what the server has.
CurrentAtMark ==
    Settled /\ mark = lastRev => \A s \in DOMAIN log : held[s] = log[s].rev
===============================================================================
