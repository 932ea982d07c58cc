--------------------------- MODULE Notifications ---------------------------
(***************************************************************************)
(* How a message of one channel reaches phones: the message.created and    *)
(* message.edited handlers write inbox rows and defer pushes as outbox     *)
(* rows; a deferred push is evaluated against the read cursors, the mutes, *)
(* the devices and the delivery ledger, sent, and recorded.  One worker    *)
(* runs one row at a time, each partition in id order (InOrder of          *)
(* OutboxDrain), and may fail or die at any await, after which the row is  *)
(* run again from its start.  Meanwhile people read, clear, mute, sign in  *)
(* and out, and edit.                                                      *)
(*                                                                         *)
(* Members are everybody in the channel but the sender.                    *)
(***************************************************************************)
EXTENDS Integers, Sequences, FiniteSets

CONSTANTS
  Users,
  Devices,        \* device rows: a token that comes back after a sign-out gets a fresh one
  Gone,           \* the owner of a deleted row
  Owners,         \* whose the devices may be at first
  MaxSeq,         \* messages
  MaxFailures,    \* handler failures, deaths of the worker and troubles of the provider
  MaxAttempts,    \* MAX_ATTEMPTS of the drain
  MaxMoves        \* sign-ins, sign-outs, mutes, edits, opened and cleared chats

ASSUME NotificationsAssumption ==
  /\ Gone \notin Users /\ Owners \subseteq [Devices -> Users]
  /\ {MaxSeq, MaxFailures, MaxMoves} \subseteq Nat /\ MaxAttempts \in Nat \ {0}

VARIABLES
  members,        \* who is in the channel beside the sender
  direct,         \* the channel is a conversation of two, not a group
  kind,           \* kind[s]: what message s is; its length is last_seq
  named,          \* named[s]: message_mentions of s
  outbox,         \* the channel's events and the deferred pushes, by id
  inbox,          \* notification rows
  ledger,         \* push_deliveries
  owner, dead,    \* devices: whose they are, and whose token the provider rejected
  muted, cursor,  \* channel_mutes and read_cursors
  opening,        \* the openChats and clearChannels in progress
  job,            \* the row the worker is running
  failures, moves,
  buzzed,         \* history: how often a user's phone rang for a message
  unrecorded,     \* history: which of those the ledger never heard of
  passed,         \* history: <<s, u>> u opened or cleared the chat at s or beyond, and since then
                  \* no clear took it back
  touched,        \* history: whose mention an edit added or removed
  excused         \* history: <<s, u>> found read, muted, or without a phone

data == <<members, direct, kind, named, inbox, ledger, owner, dead, muted, cursor>>
history == <<failures, moves, buzzed, unrecorded, passed, touched, excused>>
vars == <<data, outbox, opening, job, history>>

Seqs == 1..Len(kind)
Ids == 1..Len(outbox)
None == [id |-> 0]

\* An outbox row of the channel, or of the channel's push partition.  A push may run at
\* any later time: the model does not count its eight seconds.
Event(type, s, to) ==
  [type |-> type, seq |-> s, key |-> 0, to |-> to, status |-> "ready", attempts |-> 0]
Deferred(s, key, to) ==
  [type |-> "push", seq |-> s, key |-> key, to |-> to, status |-> "ready", attempts |-> 0]

\* Banding keeps the kinds of one event, and the events, apart.
Slots == 4
NotificationKeyOfEvent(id, slot) == id * Slots
NotificationKey(id, slot) == id * Slots + slot

Init ==
  /\ \/ direct = FALSE /\ members = Users
     \/ direct = TRUE /\ members \in {{u} : u \in Users}
  /\ kind = <<>> /\ named = <<>> /\ outbox = <<>>
  /\ inbox = {} /\ ledger = {} /\ dead = {} /\ muted = {}
  /\ owner \in Owners
  /\ cursor = [u \in Users |-> 0]
  /\ opening = {}
  /\ job = None
  /\ failures = 0 /\ moves = 0
  /\ buzzed = [s \in 1..MaxSeq |-> [u \in Users |-> [d \in Devices |-> 0]]]
  /\ unrecorded = buzzed
  /\ passed = {} /\ touched = {} /\ excused = {}

(***************************************************************************)
(* What members do.                                                        *)
(***************************************************************************)

\* A message commits with its mentions and its event.
Post ==
  /\ Len(kind) < MaxSeq
  /\ \E k \in {"text", "announcement"}, n \in SUBSET members :
       /\ direct => k = "text"
       /\ kind' = Append(kind, k)
       /\ named' = Append(named, n)
       /\ outbox' = Append(outbox, Event("created", Len(kind) + 1, {}))
  /\ UNCHANGED <<members, direct, inbox, ledger, owner, dead, muted, cursor, opening, job, history>>

Moved == moves < MaxMoves /\ moves' = moves + 1

\* An edit replaces the mentions; its event carries the names it added.
Edit(s) ==
  /\ Moved
  /\ \E n \in SUBSET members :
       /\ n # named[s]
       /\ named' = [named EXCEPT ![s] = n]
       /\ outbox' = Append(outbox, Event("edited", s, n \ named[s]))
       /\ touched' = touched \cup {<<s, u>> : u \in (n \ named[s]) \cup (named[s] \ n)}
  /\ UNCHANGED <<members, direct, kind, inbox, ledger, owner, dead, muted, cursor, opening, job,
                 failures, buzzed, unrecorded, passed, excused>>

\* openChat (opening the chat, or msg.read whatever number it carries) reads the
\* channel's last seq and the cursor ...
OpenChat(u) ==
  /\ Moved
  /\ opening' = opening \cup {[user |-> u, move |-> moves, upTo |-> Len(kind), from |-> cursor[u], step |-> "advance"]}
  /\ UNCHANGED <<data, outbox, job, failures, buzzed, unrecorded, passed, touched, excused>>

Greatest(a, b) == IF a >= b THEN a ELSE b

\* Mutant: a report that comes late takes the cursor back.
AdvancedOutright(u, upTo) == [cursor EXCEPT ![u] = upTo]

Advanced(u, upTo) == [cursor EXCEPT ![u] = Greatest(@, upTo)]

\* ... advances the cursor ...
AdvanceReadCursor(o) ==
  /\ o.step = "advance"
  /\ cursor' = Advanced(o.user, o.upTo)
  /\ passed' = passed \cup {<<s, o.user>> : s \in 1..o.upTo}
  /\ opening' = (opening \ {o}) \cup (IF o.upTo > o.from THEN {[o EXCEPT !.step = "note"]} ELSE {})
  /\ UNCHANGED <<members, direct, kind, named, inbox, ledger, owner, dead, muted, outbox, job, failures,
                 moves, buzzed, unrecorded, touched, excused>>

\* Rows are unique by key and recipient (ON CONFLICT DO NOTHING).
WithRows(key, type, to) ==
  inbox \cup {[key |-> key, to |-> u, type |-> type] :
                u \in {v \in to : \A row \in inbox : row.key # key \/ row.to # v}}

\* ... and notes that the reader caught up, under a negative key.
NoteCaughtUp(o) ==
  /\ o.step = "note"
  /\ inbox' = WithRows(-o.upTo, "chat_caught_up", {o.user})
  /\ opening' = opening \ {o}
  /\ UNCHANGED <<members, direct, kind, named, ledger, owner, dead, muted, cursor, outbox, job, history>>

\* clearChannel reads the last seq as well, and writes it whatever the cursor holds by then.
ClearChat(u) ==
  /\ Moved
  /\ opening' = opening \cup {[user |-> u, move |-> moves, upTo |-> Len(kind), from |-> cursor[u], step |-> "clear"]}
  /\ UNCHANGED <<data, outbox, job, failures, buzzed, unrecorded, passed, touched, excused>>

ClearCommit(o) ==
  /\ o.step = "clear"
  /\ cursor' = [cursor EXCEPT ![o.user] = o.upTo]
  /\ passed' = {p \in passed : p[2] # o.user} \cup {<<s, o.user>> : s \in 1..o.upTo}
  /\ opening' = opening \ {o}
  /\ UNCHANGED <<members, direct, kind, named, inbox, ledger, owner, dead, muted, outbox, job, failures,
                 moves, buzzed, unrecorded, touched, excused>>

\* A row changes hands with its deliveries: its new owner may not be rung for what it
\* already got.
RegisterDevice(d, u) ==
  /\ Moved
  /\ owner[d] # Gone /\ (owner[d] # u \/ d \in dead)
  /\ owner' = [owner EXCEPT ![d] = u]
  /\ dead' = dead \ {d}
  /\ excused' = excused \cup {<<s, u>> : s \in Seqs}
  /\ UNCHANGED <<members, direct, kind, named, inbox, ledger, muted, cursor, outbox, opening, job,
                 failures, buzzed, unrecorded, passed, touched>>

\* Signing out deletes the device and, by cascade, its deliveries.
UnregisterDevice(d) ==
  /\ Moved
  /\ owner[d] \in Users
  /\ owner' = [owner EXCEPT ![d] = Gone]
  /\ dead' = dead \ {d}
  /\ ledger' = {entry \in ledger : entry[2] # d}
  /\ UNCHANGED <<members, direct, kind, named, inbox, muted, cursor, outbox, opening, job,
                 failures, buzzed, unrecorded, passed, touched, excused>>

ToggleMute(u) ==
  /\ Moved
  /\ muted' = IF u \in muted THEN muted \ {u} ELSE muted \cup {u}
  /\ UNCHANGED <<members, direct, kind, named, inbox, ledger, owner, dead, cursor, outbox, opening, job,
                 failures, buzzed, unrecorded, passed, touched, excused>>

(***************************************************************************)
(* The worker takes a row that nothing earlier of its partition holds up.  *)
(***************************************************************************)
Partition(i) == outbox[i].type = "push"
Settled(i) == outbox[i].status \in {"done", "parked"}
Claimable(i) ==
  /\ outbox[i].status = "ready"
  /\ \A j \in 1..(i - 1) : Partition(j) = Partition(i) => Settled(j)

Tell(slot, type, to) == [do |-> "rows", slot |-> slot, type |-> type, to |-> to]
Push(slot, to) == [do |-> "push", slot |-> slot, type |-> "push", to |-> to]

ToldOnce(s, n) ==
  (IF kind[s] = "announcement" THEN <<Tell(0, "announcement", members), Push(0, members \ n)>> ELSE <<>>)
  \o (IF n # {} THEN <<Tell(1, "mentioned", n)>> ELSE <<>>)
  \o (IF kind[s] = "text" THEN <<Push(IF direct THEN 2 ELSE 3, members)>> ELSE <<>>)

\* onMessageCreated: the audience of each kind, and who is told by name instead.
CreatedPlan(s, n) ==
  (IF kind[s] = "announcement"
     THEN <<Tell(0, "announcement", members), Push(0, members \ n)>> ELSE <<>>)
  \o (IF direct THEN <<Push(2, members)>> ELSE <<>>)
  \o (IF n # {} THEN <<Tell(1, "mentioned", n), Push(1, n)>> ELSE <<>>)
  \o (IF ~direct /\ kind[s] = "text" THEN <<Push(3, members \ n)>> ELSE <<>>)

\* message.edited, after it has published the change.
EditedPlan(added) ==
  IF added = {} THEN <<>> ELSE <<Tell(0, "mentioned", added), Push(0, added)>>

\* A handler starts: it reads who is named now.
Handle(i) ==
  /\ job = None /\ Claimable(i) /\ outbox[i].type # "push"
  /\ job' = [id |-> i, step |-> "plan",
             todo |-> IF outbox[i].type = "created"
                        THEN CreatedPlan(outbox[i].seq, named[outbox[i].seq])
                        ELSE EditedPlan(outbox[i].to)]
  /\ UNCHANGED <<data, outbox, opening, history>>

Planned == job # None /\ job.step = "plan" /\ job.todo # <<>>
Next1 == job' = [job EXCEPT !.todo = Tail(@)]

WriteNotifications ==
  /\ Planned /\ Head(job.todo).do = "rows"
  /\ inbox' = WithRows(NotificationKey(job.id, Head(job.todo).slot), Head(job.todo).type,
                       Head(job.todo).to)
  /\ Next1
  /\ UNCHANGED <<members, direct, kind, named, ledger, owner, dead, muted, cursor, outbox, opening, history>>

SchedulePush ==
  /\ Planned /\ Head(job.todo).do = "push"
  /\ outbox' = Append(outbox, Deferred(outbox[job.id].seq, NotificationKey(job.id, Head(job.todo).slot),
                                       Head(job.todo).to))
  /\ Next1
  /\ UNCHANGED <<data, opening, history>>

Settle ==
  /\ job # None
  /\ job.step = "settle" \/ (job.step = "plan" /\ job.todo = <<>>)
  /\ outbox' = [outbox EXCEPT ![job.id].status = "done"]
  /\ job' = None
  /\ UNCHANGED <<data, opening, history>>

(***************************************************************************)
(* dispatchPush.                                                           *)
(***************************************************************************)
ReadPast(s) == {u \in Users : cursor[u] >= s}

\* The row is taken.  quiet is a history of the evaluation.
Dispatch(i) ==
  /\ job = None /\ Claimable(i) /\ outbox[i].type = "push"
  /\ job' = [id |-> i, step |-> "evaluate", remaining |-> outbox[i].to, targets |-> {}, receipts |-> <<>>,
             quiet |-> {}]
  /\ UNCHANGED <<data, outbox, opening, history>>

Finished == [job EXCEPT !.remaining = {}, !.targets = {}, !.quiet = {}, !.step = "settle"]

At(step) == job # None /\ job.step = step
About == outbox[job.id].seq
Key == outbox[job.id].key

\* Cursor, then mute; quiet: who has passed the message by then.
Evaluate ==
  /\ At("evaluate")
  /\ LET left == (job.remaining \ ReadPast(About)) \ muted IN
       /\ job' = IF left = {} THEN Finished
                 ELSE [job EXCEPT !.remaining = left, !.step = "devices",
                                  !.quiet = {u \in Users : <<About, u>> \in passed}]
       /\ excused' = excused \cup {<<About, u>> : u \in {v \in job.remaining : v \in muted \/ <<About, v>> \in passed}}
  /\ UNCHANGED <<data, outbox, opening, failures, moves, buzzed, unrecorded, passed, touched>>

LiveDevices(to) == {d \in Devices \ dead : owner[d] \in to}
UnsentOrNot(targets) == targets
Unsent(targets) == {d \in targets : <<Key, d>> \notin ledger}

\* Live devices, less those the ledger knows.
FindDevices ==
  /\ At("devices")
  /\ LET live == LiveDevices(job.remaining)  to == Unsent(live) IN
       /\ job' = IF to = {} THEN Finished
                 ELSE [job EXCEPT !.targets = {<<owner[d], d>> : d \in to}, !.remaining = {}, !.step = "send"]
       /\ excused' = excused \cup {<<About, u>> : u \in {v \in job.remaining : \A d \in live : owner[d] # v}}
  /\ UNCHANGED <<data, outbox, opening, failures, moves, buzzed, unrecorded, passed, touched>>

Added(which, n, to) ==
  [which EXCEPT ![About] = [u \in Users |-> [d \in Devices |->
     which[About][u][d] + IF <<u, d>> \in to THEN n ELSE 0]]]

Recorded == {"ok", "gone"}

\* The provider accepts, knows the token dead, or fails; or the whole request is accepted
\* and its answer lost.  A failure is a receipt, never an exception.
Send ==
  /\ At("send")
  /\ \E answer \in [job.targets -> {"ok", "gone", "failed"}] \cup {[t \in job.targets |-> "unheard"]} :
       LET rang == {t \in job.targets : answer[t] \in {"ok", "unheard"}} IN
       /\ failures' = failures + (IF \A t \in job.targets : answer[t] = "ok" THEN 0 ELSE 1)
       /\ failures' <= MaxFailures
       /\ buzzed' = Added(buzzed, 1, rang)
       /\ unrecorded' = Added(unrecorded, 1, rang)
       /\ excused' = excused \cup {<<About, t[1]>> : t \in job.targets \ rang}
       /\ job' = IF \A t \in job.targets : answer[t] \notin Recorded THEN [Finished EXCEPT !.receipts = answer]
                 ELSE [job EXCEPT !.receipts = answer, !.quiet = {}, !.step = "record"]
  /\ UNCHANGED <<data, outbox, opening, moves, passed, touched>>

Answered(what) == {t \in job.targets : job.receipts[t] \in what}

\* A delivery row refers to its device row: one that is gone fails the whole insert.
RecordDeliveries ==
  /\ At("record")
  /\ \A t \in Answered(Recorded) : owner[t[2]] # Gone
  /\ ledger' = ledger \cup {<<Key, t[2]>> : t \in Answered(Recorded)}
  /\ unrecorded' = Added(unrecorded, -1, Answered({"ok"}))
  /\ job' = IF Answered({"gone"}) = {} THEN Finished ELSE [job EXCEPT !.step = "invalidate"]
  /\ UNCHANGED <<members, direct, kind, named, inbox, owner, dead, muted, cursor, outbox, opening,
                 failures, moves, buzzed, passed, touched, excused>>

InvalidateTokens ==
  /\ At("invalidate")
  /\ dead' = dead \cup {d \in Devices : owner[d] # Gone /\ \E t \in Answered({"gone"}) : t[2] = d}
  /\ job' = Finished
  /\ UNCHANGED <<members, direct, kind, named, inbox, ledger, owner, muted, cursor, outbox, opening, history>>

\* The row is run again from its start, or parks when its attempts are spent.
Thrown(i) ==
  [outbox EXCEPT ![i].attempts = @ + 1,
                 ![i].status = IF outbox[i].attempts + 1 >= MaxAttempts THEN "parked" ELSE "ready"]

\* A statement throws or the worker dies; the claim has counted the attempt.
Fail ==
  /\ job # None /\ failures < MaxFailures
  /\ failures' = failures + 1
  /\ outbox' = Thrown(job.id)
  /\ job' = None
  /\ UNCHANGED <<data, opening, moves, buzzed, unrecorded, passed, touched, excused>>

\* The insert of the deliveries meets a device that signed out while the provider answered.
RecordFails ==
  /\ At("record")
  /\ \E t \in Answered(Recorded) : owner[t[2]] = Gone
  /\ outbox' = Thrown(job.id)
  /\ job' = None
  /\ UNCHANGED <<data, opening, history>>

WorkerStep ==
  \/ \E i \in Ids : Handle(i) \/ Dispatch(i)
  \/ WriteNotifications \/ SchedulePush \/ Settle
  \/ Evaluate \/ FindDevices \/ Send \/ RecordDeliveries \/ RecordFails \/ InvalidateTokens

Next ==
  \/ Post
  \/ \E s \in Seqs : Edit(s)
  \/ \E u \in members : OpenChat(u) \/ ClearChat(u) \/ ToggleMute(u)
  \/ \E o \in opening : AdvanceReadCursor(o) \/ NoteCaughtUp(o) \/ ClearCommit(o)
  \/ \E d \in Devices : UnregisterDevice(d) \/ \E u \in Users : RegisterDevice(d, u)
  \/ WorkerStep
  \/ Fail

Spec == Init /\ [][Next]_vars

(***************************************************************************)
(* Properties.                                                             *)
(***************************************************************************)
TypeOK ==
  /\ direct \in BOOLEAN
  /\ kind \in Seq({"text", "announcement"})
  /\ named \in Seq(SUBSET Users) /\ Len(named) = Len(kind)
  /\ \A i \in Ids : /\ outbox[i].type \in {"created", "edited", "push"}
                   /\ outbox[i].seq \in Seqs
                   /\ outbox[i].to \subseteq Users
                   /\ outbox[i].status \in {"ready", "done", "parked"}
                   /\ outbox[i].attempts \in 0..MaxAttempts
  /\ owner \in [Devices -> Users \cup {Gone}]
  /\ dead \subseteq Devices /\ muted \subseteq Users
  /\ cursor \in [Users -> 0..MaxSeq]
  /\ \A entry \in ledger : entry[2] \in Devices
  /\ \A o \in opening : o.user \in Users /\ o.upTo \in 0..MaxSeq /\ o.step \in {"advance", "note", "clear"}
  /\ job # None => job.id \in Ids /\ outbox[job.id].status = "ready"

\* One message rings one phone of one member once (effects.ts:345): a second ring needs
\* a ring the ledger never heard of, a mention in a conversation of two (both of its
\* pushes go out), or an edit of who is named while the first push was still coming.
BuzzBudget ==
  \A s \in Seqs, u \in Users, d \in Devices :
    buzzed[s][u][d] <= 1 + unrecorded[s][u][d]
                         + (IF <<s, u>> \in touched THEN 1 + Cardinality({i \in Ids : outbox[i].type = "edited"})
                            ELSE IF direct /\ u \in named[s] THEN 1 ELSE 0)

\* Nobody's phone rings for a message they had opened or cleared the chat at before the push
\* was evaluated, on whichever device they did and however late older reports come; but for
\* a clear that read the last seq before that message came, which takes the cursor back.
QuietOnceRead ==
  [][\A s \in Seqs, u \in Users, d \in Devices :
       buzzed'[s][u][d] > buzzed[s][u][d] => u \notin job.quiet]_vars

\* A push about an announcement or a mention leads to a row: every recipient has it by
\* the time the push exists, and a handled message has told everybody in the audience
\* and everybody it names under their own type.
NewsIsKept ==
  \A i \in Ids :
    /\ outbox[i].type = "push" /\ (outbox[i].key % Slots) \in {0, 1} =>
         \A u \in outbox[i].to : \E row \in inbox : row.key = outbox[i].key /\ row.to = u
    /\ outbox[i].type = "created" /\ outbox[i].status = "done" =>
         \A u \in members :
           /\ kind[outbox[i].seq] = "announcement" =>
                [key |-> NotificationKey(i, 0), to |-> u, type |-> "announcement"] \in inbox
           /\ u \in named[outbox[i].seq] /\ <<outbox[i].seq, u>> \notin touched =>
                [key |-> NotificationKey(i, 1), to |-> u, type |-> "mentioned"] \in inbox

\* Once everything has run and nothing was given up, every member was rung for every
\* message, or had read it, muted the channel, or had no phone the provider took.
NobodyIsForgotten ==
  (\A i \in Ids : outbox[i].status = "done") =>
    \A s \in Seqs, u \in members : <<s, u>> \in excused \/ \E d \in Devices : buzzed[s][u][d] > 0

\* "A transient failure records nothing, so the next redelivery retries it"
\* (dispatch.ts:151): a push whose send failed for some phone is not done.
FailedSendsAreRetried ==
  [][job # None /\ job.step = "settle" /\ job' = None /\ outbox'[job.id].status = "done" =>
       \A t \in DOMAIN job.receipts : job.receipts[t] \in Recorded]_vars

=============================================================================
