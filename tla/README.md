# Verification of the ClubChat core

TLA+ models of the parts of ClubChat where two things happen at once: the channel log and its
transactions, reactions, the outbox drain, the gateway's subscriptions, the client's copy of a
channel, its send queue, one member's view of a conversation (read cursor and "Delete chat"),
notifications and pushes, a club's roster, races with their car groups, and polls. TLC checks them
on small instances. TLAPS proves every safety property the runs check, for every value of the
constants (of the drain, with the one worker that is deployed): that the channel log, and the
servers of the two client models, implement one abstract log and the drain an abstract queue, and
what holds of the roster, the drain, reactions, notifications, the client's sends and its copy of a
channel, the gateway's records, the conversation, races and polls.

Paths below are relative to `src/packages/server/src/` unless they begin with `src/`.

## The system

Three processes run from one image (`fly/*.toml`, ADR-0043): **api** (HTTP commands and reads),
**gateway** (WebSockets) and **worker** (effects of commits, pushes, timers). PostgreSQL is the only
durable store, at READ COMMITTED; Redis is a bus and a cache that may lose anything. The mobile app
embeds `client-core`, which keeps a SQLite copy of the channels.

A message travels like this. The client queues it under a `client_msg_id` and sends a frame. The
gateway calls `appendMessage`, which in one transaction takes the channel row, allocates `seq` and
`rev`, inserts the row and a `message.created` outbox row. The gateway acks and publishes to the
channel's Redis topic; every gateway that has a socket on the channel forwards it. Edits, deletions,
pins and reactions move the row to a new `rev` under the same lock; the worker, draining the outbox,
publishes them. A client that missed anything asks `GET /sync` for rows above the highest `rev` it
has stored, and pages. The worker also writes inbox rows and, some seconds later and only for who
has not read it, sends the push.

### Components

| component | state | operations | what makes it correct |
|---|---|---|---|
| channel log (`domain/append-message.ts`, `send-message.ts`, `revisions.ts`) | `channels.last_seq`, `last_rev`; `messages`; `outbox` | append, edit, delete, pin, touch | gapless seqs, one row per client id, revisions usable as a watermark, events that agree with rows |
| reactions (`domain/reactions.ts`) | `message_reactions`, the row's `rev` | toggle; cleared by a delete | no reaction is invisible to sync; clients end up with the committed set; bounded |
| outbox drain (`worker/drain.ts`) | `processed_at`, `attempts`, `next_attempt_at` of `outbox` rows | claim, dispatch, settle, release | per-partition order, at-least-once, bounded attempts, nothing stuck |
| gateway subscriptions (`gateway/channel-subscriptions.ts`, `server.ts`) | `byChannel`, per-socket `subscribed`, Redis subscriptions | subscribe, unsubscribe, close, revoke, fan out | map, sockets and Redis agree; a removed member stops reading |
| gateway socket server (`gateway/server.ts`) | sockets, registry, per-socket frame queue | auth, heartbeat, send, read, reap | frames in order, each answered once, dead sockets found |
| client sync (`src/packages/client-core/src`) | store rows, `syncMark`, loops in flight | live frames, gap rule, sync, repair | the mark never claims what was not stored; every change is shown in the end |
| client send queue and connection (`chat-client.ts`) | outbox of pending sends, waiters, socket, timers | enqueue, send with retries, connect, reconnect, foreground, sign out | a send stays until answered, is stored once, and its caller hears of it |
| conversation (`domain/inbox.ts`, `reads.ts`, `dm.ts`) | `read_cursors`, `channel_clears`, the device's rows | open, mark read, clear, read history | no badge for what is hidden; nothing cleared returns; no read is forgotten |
| push (`push/dispatch.ts`, `push/deferral.ts`) | `devices`, `push_deliveries`, deferred outbox rows | defer, evaluate, send, record | read messages do not buzz; nobody is buzzed twice or left out |
| effects and notifications (`worker/effects.ts`, `notify.ts`, `audience.ts`) | `notifications` | one handler per event type | idempotent under redelivery |
| membership (`domain/membership.ts`, `eboard.ts`, `deleteOwnAccount`) | roles, bans, join and Eboard requests, Eboard places | join, decide, change role, transfer, remove, leave, ban, delete, Eboard access | one Owner; ownership moves only by transfer; a ban holds; a request is decided once |
| races and car groups (`domain/races.ts`) | roster, requests, groups, seats, Incharge, cards | request, decide, add, join, leave, group, assign, name | the Incharge rides in the group; a card does not outlive its answer |
| polls (`domain/polls.ts`, `worker/scheduled.ts`) | votes, `vote_count`, reminder stamp, card | vote, close, delete, remind | counters match votes; one reminder; the card goes with the poll |
| media, content, moderation, account, mail, rate limits | their tables | mostly one statement each | see "Not modelled" |

What is hard in it: commands read outside the transaction they then run; loops (drain, attach,
connect) decide on a state and act on it after an await; leases and retries make every effect happen
more than once; Redis and sockets lose, delay and reorder frames; and the client runs several
reconciliations at a time over one store. `PROJECT.json` lists each hazard at its line with the
properties that cover it.

## Modules

| module | models |
|---|---|
| `ChannelLog` | what a channel log promises: one entry per key at the next seq, changes that raise the revision |
| `MessageLog`, `MessageLogProofs` | the log as the transactions write it; implements `ChannelLog` (the proofs also hold those of `Conversation`) |
| `Reactions`, `ReactionsProofs` | toggles, a delete and the republishing worker, for one message |
| `EventQueue` | what the outbox promises: one event at a time, causes before effects, bounded tries, settled for good |
| `OutboxDrain`, `OutboxDrainProofs` | the outbox, one or several workers, failing handlers, leases, deaths; implements `EventQueue` with one worker |
| `GatewaySubscriptions` | one gateway, one channel, its sockets, Redis, revocations; proved in `MembershipProofs` |
| `ChatSync` | one client and one channel behind lossy fan-out; proved in `ClientProofs` |
| `SendQueue`, `ClientProofs` | one client's outbox, sockets, timers and waiters against a gateway that stores once per client id |
| `Conversation` | one member's cursor, floor and devices in one channel; proved in `MessageLogProofs` |
| `Notifications`, `NotificationsProofs` | messages of one channel to inbox rows, deferred pushes and phones |
| `Membership`, `MembershipProofs` | one club's roster under concurrent commands |
| `Races`, `RacesProofs` | one race: roster, requests and their cards, car groups |
| `Polls`, `PollsProofs` | one poll: votes and counters, reminder, card |
| `MC*` | finite sets for the constants, for the `.cfg` of the same name |

How they fit together: `MessageLog` establishes what the others assume. `ChatSync`'s server and the
`log` of `SendQueue` are simpler than `MessageLog`, and all three are proved to implement the same
`ChannelLog` (`Refinement`, `ServerIsALog`, `SendsAreAppends`): gapless seqs, one entry per client
id, and a change's revision above every revision a reader can have used. `ChatSync`'s publications
may be lost, which is what `OutboxDrain` and `GatewaySubscriptions` allow at worst. `Reactions`,
`Notifications`, `Races` and `Polls` run their worker one row at a time, causes first, and let it
die at any point and start the row again: that is `EventQueue`, which `OutboxDrain` implements with
the one worker that is deployed (`OneWorkerIsAQueue`; `InOrder` is `OneWorkerKeepsOrder`).
`Conversation` and `Notifications` share `openChat`, the one for what a member sees and the other
for what rings. `EndMembership` and `Rejoin` of `GatewaySubscriptions` are `CascadeOut` and `Admit`
of `Membership`, as the worker sees them; `departClub` and `deleteOwnAccount` of `Races` are what
that cascade and the deletion of an account do inside a race. `PublishRevocation` and
`ParkRevocation` are the two ends `EventQueue` allows a row.

### MessageLog
A request is a small program counter per process. It is cut where another request can get in: after
a read outside its transaction (`EditLoad`, `DeleteLoad`, `PinLoad`, `ReactLoad`, `SendStart`); at
the channel row (`AppendBump`, `NextRevision` are the `UPDATE channels` that takes the lock); at the
commit (`AppendCommit`, `EditCommit`, ...); and between the commit and what follows it
(`AppendAnswer`, `AppendReply`, `PinAnnounce`). What a transaction has written and not committed is
in `tx`. `Crash` rolls back and frees the row, and may happen anywhere. `DropChannel` is the cascade
when a race, club or DM channel is deleted. Bodies are three values, because properties only tell
"as sent", "edited" and "none". `acked` is a history of what senders were told.

### Reactions
A toggle is `DELETE .. RETURNING`, the unlocked count, `INSERT .. ON CONFLICT DO NOTHING`, then the
channel row; a delete takes the channel row first and clears reactions next. The rows an open
transaction removed or added are explicit, so that a statement waits where PostgreSQL makes it wait,
and `DeadlockAbort` is PostgreSQL's detector. The worker's handler is a read and a publication that
a crash may repeat.

### OutboxDrain
`ClaimLock` is the sub-select with its gate and `SKIP LOCKED` on the statement's snapshot,
`ClaimCommit` its `UPDATE`. Time is one bit per row (`held`: `next_attempt_at` is in the future);
`SlowBatch` says whether a lease may end before its batch does. The loop runs `Current`, the lowest
id in the batch; a failure stalls the partition, later rows are `deferred` and handed back by
`EndBatch` (`releaseUnrun`). Handlers succeed, fail, or fail permanently. `Insert`/`EndInsert`
separate an id's allocation from its commit, so that ids may become visible out of order. `begun`,
`before` and `alarmed` are history variables.

### GatewaySubscriptions
The process is single threaded, so a step is the code between two awaits. `SubscribeFrame` reads the
access context; `AttachExisting`/`AttachFirst`, `RedisServe`, `AttachDone`, `AttachRefused` are
`attach` around its await. Redis serves the subscriber connection in order; instructions
(revocations) on it may be handled before the frame an earlier answer resumed. `Detach` is the "last
one out" rule, shared by unsubscribe, close and `Revoke`; `Left` the answer to its `UNSUBSCRIBE`.

The connection is a lossy one. `Disconnect` takes the answers and instructions under way and Redis'
side of the subscription; `Reconnect` subscribes again to what was subscribed to (`joined`) and the
unanswered commands are sent again, or fail one by one (`Flush`). `PublishRevocation` is a
`PUBLISH`: it reaches a gateway that is `connected` and `hearing` (its start-up `SUBSCRIBE` to the
revocation topic was accepted, which nothing tries again) and nobody else, may be repeated by a
redelivery, and is given up by `ParkRevocation`. `stale` (who held the channel when the membership
ended), `unheard` (whose last revocation nobody got) and `crossed` (an `UNSUBSCRIBE` went behind the
`SUBSCRIBE` of a frame in progress) are histories. How ioredis repeats commands is external,
modelled from the options `createRedis` gives it; that a resubscription after a break is accepted is
assumed.

### ChatSync
A row's revision stands for what it shows. `fetch[f]` is one reconciliation with its own locals:
repair of holes by seq, then pages by revision. Storing a page (`StorePage`) and the mark
(`SetMark`) are two steps, as in the code; `Fail`, `Drop` and `Kill` fall between any two.
`ReceiveNew` is the gap rule (`decideGap` in `src/packages/shared/src/protocol.ts`). `Resend` is the
publication of a deduplicated send. All the breaks share one bound, `MaxBreaks`.

### SendQueue
`client` is the `ChatClient` object, and the operators on it are what its methods make of it
(`Dial`, `SocketClosed`, `HandshakeFailed`, `Flushed`, ...); an action is one callback with the
promise continuations it settles. `client.loop` tells who is inside `connect()`: a retrying send
(`sendWithRetry`, at `client.call`), the provider at start-up, the foreground, or the reconnect
timer; `handshake` names the one whose resolver is registered, so that a second `connect()` which
takes it over leaves an `Orphan`. A socket's two ends are apart: `conn` is the client's view, `up`
and `down` the frames under way, and the gateway handles one frame after another (`HandleSend`,
`HandleSendAgain` for an id already stored, `FailSend` for a refusal, an exception, or silence).
`Settle` is the ack after its message was stored on the device. `verdicts` is a history.

### Conversation
A step is what runs between two awaits of a request, of the gateway's handler or of a device. `Post`
is a commit and `Publish` the publication of a message to the sockets there are: never (the server
died, the bus failed), once, or again at any later time (`handleSend` publishes what a retry found
stored, and the worker what a redelivered event names). `OpenRead`, `OpenAdvance` and `OpenRecord`
are the three statements of `openChat`; `MarkRead`, `Connect` and `Flushed` the client's
`pendingReads`; `AskPage` reads the access context with its floor, `ReadPage` the rows, `StorePage`
stores them; `ClearRead`, `ClearCommit` and `Forget` are the clear's read of the head, its two
upserts, and the device that empties its copy. How a read picks its rows (by seq, by revision) is
any set of rows, as the cursors are in `ChatSync`; a device has one read in flight.

### Notifications
The drain runs one row at a time. `Handle` is a handler's reads, after which `WriteNotifications`
and `SchedulePush` are its writes, one await each; `Dispatch` starts a deferred push, `Evaluate`
asks the cursors and mutes, `FindDevices` the devices and the ledger, `Send` the provider,
`RecordDeliveries` the ledger, `InvalidateTokens` the dead tokens, `Settle` the outbox row. `Fail`
and `RecordFails` end a run at any await. Meanwhile people open chats (in the three statements),
clear them (`ClearChat` reads the head, `ClearCommit` sets the cursor to it, up or down), mute, sign
phones in and out, and edit. A push's delay is not counted: it may run at any later time. `buzzed`,
`unrecorded`, `passed`, `touched` and `excused` are histories, and so is the job's `quiet`: who had
opened or cleared the chat at the message when `Evaluate` looked. A clear that read the head before
a message came takes its reader out of `passed` for it: that phone may ring for what was read (see
below).

### Membership
`work[p]` is a request in progress: the step it is at, whom it is about, and what it has read that a
later step uses. `Accept` is authentication and the access context, which every command trusts
later; the next steps are the command's own reads (`CheckWayIn`, `ReadRole`, `ReadForBan`), its
autocommitted statements (`FileJoinRequest`, `Bar`, `Unask`) and its transaction. A transaction
whose first statement takes one membership row is one step that waits until the row is free
(`WriteRole`, `CascadeOut`, `Erase`). `Transfer` takes two: `LockFirst` fixes the snapshot and locks
the lower user id, `LockSecond` the other, reading it again. `Abandon` is a failed statement or a
lost connection at any point. `roleOf` and `isBannedFrom` are one read (nothing between them
matters: the steps after both re-ask neither). `Roster` is the club some time after `createClub`. A
batch of Eboard members is one member. A deleted request is `cleared`; `decisions` counts
`club.join_decided` rows. `BanIsDurable` starts when every way in is closed: a request that passed
the check before the ban may still land, and one filed in that window may still be approved.

### Races
As in `Membership` a request is judged on the access context it arrived with (`Accept`) and commits
later. A departure is cut into `FindSeat` (which car, read without a lock), `Vacate` (the `DELETE`
that locks the seat's row) and its commit, which clears the Incharge (`CommitDeparture`,
`CommitClubDeparture`). The deletion of an account takes membership and seat and clears nothing
(`CommitAccountDeletion`); its user's row stays (`deleted`), so that no foreign key clears the
office either. Naming one is `SelectForUpdate` on the candidate's seat and `CommitIncharge`. Only
rows of `car_group_members` are fought over, so only they have a `lock`; `Abort` is a deadlock
victim or a lost connection. `asks` keeps the requests, `events` the club's partition, and `Handle`
is the worker that deals and settles the `cards`. `InsertRequest` and `AnnounceRequest` are two
steps because they are two statements.

### Polls
`toggleVote` is cut at each statement: `Look`, `Delete`, `Subtract`, `Insert`, `Add`, commit.
`lock[x]` is who has written a user's votes or an option's counter and makes others wait. The clock
has three values ("early", "soon", "over"); `Claim` is the tick's `FOR UPDATE SKIP LOCKED` with its
stamp, `CommitStamp` the commit, `FanOut` the reminder. `Handle` posts and removes the card;
`DeleteCard` is somebody deleting it by hand.

## Runs

| run | instance | properties and what they show |
|---|---|---|
| `message_log` | 2 requests at once, 2 client ids, 4 revisions | `LogWellFormed` (gapless, one row per key, distinct revisions), `AcksAgree`, `CreatedEventsMirrorLog`, `RevisionIsWatermark`, refinement of `ChannelLog` |
| `reactions` | 2 requests at once, 1 user, 3 emojis, cap 1, 4 requests and redeliveries | `EveryChangeIsARevision`, `ClientsConverge`, `CapOvershoot`, `RequestsEnd` |
| `outbox` | 1 worker, 3 events, 2 attempts, batches of 2, 2 deaths, leases that may end mid-batch | `InOrder`, `AttemptBudget`, `EventuallyResolved` |
| `gateway` | 2 users, 2 sockets, 3 frames, 2 changes (memberships, breaks of the connection, repeated revocations) | `BookkeepingAgrees`, `FanOutIsFed`, `RevocationReaches` |
| `chat_sync` | 2 reconciliations at once, 3 messages, 3 revisions, pages of 1, 1 break | `NothingSkipped`, `EventuallyShown` |
| `send_queue` | 1 message, 2 attempts, 2 retries, 2 sockets, 2 troubles, 1 visit | `KeptUntilAnswered`, `ResolvedIsStored`, `WakeUpIsComing`, `SendsEndUnlessOvertaken` |
| `conversation` | 2 devices, 2 messages, 3 events (read, page, clear, lost socket, failure, late publication) | `UnreadIsVisible`, `ClearedStaysAway`, `ReadsAreKept` |
| `notifications` | 2 members, 2 devices, 1 message, 1 failure, 2 attempts, 2 moves | `BuzzBudget`, `NewsIsKept`, `NobodyIsForgotten`, `QuietOnceRead` |
| `membership` | 3 users (Owner, admin, outsider), 2 requests at once, 4 in all | `OneOwnerUntilDeletion`, `OwnershipMoves`, `BanIsDurable`, `DecidedOnce`, `LocksDrain` |
| `membership_ownerless` | 2 requests | `OneOwner` is violated |
| `races` | Owner and member, 2 requests at once, 4 in all, 1 group, 1 fault | `InchargeIsAboard`, `CardsSettle` |
| `polls` | 2 voters, 2 options, 2 taps at once, 4 in all, 2 workers, 1 closing or reopening, 1 fault | `CountsAreVotes`, `RemindedOnce`, `CardFollowsPoll` |

The largest, `conversation`, has 4.5 million states; no run takes more than two and a half minutes
with two workers.

**Why the bounds are enough.** The races in this code are between two actors, or an actor and a
crash, or two actors and a third event: every instance has at least two of each actor the property
is about. `MaxRev = 4` covers two appends and two changes in any interleaving. Three events and a
batch of two give a partition with something before, in and behind a batch. Four commands over three
users reach a promotion, a transfer, a departure and whatever is overtaken by them. `MaxAttempts =
2` keeps "first", "retry" and "parked" apart. Pages of one row make every list longer than a page.
In `send_queue` one message meets a lost answer, a second socket and a second copy of itself, which
is what its properties tell apart; several messages only share the sockets. In `conversation` three
events are a read overtaken by a clear overtaken by a page or by a second publication, the longest
chain two statements can make; its proofs cover the rest. In `gateway` two changes are a membership
that ends and the break that keeps its revocation from being heard, or comes just after it. In
`notifications` one message has every kind, both audiences, and a failure at any await; two moves
are two overlapping opens, or an open and a clear, so that the later report may commit first. In
`races` four requests are naming, leaving, moving and deleting. Deadlock is not checked by TLC in
these runs because the bounds stop the system; where waiting for ever is a danger it is a liveness
property (`RequestsEnd`, `SendsEndUnlessOvertaken`, `EventuallyResolved`) or an invariant
(`LocksDrain`).

`SYMMETRY` is used only in runs without a liveness property: over requests (`membership`,
`membership_ownerless`, `races`), members and devices (`notifications`), devices (`conversation`),
and voters, options, requests and workers (`polls`).

## Fairness

* `Reactions`: strong fairness of each request's own steps. PostgreSQL queues the waiters of a row,
  so a request that can take it again and again does; deadlocks are broken after `deadlock_timeout`.
  Arrivals and crashes are not fair.
* `OutboxDrain`: `startDrainLoop` ticks for ever, a handler returns or throws (every outside call
  has a timeout), and time passes. Deaths are bounded and unfair.
* `GatewaySubscriptions`: the event loop runs each callback, Redis answers each command it gets,
  ioredis goes on dialling or gives its commands up, and the outbox attempts each revocation
  (`EventuallyResolved`). Nothing makes a publication be heard. Sockets, frames, breaks and
  memberships are not fair.
* `ChatSync`: a dropped socket reconnects, by `scheduleReconnect` or, when that chain has ended,
  because the member comes back to the app; frames that arrive are handled, and requests end. Frames
  may all be lost: the property does not use `PublishNew` or `PublishUpdate`.
* `SendQueue`: timers fire, requests end, the gateway handles the frames it received, and a socket
  that is lost reports its end in time (the handshake timeout, the ping and the reaper see to it).
  Nothing makes the member come back, and a failed call fails or not as it likes.
* `MessageLog`, `Membership`, `Races`, `Polls`, `Notifications` and `Conversation` have no liveness
  property. What they owe in the end is said of their quiet states (`CardsSettle`,
  `CardFollowsPoll`, `NobodyIsForgotten`), and `EventuallyResolved` is why their queues get there.

## What is proved

Every theorem is about the specification the runs check, with the constants arbitrary except for the
assumptions named in each module (a bound is a number, a sentinel is not a user). The invariants of
the runs are seldom inductive; each section names what is added and why. A strengthening was first
checked by TLC on the instance of its run.

**`MessageLogProofs`**, for any sets of users, client ids and concurrent requests and any bound
`MaxRev` (only `NobodyAssumption`: `Nobody` is no request):

* `TypeCorrect`, `LogStaysWellFormed` (with `GaplessLog`, `ExactlyOnce`, `DistinctRevisions`),
  `DurableAcks`: `TypeOK`, `LogWellFormed` and `AcksAgree` always hold;
* `EventsMirrorLog`: the `message.created` rows are the messages, in the order of their seqs;
* `Watermark`, `AppendOnly`: the two action properties;
* `Refinement`: `Spec` implements `ChannelLog`.

`Gapless` needs to know that the seq a transaction holds is still the next one, hence: who is past
its `UPDATE channels` holds the row (`LockInv`); the holder's `tx` is one above the committed
counters, and a change's seq is one that exists (`TxInv`, `ReqInv`); and no row outlives its channel
(`GoneInv`). `CtlInv` is the control half and `LogInv` the data half; together they are `CoreInv`.
`AcksAgree` needs one more fact, `AnswerInv`: a request about to answer names its own row. `IInv` is
their conjunction; `CoreNext` and its lemmas show, one action at a time, that a step keeps it. The
mirror is inductive beside `IInv`: one commit appends one row and one event with the seq the lock
protects. The refinement maps `AppendCommit` to `Append`, the four commits of a change to `Change`,
`DropChannel` to `Close` and every other action to a stutter.

The second part is about `Conversation`, for any devices and messages (its bounds are numbers):
`CountedIsVisible`, `ClearedStays` and `ReadsKept` say that `UnreadIsVisible`, `ClearedStaysAway`
and `ReadsAreKept` always hold, `ViewTypes` its types. `BadgeInv`: the floor is never above the
cursor nor the cursor above the head, and a clear or a read in progress holds at most the head;
overlapping clears may lower floor and cursor, but together. `AwayInv`: what a device was told is
cleared lies below the floor (the history `hidden` comes down with it when an overlapping clear
lowers the floor), what may yet reach the device below that was on its way when it forgot or was
published since (`OnItsWay`), and a page holds only rows above the floor it was asked with. So
`ClearedStays` leaves no way back for a cleared row but those two. `MarkInv` bounds what was read by
the head, so that the gateway's own reading of `last_seq` is at least as high as the frame's.

**`MembershipProofs`**, for any finite set of users (naturals, so that they are ordered), any
starting roster with one Owner, any concurrent requests and any bounds (`MembershipAssumption`):

* `TypeCorrect`, `OwnedUntilDeletion`, `DecidedExactlyOnce`: `TypeOK`, `OneOwnerUntilDeletion` and
  `DecidedOnce` always hold;
* `TransfersDrain` (`LocksDrain`): two transfers never wait for each other;
* `OwnershipHandedOver`, `BansHold`: the action properties `OwnershipMoves` and `BanIsDurable`.

One Owner is not inductive: a transfer writes two roles it read earlier. `HeldInv` says that what it
read is locked by it and still so; `RequestInv` that a role change was authorized against a role
other than the Owner's and that request ids exist. With `TypeOK` they are `CoreInv`, kept by every
step (`CoreStep`; `HeldKept` is the argument that no other request writes a held row). `OwnersMove`
then classifies the steps by what they do to the Owner: nothing, drop the club, delete an account,
or hand over; the ownership theorems follow from it. `BansHold` rests on `StaysOut`, `StaysUnasked`
and `WayInChecked`, one per way in. `TransfersDrain` takes the greatest held row: only transfers
hold rows (`HoldersTransfer`) and a transfer waits for a row above its first.

The second part is about `GatewaySubscriptions`, for any sockets, users and owners of sockets:

* `RecordsAgree` (`BookkeepingAgrees`): whatever writes the one record writes the other before the
  next await, revocations, breaks and closes included;
* `FanOutStaysFed` (`FanOutIsFed`). `FedInv` reads the pipeline as one sequence, the answers not yet
  read and then the commands not yet served: as long as nothing `crossed`, every `UNSUBSCRIBE` in it
  is before every `SUBSCRIBE`, so that an entry means that no `UNSUBSCRIBE` is left and the last
  thing Redis served was a `SUBSCRIBE`; and `joined` says so to a reconnection. A break keeps the
  order of what it sends again;
* `NoRevocationLost`, what can be proved of `RevocationReaches`: while an open socket holds a
  subscription whose membership has ended, the worker still owes its instruction or the connection
  carries it, unless the last one published reached nobody (`unheard`); and the socket has the
  record by which `revoke` finds it, so that only fairness is missing (`DueInv`; `DueKept` is what
  every step but a revocation does to it);
* `GatewayTypes`: the module's `TypeOK`.

**`OutboxDrainProofs`**, for any workers, partitions, rows and deaths. All but the last four have
the hypothesis `~SlowBatch` (a lease outlasts the batch it was stamped for, which is what `LEASE_MS`
is chosen for); the last four have one worker instead, which is what is deployed and what the run
has:

* `OneRunnerAtATime`, `BudgetKept`, `ParkedIsFinal`, `TypeCorrect`: no row is in two hands, no row
  is dispatched more often than `MaxAttempts`, and a parked one never again;
* `AttemptsAreRuns`: as long as no worker died, `attempts` counts the dispatches;
* `OneWorkerKeepsOrder` and `OneWorkerKeepsBudget`: with one worker `InOrder` and `AttemptBudget`
  hold, however long batches last;
* `OneWorkerIsAQueue`: with one worker `Spec` implements `EventQueue`;
* `ResolvedForGood`: what is processed or parked stays so and never runs again, the half of
  `EventuallyResolved` that needs no fairness.

`HandsInv` is who holds what (claims hold free rows, batches rows under lease, hands are disjoint,
and the attempt a worker saw is the row's); `CountsInv` that attempts cover the dispatches begun and
one more for a row not run yet; `ExactInv` its equality without deaths. For the order, `BatchInv`
says of a row in the batch that whatever its partition held before it is over, is in the batch (and
its id is lower), or has stalled them both; `BeforeInv` that what was there before stays.
`SpareInv`: a row in the worker's hands that has not begun has an attempt to spare. In the
refinement an event is running while the worker is at it, and `spent` is its `attempts`, less the
one that a claim has charged to a row that has not begun: `Insert` is `Write`, `EndInsert`
`Publish`, `Dispatch` `Begin`, `Processed` `Succeed`, `Failed` and `FailedPermanently` `Fail`,
`Crash` is `Die` with what was in hand and had not begun, and claiming, deferring, releasing and
expiring are stutters: deferring and releasing because they hand back what the claim charged, which
a death cannot. `SizeInv` bounds what a death may cost by a batch, and says that ids are given out
in order. Two workers keep neither the order nor the budget (TLC finds both): a claim skips a locked
head, and after a lease that lapsed a failure writes back the attempts its own worker saw.

**`ReactionsProofs`**, for any users, emoji, redeliveries and finite set of requests
(`ReactionsAssumption`): `RevisedOrUnchanged` (`EveryChangeIsARevision`), `ClientsAgree`
(`ClientsConverge`), `CapHolds` (`CapOvershoot`) and `TypeCorrect`. `LockInv`: who commits holds the
channel row, and a delete about to commit has taken every row there is. `ShownInv`: with an empty
queue what is shown is what is committed, and what the handler of the last event has read still is;
a later commit would have queued a later event. `CapInv` counts the emoji committed together with
those past their unlocked count: the set grows only at a count, and then from below the cap plus the
others.

**`NotificationsProofs`**, for any members, phones, messages, failures and moves
(`NotificationsAssumption`: `Gone` is no user, the phones have owners, and there is at least one
attempt):

* `NewsArrives` (`NewsIsKept`), `EverybodyIsReached` (`NobodyIsForgotten`), `RingsAreBudgeted`
  (`BuzzBudget`), `TypeCorrect`;
* `ReadIsQuiet`: the action property `QuietOnceRead`.

`TypeInv` also says what the worker's job may hold at each of its steps. `PassedInv`: a member has
passed a message exactly when the cursor has, since an open raises both and a clear sets both, down
as well as up. `QuietInv`: whom the evaluation found past the message is no target from then on,
whatever later clears do to the cursor. `NewsInv` follows a plan: a push has the key of one slot of
one row that is not a push, and is to whom that slot can be to (`KeysInv`); inbox rows carry such
keys (`InboxInv`); what is left of a plan has each push behind the rows it needs, or they are there
(`TodoInv`), so that a row handled from the start again does no less; a stored push has its rows
(`PushRowInv`); and of every message that was or is being handled, whoever is owed something has it
or it is still in the plan (`ServedInv`). `ReachInv` does the same from the push to the phone:
whoever owns a phone in the ledger was reached (`LedgerInv`, which is where a phone that changes
hands needs its excuse), a recipient of the push in hand is yet to be evaluated, is a target, or was
reached (`PushInv`), and a done push has reached everybody (`DoneInv`). `BudgetInv` is the counting:
the rings of one phone for one message that were recorded are no more than a set of ledger keys (one
key per recorded ring, by `FreshInv`, since a key that is in the ledger is not rung again), and
those keys are slots of the created row, of which at most two reach one member, or belong to edits,
one each.

**`ClientProofs`**, for any messages, attempts, sockets and troubles (`SendQueueAssumption`: no
message is called like one of the four loops): `EntriesAreKept` (`KeptUntilAnswered`),
`ResolvedSendsAreStored` (`ResolvedIsStored`), `WaitersAreWoken` (`WakeUpIsComing`), `TypeCorrect`.
`SettledOnce` is the action property that a send's verdict and seq never change once it has one and
that an answered send has no entry left to flush; `SendsAreAppends` that the log implements
`ChannelLog`. The operators on the client object come first: what each makes of the object's type,
of its waiters and of its outbox. `IInv` adds to the properties that the client's socket has not
reported its end (`SocketOK`), that the log holds an id once and what is on the wire is true
(`WireOK`): an ack names the seq of its message.

Its second part is about `ChatSync`, for any page size and number of reconciliations (`MaxSeq` is a
number, `PageSize` at least one): `MarkIsTrue` (`NothingSkipped`); `ClientIsNeverAhead`, that
nothing in the store, on the wire or in the mark is newer than the log; `ServerIsALog`, that the
server implements `ChannelLog`; and `SyncTypes`. `SyncInv`: rows and frames on their way were true
when they were said (`Honest`); a reconciliation asks from a revision below which all has been
stored, since a page is the lowest revisions above its cursor; and what it is about to mark has been
stored (`FetchOK`). A row that changes gets a revision above every mark, so nothing done so far is
undone.

**`RacesProofs`**, for any users, groups, requests and faults (`RacesAssumption`):

* `InchargeStaysAboard` (`InchargeIsAboard`). `LocksOK` is the argument of `domain/races.ts:773`:
  whoever is about to name or to clear holds the member's seat, and the seat is still what it was
  when it was locked. The deletion of an account takes the seat under the same lock but clears no
  office: its user is excepted, by name (`deleted`), and nobody else loses a seat by it.
* `CardsAreClosed` (`CardsSettle`) and `TypeCorrect`. `CardInv` relates a card, its question and its
  answer by their places in the log: a decision and its event are one transaction, so what is
  decided has its answer queued (`DecidedIsAnswered`), and once the worker is past the answer no
  earlier card about that user is open (`AnswersReach`).

**`PollsProofs`**, for any voters, options, requests, workers and faults (`PollsAssumption`):

* `OneReminder`, `NoDeadCard` and `CardsAreNotRevived`. `ReminderInv`: who is between claim and
  commit holds the poll, and after the stamp nobody claims; `CardInv`: the events are one creation
  and at most one deletion, and how much of them is handled decides what card there may be.
* `CountersAgree` (`CountsAreVotes`) and `TypeCorrect`. `CountInv`: as long as nobody tapped twice
  at a time, what a tap has read of its voter's votes still is what there is (`Kept`), and each
  counter is its tally, the open transactions' own changes included.

Three theorem modules cover two models because these belong together and share the lemmas on queues
and on numbers; the second model is instantiated beside the first and shares no variable with it.

**Model-checked only.** Liveness: `RequestsEnd` (of `Reactions`), `EventuallyResolved`,
`RevocationReaches`, `EventuallyShown` and `SendsEndUnlessOvertaken` use fairness and ENABLED, out
of the prover's reach; for the second and the third the part that needs no fairness is proved
(`ResolvedForGood`, `NoRevocationLost`), and for the last that a waiter's wake-up is always on its
way (`WaitersAreWoken`). The proofs needed no induction over data: counts and queues are compared
from one step to the next. `OneOwner` of `membership_ownerless` is false.

## Where the code and its comments disagree

`membership_ownerless` is the run that shows one: the ownership check of `deleteOwnAccount`
(`domain/account.ts:481`) precedes its transaction, and a transfer in between makes it delete the
Owner, the ownerless club ADR-0042 calls unreachable.

The others have no run of their own. Where a definition is named it says what the comment claims;
put it into the run's `.cfg` to see the trace.

The log and its readers:

* `domain/send-message.ts:632` an edit that passed its check before a delete committed writes text
  onto the tombstone, though `policy/predicates.ts:398` says that "a deleted message has no body
  left to edit".
* `domain/send-message.ts:409, 436` a pin may land on a tombstone, and its event is written after
  its transaction.
* `domain/reactions.ts:174` the cap is counted before any lock, so it can be overshot; the comment
  at 163 says it cannot. `CapOvershoot` states the bound that does hold.
* `domain/reactions.ts:142` a toggle that read the message before a delete inserts under the
  tombstone after it.
* `worker/drain.ts:188` with two workers a later event of a partition can run first (a claim skips a
  locked head); `worker.toml` calls a second machine safe. One worker is what is deployed, and for
  it `InOrder` is proved.
* `worker/drain.ts:377` a worker that dies eight times in the head of a batch parks rows behind it
  that never ran; the comment at 369 says release prevents this. `AttemptsCountRuns` holds without
  deaths only.
* `gateway/server.ts:730` a revocation that arrives while a subscribe awaits Redis is lost: the
  socket keeps reading (`RemovedReadsNothing`, `gateway`). So is one published while the subscriber
  connection is down: `bus/redis.ts:89` is a `PUBLISH`, kept for nobody, and the worker takes its
  event for handled. `RevocationReaches` excepts those.
* `gateway/server.ts:457` a failed `SUBSCRIBE` to the revocation topic is logged and never tried
  again, though line 454 has the subscription last "for the gateway's whole life".
* `gateway/channel-subscriptions.ts:89` a subscription can be undone behind an entry: `detach`
  unsubscribes while another socket's first SUBSCRIBE is still awaited, and the channel's live
  messages stop (`FanOutIsFed` excepts that crossing).
* `src/packages/client-core/src/store.ts:230` a page read before a change overwrites the row patched
  after it, and the mark may already be past it (`CurrentAtMark`, `chat_sync`).

The send queue (`send_queue`):

* `gateway/server.ts:899` says "The client keeps the message in its outbox and retries", but the
  code it sends, `malformed`, is one of `TERMINAL_SEND_CODES`
  (`src/packages/client-core/src/chat-client.ts:192`), on which the client deletes the entry: after
  any exception a message is gone, though it may have committed (`NeverSilentlyDropped`). The chat
  screen tells the member only of a refused content.
* An exception before `handleSend`'s own `try` is answered by nothing, and the sender waits until
  the socket ends.
* `connect()` (`chat-client.ts:335`) takes over the resolver of a connect that is still waiting,
  which then never settles, nor does the send it was for (`SendsEnd`).
* A socket that drops while `reconnect()` awaits `syncAll` is not brought back: `onclose` sees a
  reconnect in progress and the loop ends (`ComesBack`, the comment in
  `src/apps/mobile/src/chat-provider.tsx:293`). The next foreground does it.
* `flushOutbox` has no caller, though the comments at 1136 and 1161 say that a reconnect runs it.

The conversation (`conversation`):

* Two overlapping clears, or a clear that read the head before a message was read, lower the floor
  and the cursor: `domain/dm.ts:803` says of the floor that "it can never move down"
  (`FloorNeverFalls`), `domain/reads.ts:705` that a frame "can never move a cursor backward"
  (`CursorNeverFalls`).
* `chat-client.ts:1231` calls forgetting "safe to call before or after the server, because sync will
  never bring the messages back": a page or frame already on its way does, and so does a `msg.new`
  published after the clear, when a sender retries a message that was stored
  (`gateway/server.ts:843`) or the worker handles its event again (`worker/effects.ts:240`).
  `ClearedStaysAway` excepts exactly those.
* A message stored, and passed by the mark, between the clear's read of the head and the device's
  forgetting is deleted from the device although it is above the floor; nothing asks for it again
  (the gap scan starts at the first row held, and `loadOlder` has no caller in the app).
* A second device keeps its copy of what was cleared. A `msg.read` frame lost with its socket is not
  repeated. `msg.read` ignores its `upToSeq`, so what arrived before it was handled is marked read
  unseen. A failure between the cursor and the "caught up" row loses that row.

Notifications (`notifications`):

* `push/dispatch.ts:151` "A transient failure records nothing, so the next redelivery retries it": a
  transient failure does not fail the handler, so the row is done and nothing is redelivered
  (`FailedSendsAreRetried`; `worker/effects.ts:2709` says the same).
* `worker/effects.ts:345` "a member is buzzed at most once per message": in a conversation of two a
  mention rings a second time, and so does an edit that adds one while the creation is being handled
  or handled again. `BuzzBudget` states what does hold.
* `push/dispatch.ts:8` "this member demonstrably saw the message": the cursor moves to `last_seq`,
  whatever the frame said. And `domain/dm.ts:814` may move it back under a message that was read, so
  that a phone rings for it; `QuietOnceRead` excepts that.
* A push the provider took before a crash, a timeout or the loss of the device row rings again. A
  phone that changed hands is not rung for its new owner.

Rosters:

* `domain/eboard.ts:124` a pending Eboard request survives a demotion or a departure and its
  approval does not ask the role: somebody who is not an admin ends up in the space
  (`EboardIsAdminTier`, `membership`).
* `domain/membership.ts:190, 250` a ban between the check and the write is overtaken, and
  `decideJoinRequest` (322) inserts a membership without asking for a ban, though the comment at 239
  calls `admit` the one place every way in passes through.
* `domain/membership.ts:112` `joinClub` reads the policy, `setJoinPolicy` opens the club and
  approves who waits, and the request filed afterwards is left pending in an open club.
* `domain/races.ts:233-285` approvals and additions insert whom they read as a member earlier, so a
  roster may hold somebody who left the club, against `src/SPEC/PRD/02-roles-and-permissions.md:37`
  (`RosterWithinClub`, `races`). The same stale read can seat somebody off the roster.
* A request's row and event are two statements (`races.ts:147`, and likewise in `requestToJoinClub`
  and `requestEboardAccess`): a crash between them files a request nobody is shown, and a decision
  between them leaves its card pending for ever. Departures and deletions remove pending requests
  without settling their cards.
* The departure's `UPDATE` may clear an Incharge who left the car and came back. `deleteCarGroup`
  and `setCarGroupIncharge` can deadlock (`Abort`). Who joins a race between `deleteRace`'s read and
  its transaction is not told to stop reading.
* `domain/account.ts:483` deletes the roster row and the seat of a deleted account and leaves
  `incharge_user_id`, though `db/schema.ts:1183` says that it is "Cleared automatically when the
  holder leaves the group": the `users` row is anonymised, not deleted, so the `ON DELETE SET NULL`
  of line 1186 never fires and the group keeps an Incharge nobody can reach
  (`EveryInchargeIsAboard`, `races`; four steps).
* `races.ts:161` "a manager need not be on the roster to decide": `isRaceManager` asks for the
  roster.

Polls (`polls`):

* `domain/polls.ts:180` two taps of one voter at once make the counter drift from the votes;
  `CountsAreVotes` excepts voters who tapped again before their answer. Two voters moving their
  votes in opposite directions deadlock, and one of them fails.
* `worker/scheduled.ts:11` says that the stamp and the fan-out share a transaction, and line 218
  that a failed tick re-claims what it missed: the stamps are committed first, so a crash, or one
  failing poll, loses the reminder of every poll claimed with it.
* A vote may land on a poll closed after the check, and a reminder go out for one closed or deleted
  after the claim.
* `removeCards` does not publish again when it is redelivered, which `postSystemMessage` insists on.

## Not modelled, and why

* **Media** (`media/`). Uploads, derived images and garbage collection have states worth a module
  (see the plan); it was not written yet.
* **Effect handlers** other than those of messages, reactions, races and polls: each is an audience
  query, a batch of rows under one key and a push, the pattern `Notifications` models for the most
  involved of them.
* **Authentication, HTTP, configuration, monitoring, tools, migrations, screens, static sites**
  carry no protocol state of their own.
* **Policy predicates** are pure and tested as a matrix; the models use their answer as a Boolean
  that may go stale.
* **Notification text, mentions, links, emoji formats, sorting and names** are data no property is
  about. Content, calendar, moderation and reports are single statements behind validation. Rate
  limits depend on real time. Retention deletes what no component reads again.
* Within the modules: upper-case channel ids, frame sizes, backpressure and typing frames
  (`GatewaySubscriptions`, `SendQueue`); more than one history read at a time per device
  (`Conversation`); the length of delays everywhere; the early return of `message.edited` on a row
  that is gone (`Notifications`); renames and pictures (`Membership`, `Races`).

## Plan

Done: `ChannelLog`, `MessageLog`, `EventQueue`, `OutboxDrain`, `Reactions`, `GatewaySubscriptions`,
`ChatSync`, `SendQueue`, `Conversation`, `Notifications`, `Membership`, `Races`, `Polls`, and a
proof of every safety property their runs check.

Next, most important first:

1. The media life cycle (pending, ready, attached, swept) against its garbage collector.
2. The rate limiter as a function on integers.
