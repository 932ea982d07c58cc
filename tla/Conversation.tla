---------------------------- MODULE Conversation ----------------------------
(* One member's own view of one channel: the read cursor, the floor that       *)
(* "Delete chat" raises, the chats-list row that both decide, and the copies   *)
(* the member's devices hold.  The log only grows here (MessageLog); what a    *)
(* read asks for, by seq or by revision, is abstracted to a set of rows, as    *)
(* ChatSync has the cursors.  A step is what runs between two awaits of a      *)
(* request, a socket's handler or a device.                                    *)
EXTENDS Integers

CONSTANTS
    Devices,        \* the member's devices
    MaxSeq,         \* bound on messages
    MaxEvents       \* bound on what members and networks do: markRead calls, reads of rows,
                    \* clears, lost sockets, failed requests and handlers, and publications of
                    \* a message that is not the newest

ASSUME BoundsAssumption == MaxSeq \in Nat /\ MaxEvents \in Nat

VARIABLES
    head,           \* channels.last_seq
    floor,          \* channel_clears.cleared_before_seq, NoFloor without a row
    cursor,         \* read_cursors.last_read_seq, 0 without a row
    caughtUp,       \* positions with a "caught up" history row
    held,           \* rows each device stores
    up,             \* devices with an authenticated socket
    pending,        \* pendingReads of each device, NoRead when none
    frames,         \* msg.read frames on their way or queued at the gateway
    opening,        \* the msg.read frame being handled, per device
    wire,           \* msg.new frames on their way to each device
    page,           \* the read of rows each device has in flight
    clear,          \* the clear request each device has in flight
    \* History.
    hidden,         \* what each device was told is cleared when it last forgot
    late,           \* rows that were on their way to it at that moment, or were published since
    marked,         \* how far each device has read, as far as the cursor has not been lowered
    lost,           \* devices that lost a msg.read frame
    events          \* what is used up of MaxEvents

account == <<head, floor, cursor, caughtUp>>
socket == <<up, pending, frames, wire>>
history == <<hidden, late, marked, lost>>
vars == <<account, socket, history, held, opening, page, clear, events>>

Log == 1..MaxSeq
NoFloor == -1
NoRead == -1

Opening == [at : {"idle", "advance", "record"}, seen : 0..MaxSeq, count : 0..MaxSeq]
Page == [at : {"none", "asked", "answered"}, floor : 0..MaxSeq, rows : SUBSET Log]
Clear == [at : {"none", "commit", "forget"}, upTo : 0..MaxSeq]

TypeOK ==
    /\ head \in 0..MaxSeq /\ floor \in NoFloor..MaxSeq /\ cursor \in 0..MaxSeq
    /\ caughtUp \subseteq 0..MaxSeq /\ up \subseteq Devices /\ lost \subseteq Devices
    /\ held \in [Devices -> SUBSET Log] /\ wire \in [Devices -> SUBSET Log]
    /\ marked \in [Devices -> 0..MaxSeq] /\ pending \in [Devices -> NoRead..MaxSeq]
    /\ frames \in [Devices -> SUBSET (0..MaxSeq)]
    /\ opening \in [Devices -> Opening] /\ page \in [Devices -> Page] /\ clear \in [Devices -> Clear]
    /\ hidden \in [Devices -> 0..MaxSeq] /\ late \in [Devices -> SUBSET Log]
    /\ events \in 0..MaxEvents

Idle == [at |-> "idle", seen |-> 0, count |-> 0]
NoPage == [at |-> "none", floor |-> 0, rows |-> {}]
NoClear == [at |-> "none", upTo |-> 0]

Init ==
    /\ head = 0 /\ floor = NoFloor /\ cursor = 0 /\ caughtUp = {}
    /\ held = [d \in Devices |-> {}] /\ up = {} /\ marked = [d \in Devices |-> 0]
    /\ pending = [d \in Devices |-> NoRead] /\ frames = [d \in Devices |-> {}]
    /\ opening = [d \in Devices |-> Idle] /\ wire = [d \in Devices |-> {}]
    /\ page = [d \in Devices |-> NoPage] /\ clear = [d \in Devices |-> NoClear]
    /\ hidden = [d \in Devices |-> 0] /\ late = [d \in Devices |-> {}] /\ lost = {}
    /\ events = 0

Event == events < MaxEvents /\ events' = events + 1

-----------------------------------------------------------------------------
(* What every read computes from the rows.                                     *)

Greater(m, n) == IF m > n THEN m ELSE n
Lesser(m, n) == IF m < n THEN m ELSE n

ClearedFloor == IF floor = NoFloor THEN 0 ELSE floor
VisibleAbove(bar) == {s \in 1..head : s > bar}
Unread == Greater(head - cursor, 0)
Listed == floor = NoFloor \/ VisibleAbove(ClearedFloor) # {}

-----------------------------------------------------------------------------
(* Messages and the socket.                                                    *)

\* A message commits ...
Post ==
    /\ head < MaxSeq
    /\ head' = head + 1
    /\ UNCHANGED <<floor, cursor, caughtUp, socket, history, held, opening, page, clear, events>>

\* ... and is published to the sockets there are: never, once, or again at any later time,
\* when the sender retries what was stored or the worker handles the event again.
Publish(s) ==
    /\ s \in 1..head
    /\ \/ s = head /\ UNCHANGED events
       \/ s < head /\ Event
    /\ wire' = [d \in Devices |-> IF d \in up THEN wire[d] \union {s} ELSE wire[d]]
    /\ late' = [d \in Devices |-> IF d \in up /\ s <= hidden[d] THEN late[d] \union {s} ELSE late[d]]
    /\ UNCHANGED <<account, up, pending, frames, hidden, marked, lost, held, opening, page, clear>>

Deliver(d) ==
    /\ \E s \in wire[d] : /\ held' = [held EXCEPT ![d] = @ \union {s}]
                          /\ wire' = [wire EXCEPT ![d] = @ \ {s}]
    /\ UNCHANGED <<account, up, pending, frames, history, opening, page, clear, events>>

\* Mutant: forgotten whether or not there is a socket.
FlushedEvenOffline(d, upTo, connected) ==
    /\ pending' = [pending EXCEPT ![d] = NoRead]
    /\ frames' = [frames EXCEPT ![d] = IF connected /\ upTo # NoRead THEN @ \union {upTo} ELSE @]

\* What flushReads does with what is pending: sent, and forgotten once sent.
Flushed(d, upTo, connected) ==
    /\ pending' = [pending EXCEPT ![d] = IF connected THEN NoRead ELSE upTo]
    /\ frames' = [frames EXCEPT ![d] = IF connected /\ upTo # NoRead THEN @ \union {upTo} ELSE @]

\* auth.ok: the channel list is replaced and held reads go out.
Connect(d) ==
    /\ d \notin up
    /\ up' = up \union {d}
    /\ Flushed(d, pending[d], TRUE)
    /\ UNCHANGED <<account, wire, history, held, opening, page, clear, events>>

\* The socket goes; of the frames sent on it the gateway keeps those it has received.
Drop(d) ==
    /\ d \in up
    /\ Event
    /\ up' = up \ {d}
    /\ wire' = [wire EXCEPT ![d] = {}]
    /\ \E kept \in SUBSET frames[d] :
          /\ frames' = [frames EXCEPT ![d] = kept]
          /\ lost' = IF kept = frames[d] THEN lost ELSE lost \union {d}
    /\ UNCHANGED <<account, pending, hidden, late, marked, held, opening, page, clear>>

\* Opening a chat, and each message shown while it is open.  The seq is that of the newest row
\* held or, if higher, the last_seq of the channel list: the head of some earlier moment.
MarkRead(d) ==
    /\ Event
    /\ \E upTo \in 0..head :
          /\ \A s \in held[d] : s <= upTo
          /\ Flushed(d, Greater(pending[d], upTo), d \in up)
          /\ marked' = [marked EXCEPT ![d] = Greater(@, upTo)]
    /\ UNCHANGED <<account, up, wire, hidden, late, lost, held, opening, page, clear>>

-----------------------------------------------------------------------------
(* openChat, three statements on no transaction.  The seq in the frame is not  *)
(* used: the member has read what the channel holds when the frame is handled. *)

OpenRead(d) ==
    /\ opening[d].at = "idle"
    /\ \E upTo \in frames[d] : frames' = [frames EXCEPT ![d] = @ \ {upTo}]
    /\ opening' = [opening EXCEPT ![d] = [at |-> "advance", seen |-> head, count |-> Unread]]
    /\ UNCHANGED <<account, up, pending, wire, history, held, page, clear, events>>

\* Mutant: the cursor is set to what was read.
AdvancedOutright(seen) == seen

\* advanceReadCursor: GREATEST of the row and what was read.
Advanced(seen) == Greater(cursor, seen)

OpenAdvance(d) ==
    /\ opening[d].at = "advance"
    /\ cursor' = Advanced(opening[d].seen)
    /\ opening' = [opening EXCEPT ![d] = IF @.count > 0 THEN [@ EXCEPT !.at = "record"] ELSE Idle]
    /\ UNCHANGED <<head, floor, caughtUp, socket, history, held, page, clear, events>>

\* The history row, keyed by the position, and not repeated for it.
OpenRecord(d) ==
    /\ opening[d].at = "record"
    /\ caughtUp' = caughtUp \union {opening[d].seen}
    /\ opening' = [opening EXCEPT ![d] = Idle]
    /\ UNCHANGED <<head, floor, cursor, socket, history, held, page, clear, events>>

\* A statement fails or the gateway dies: nobody repeats the frame.
OpenFails(d) ==
    /\ opening[d].at # "idle"
    /\ Event
    /\ lost' = lost \union {d}
    /\ opening' = [opening EXCEPT ![d] = Idle]
    /\ UNCHANGED <<account, socket, hidden, late, marked, held, page, clear>>

-----------------------------------------------------------------------------
(* Reads of rows.  The floor comes with the access context, the rows later.    *)

AskPage(d) ==
    /\ page[d].at = "none"
    /\ Event
    /\ page' = [page EXCEPT ![d] = [at |-> "asked", floor |-> ClearedFloor, rows |-> {}]]
    /\ UNCHANGED <<account, socket, history, held, opening, clear>>

\* Mutant: a read that forgets the floor.
AnsweredInFull(asked, bar) == asked

Answered(asked, bar) == asked \intersect VisibleAbove(bar)

ReadPage(d) ==
    /\ page[d].at = "asked"
    /\ \E asked \in SUBSET (1..head) :
          page' = [page EXCEPT ![d].at = "answered", ![d].rows = Answered(asked, page[d].floor)]
    /\ UNCHANGED <<account, socket, history, held, opening, clear, events>>

StorePage(d) ==
    /\ page[d].at = "answered"
    /\ held' = [held EXCEPT ![d] = @ \union page[d].rows]
    /\ page' = [page EXCEPT ![d] = NoPage]
    /\ UNCHANGED <<account, socket, history, opening, clear, events>>

PageFails(d) ==
    /\ page[d].at # "none"
    /\ Event
    /\ page' = [page EXCEPT ![d] = NoPage]
    /\ UNCHANGED <<account, socket, history, held, opening, clear>>

-----------------------------------------------------------------------------
(* "Delete chat".  The head is read without a lock; both upserts set it        *)
(* whatever the rows held, and commit together.                                *)

ClearRead(d) ==
    /\ clear[d].at = "none"
    /\ Event
    /\ clear' = [clear EXCEPT ![d] = [at |-> "commit", upTo |-> head]]
    /\ UNCHANGED <<account, socket, history, held, opening, page>>

ClearCommit(d) ==
    /\ clear[d].at = "commit"
    /\ floor' = clear[d].upTo
    /\ cursor' = clear[d].upTo
    /\ clear' = [clear EXCEPT ![d].at = "forget"]
    /\ hidden' = [e \in Devices |-> Lesser(hidden[e], clear[d].upTo)]
    /\ marked' = [e \in Devices |-> IF clear[d].upTo < cursor THEN Lesser(marked[e], clear[d].upTo) ELSE marked[e]]
    /\ UNCHANGED <<head, caughtUp, socket, late, lost, held, opening, page, events>>

\* forgetChannel, once the request has answered.
Forget(d) ==
    /\ clear[d].at = "forget"
    /\ held' = [held EXCEPT ![d] = {}]
    /\ clear' = [clear EXCEPT ![d] = NoClear]
    /\ hidden' = [hidden EXCEPT ![d] = Lesser(clear[d].upTo, ClearedFloor)]
    /\ late' = [late EXCEPT ![d] =
                   {s \in wire[d] \union (IF page[d].at = "none" THEN {} ELSE VisibleAbove(page[d].floor)) :
                      s <= hidden'[d]}]
    /\ UNCHANGED <<account, socket, marked, lost, opening, page, events>>

\* The transaction fails, or its answer never arrives: the device forgets nothing.
ClearFails(d) ==
    /\ clear[d].at # "none"
    /\ Event
    /\ clear' = [clear EXCEPT ![d] = NoClear]
    /\ UNCHANGED <<account, socket, history, held, opening, page>>

-----------------------------------------------------------------------------
Device(d) ==
    \/ Deliver(d) \/ Connect(d) \/ Drop(d) \/ MarkRead(d)
    \/ AskPage(d) \/ StorePage(d) \/ PageFails(d) \/ ClearRead(d) \/ Forget(d) \/ ClearFails(d)
Server(d) == OpenRead(d) \/ OpenAdvance(d) \/ OpenRecord(d) \/ OpenFails(d) \/ ReadPage(d) \/ ClearCommit(d)

Next == Post \/ (\E s \in Log : Publish(s)) \/ \E d \in Devices : Device(d) \/ Server(d)

Spec == Init /\ [][Next]_vars

-----------------------------------------------------------------------------
(* Whatever is counted as unread can be seen: no unread message lies under the *)
(* floor, and a conversation that claims one is in the chats list.  A clear    *)
(* that left the cursor behind, or a cursor that fell under the floor after    *)
(* it, would show a number that nothing on the screen explains (dm.ts 776).    *)
UnreadIsVisible ==
    Unread > 0 => Listed /\ \A s \in (cursor + 1)..head : s \in VisibleAbove(ClearedFloor)

(* What a device was told is cleared does not come back to it by any read asked *)
(* for afterwards, whatever that read asks for and whichever clears overlap: a  *)
(* row may only return on its own, because it was already on its way when the   *)
(* device forgot its copy, or because its message is published once more.       *)
ClearedStaysAway == \A d \in Devices : held[d] \intersect 1..hidden[d] \subseteq late[d]

(* A read that was made is never forgotten: until the cursor has it, it is     *)
(* pending, in a frame or in the hands of the gateway, whose own reading of    *)
(* last_seq is at least as high; unless its socket or its handler failed.      *)
ReadsAreKept ==
    \A d \in Devices : \/ marked[d] <= cursor \/ d \in lost
                       \/ pending[d] >= marked[d] \/ frames[d] # {}
                       \/ opening[d].at = "advance" /\ opening[d].seen >= marked[d]

(* What the code comments claim and two clears at once break: a second clear   *)
(* never un-hides what a first one hid (dm.ts 803).                            *)
FloorNeverFalls == [][floor' >= floor]_vars

(* What the code comments claim and a clear breaks that read the head before   *)
(* a message was read: a cursor never moves backward (reads.ts 705).           *)
CursorNeverFalls == [][cursor' >= cursor]_vars
=============================================================================
