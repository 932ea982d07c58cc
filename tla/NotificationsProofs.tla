------------------------- MODULE NotificationsProofs -------------------------
(***************************************************************************)
(* What holds of the notifications of a channel for any members, devices,  *)
(* messages and failures: who is told, who is rung, how often, and who is   *)
(* not.  The proofs follow one row of the outbox: the types of the rows     *)
(* and of the job that runs one; the key a push takes from the row that     *)
(* planned it; what a plan still has to do; and what a push owes to its     *)
(* recipients between its steps.                                           *)
(***************************************************************************)
EXTENDS Notifications, SequenceTheorems, FiniteSetTheorems, TLAPS

Kinds == {"text", "announcement"}
Statuses == {"ready", "done", "parked"}
Steps == {"evaluate", "devices", "send", "record", "invalidate", "settle"}
Row == [type : {"created", "edited", "push"}, seq : 1..MaxSeq, key : Nat, to : SUBSET Users,
        status : Statuses, attempts : 0..MaxAttempts]
Item == [do : {"rows", "push"}, slot : 0..3, type : {"announcement", "mentioned", "push"},
         to : SUBSET Users]

\* A job runs a plan, or pushes.
Plans(j) == j \in [id : Nat, step : {"plan"}, todo : Seq(Item)]
Shape(j, r) ==
  j \in [id : Nat, step : Steps, remaining : SUBSET Users, targets : SUBSET (Users \X Devices),
         receipts : {r}, quiet : SUBSET Users]
Pushes(j) == \E r : Shape(j, r)

ChannelTypes ==
  /\ direct \in BOOLEAN /\ members \subseteq Users
  /\ kind \in Seq(Kinds) /\ Len(kind) <= MaxSeq
  /\ named \in Seq(SUBSET members) /\ Len(named) = Len(kind)
  /\ direct => \A s \in Seqs : kind[s] = "text"
RowTypes ==
  /\ outbox \in Seq(Row)
  /\ \A i \in Ids : outbox[i].seq \in Seqs /\ (outbox[i].status = "ready" => outbox[i].attempts < MaxAttempts)
JobTypes ==
  job # None =>
    /\ job.id \in Ids /\ outbox[job.id].status = "ready"
    /\ \/ Plans(job) /\ outbox[job.id].type # "push"
       \/ Pushes(job) /\ outbox[job.id].type = "push"
PhoneTypes ==
  /\ owner \in [Devices -> Users \cup {Gone}]
  /\ dead \subseteq Devices /\ muted \subseteq Users
  /\ ledger \subseteq Nat \X Devices
Openings == [user : Users, move : Nat, upTo : 0..MaxSeq, from : 0..MaxSeq, step : {"advance", "note", "clear"}]
ReadTypes ==
  /\ cursor \in [Users -> 0..MaxSeq]
  /\ opening \subseteq Openings
  /\ \A row \in inbox : row.key \in Int /\ row.to \in Users
  /\ moves \in Nat
CountTypes ==
  /\ buzzed \in [1..MaxSeq -> [Users -> [Devices -> Nat]]]
  /\ unrecorded \in [1..MaxSeq -> [Users -> [Devices -> Int]]]
TypeInv == ChannelTypes /\ RowTypes /\ JobTypes /\ PhoneTypes /\ ReadTypes /\ CountTypes

LEMMA Bounds == MaxSeq \in Nat /\ MaxFailures \in Nat /\ MaxAttempts \in Nat \ {0} /\ MaxMoves \in Nat /\ Gone \notin Users
  BY NotificationsAssumption DEF NotificationsAssumption

LEMMA InitTypes == Init => TypeInv
<1> SUFFICES ASSUME Init PROVE TypeInv
  OBVIOUS
<1> USE Bounds
<1>1. /\ kind = <<>> /\ named = <<>> /\ outbox = <<>> /\ job = None /\ opening = {}
      /\ inbox = {} /\ ledger = {} /\ dead = {} /\ muted = {} /\ moves = 0
  BY DEF Init
<1>2. ChannelTypes
  <2>1. members \subseteq Users /\ direct \in BOOLEAN
    BY DEF Init
  <2>2. Len(kind) = 0 /\ Len(named) = 0 /\ kind \in Seq(Kinds) /\ named \in Seq(SUBSET members)
    BY <1>1 DEF Init
  <2> QED BY <2>1, <2>2, Bounds DEF ChannelTypes, Seqs
<1>3. RowTypes /\ JobTypes
  BY <1>1 DEF RowTypes, JobTypes, Ids
<1>4. PhoneTypes
  BY <1>1, NotificationsAssumption DEF Init, PhoneTypes, NotificationsAssumption
<1>5. ReadTypes
  BY <1>1 DEF Init, ReadTypes, Openings
<1>6. CountTypes
  BY DEF Init, CountTypes
<1> QED BY <1>2, <1>3, <1>4, <1>5, <1>6 DEF TypeInv

LEMMA Appended ==
  ASSUME NEW T, NEW q \in Seq(T), NEW v \in T, NEW a, a = Append(q, v)
  PROVE  /\ a \in Seq(T) /\ Len(a) = Len(q) + 1 /\ Len(q) \in Nat
         /\ \A i \in 1..Len(q) : a[i] = q[i]
         /\ a[Len(q) + 1] = v
  OBVIOUS

LEMMA OneNew ==
  ASSUME NEW n \in Nat, NEW i \in 1..(n + 1)
  PROVE  i \in 1..n \/ i = n + 1
  OBVIOUS

LEMMA PutAt ==
  ASSUME NEW T, NEW q \in Seq(T), NEW i \in 1..Len(q), NEW b \in T, NEW a, a = [q EXCEPT ![i] = b]
  PROVE  a \in Seq(T) /\ Len(a) = Len(q) /\ a[i] = b /\ \A j \in 1..Len(q) : j # i => a[j] = q[j]
  OBVIOUS

\* What never changes about a row.
Same(r, x) == r.type = x.type /\ r.seq = x.seq /\ r.key = x.key /\ r.to = x.to

LEMMA Marked ==
  ASSUME NEW q \in Seq(Row), NEW i \in 1..Len(q), NEW a, a = [q EXCEPT ![i].status = "done"]
  PROVE  /\ a \in Seq(Row) /\ Len(a) = Len(q)
         /\ \A j \in 1..Len(q) : j # i => a[j] = q[j]
         /\ Same(a[i], q[i]) /\ a[i].status = "done"
<1> DEFINE b == [q[i] EXCEPT !.status = "done"]
<1>1. q[i] \in Row
  BY ElementOfSeq
<1>2. b \in Row /\ Same(b, q[i]) /\ b.status = "done"
  BY <1>1 DEF Row, Statuses, Same
<1>3. a = [q EXCEPT ![i] = b]
  OBVIOUS
<1> HIDE DEF b
<1>4. a \in Seq(Row) /\ Len(a) = Len(q) /\ a[i] = b /\ \A j \in 1..Len(q) : j # i => a[j] = q[j]
  BY <1>2, <1>3, PutAt
<1> QED BY <1>2, <1>4

\* A new row at the end of the outbox.
Adds(r) ==
  /\ r \in Row
  /\ outbox' \in Seq(Row) /\ Len(outbox') = Len(outbox) + 1 /\ Len(outbox) \in Nat
  /\ \A i \in Ids : outbox'[i] = outbox[i]
  /\ outbox'[Len(outbox) + 1] = r

LEMMA JobFacts ==
  ASSUME JobTypes, RowTypes, job # None
  PROVE  /\ job.id \in Ids /\ job.id \in Nat /\ job.id > 0 /\ outbox[job.id] \in Row
         /\ outbox[job.id].status = "ready" /\ outbox[job.id].attempts < MaxAttempts
         /\ job.step = "plan" => Plans(job) /\ job.todo \in Seq(Item) /\ outbox[job.id].type # "push"
         /\ job.step # "plan" =>
              /\ Pushes(job) /\ outbox[job.id].type = "push" /\ job.step \in Steps
              /\ job.remaining \subseteq Users /\ job.targets \subseteq Users \X Devices
              /\ job.quiet \subseteq Users
<1>1. job.id \in Ids /\ job.id \in Nat /\ job.id > 0 /\ outbox[job.id].status = "ready"
  BY DEF JobTypes, RowTypes, Ids
<1>2. outbox[job.id] \in Row /\ outbox[job.id].attempts < MaxAttempts
  BY <1>1, ElementOfSeq DEF RowTypes, Ids
<1>3. ASSUME Plans(job)
      PROVE  job.step = "plan" /\ job.todo \in Seq(Item)
  BY <1>3 DEF Plans
<1>4. ASSUME Pushes(job)
      PROVE  /\ job.step \in Steps /\ job.step # "plan"
             /\ job.remaining \subseteq Users /\ job.targets \subseteq Users \X Devices
             /\ job.quiet \subseteq Users
  BY <1>4 DEF Pushes, Shape, Steps
<1>5. CASE Plans(job) /\ outbox[job.id].type # "push"
  BY <1>1, <1>2, <1>3, <1>5
<1>6. CASE Pushes(job) /\ outbox[job.id].type = "push"
  BY <1>1, <1>2, <1>4, <1>6
<1> QED BY <1>1, <1>5, <1>6 DEF JobTypes

LEMMA PostAdds ==
  ASSUME TypeInv, Post
  PROVE  \E k \in Kinds, n \in SUBSET members :
           /\ direct => k = "text"
           /\ kind' \in Seq(Kinds) /\ Len(kind') = Len(kind) + 1 /\ Len(kind') <= MaxSeq /\ Len(kind) \in Nat
           /\ kind'[Len(kind) + 1] = k /\ \A s \in Seqs : kind'[s] = kind[s]
           /\ named' \in Seq(SUBSET members) /\ Len(named') = Len(kind) + 1
           /\ named'[Len(kind) + 1] = n /\ \A s \in Seqs : named'[s] = named[s]
           /\ Adds(Event("created", Len(kind) + 1, {}))
<1>1. PICK k \in Kinds, n \in SUBSET members :
        /\ direct => k = "text"
        /\ kind' = Append(kind, k) /\ named' = Append(named, n)
        /\ outbox' = Append(outbox, Event("created", Len(kind) + 1, {}))
  BY DEF Post, Kinds
<1>2. Len(kind) \in Nat /\ Len(kind) < MaxSeq /\ Len(named) = Len(kind)
  BY DEF Post, TypeInv, ChannelTypes
<1>3. /\ kind \in Seq(Kinds) /\ named \in Seq(SUBSET members) /\ outbox \in Seq(Row)
      /\ n \in SUBSET members /\ members \subseteq Users
  BY <1>1 DEF TypeInv, ChannelTypes, RowTypes
<1>4. /\ kind' \in Seq(Kinds) /\ Len(kind') = Len(kind) + 1 /\ kind'[Len(kind) + 1] = k
      /\ \A s \in Seqs : kind'[s] = kind[s]
  BY <1>1, <1>3, Appended DEF Seqs
<1>5. /\ named' \in Seq(SUBSET members) /\ Len(named') = Len(kind) + 1
      /\ named'[Len(kind) + 1] = n /\ \A s \in Seqs : named'[s] = named[s]
  BY <1>1, <1>2, <1>3, Appended DEF Seqs
<1>6. Event("created", Len(kind) + 1, {}) \in Row
  BY <1>2, Bounds DEF Event, Row, Statuses
<1>7. Adds(Event("created", Len(kind) + 1, {}))
  BY <1>1, <1>3, <1>6, Appended DEF Adds, Ids
<1>8. Len(kind') <= MaxSeq
  BY <1>2, <1>4, Bounds
<1> QED BY <1>1, <1>2, <1>4, <1>5, <1>7, <1>8

LEMMA EditAdds ==
  ASSUME TypeInv, NEW s \in Seqs, Edit(s)
  PROVE  \E n \in SUBSET members :
           /\ named' \in Seq(SUBSET members) /\ Len(named') = Len(kind)
           /\ named'[s] = n /\ \A t \in Seqs : t # s => named'[t] = named[t]
           /\ touched' = touched \cup {<<s, u>> : u \in (n \ named[s]) \cup (named[s] \ n)}
           /\ Adds(Event("edited", s, n \ named[s]))
           /\ named[s] \subseteq Users
<1>1. PICK n \in SUBSET members :
        /\ named' = [named EXCEPT ![s] = n]
        /\ outbox' = Append(outbox, Event("edited", s, n \ named[s]))
        /\ touched' = touched \cup {<<s, u>> : u \in (n \ named[s]) \cup (named[s] \ n)}
  BY DEF Edit
<1>2. Len(kind) \in Nat /\ Len(kind) <= MaxSeq /\ Len(named) = Len(kind) /\ s \in 1..Len(kind)
  BY DEF TypeInv, ChannelTypes, Seqs
<1>3. /\ named \in Seq(SUBSET members) /\ outbox \in Seq(Row) /\ n \in SUBSET members
      /\ members \subseteq Users
  BY <1>1 DEF TypeInv, ChannelTypes, RowTypes
<1>4. /\ named' \in Seq(SUBSET members) /\ Len(named') = Len(kind) /\ named'[s] = n
      /\ \A t \in Seqs : t # s => named'[t] = named[t]
  BY <1>1, <1>2, <1>3, PutAt DEF Seqs
<1>5. Event("edited", s, n \ named[s]) \in Row
  BY <1>2, <1>3, Bounds DEF Event, Row, Statuses
<1>6. Adds(Event("edited", s, n \ named[s]))
  BY <1>1, <1>3, <1>5, Appended DEF Adds, Ids
<1>7. named[s] \subseteq Users
  BY <1>2, <1>3, ElementOfSeq
<1> QED BY <1>1, <1>4, <1>6, <1>7

LEMMA HeadItem ==
  ASSUME TypeInv, Planned
  PROVE  /\ job # None /\ job.step = "plan" /\ job.todo \in Seq(Item) /\ Len(job.todo) \in Nat \ {0}
         /\ Head(job.todo) = job.todo[1] /\ job.todo[1] \in Item
         /\ Tail(job.todo) \in Seq(Item) /\ Len(Tail(job.todo)) = Len(job.todo) - 1
         /\ \A k \in 1..(Len(job.todo) - 1) : Tail(job.todo)[k] = job.todo[k + 1]
<1>1. job # None /\ job.step = "plan" /\ job.todo \in Seq(Item) /\ job.todo # <<>>
  BY JobFacts DEF TypeInv, Planned
<1>2. Len(job.todo) \in Nat \ {0}
  BY <1>1, EmptySeq
<1>3. Head(job.todo) = job.todo[1]
  BY <1>1
<1>4. job.todo[1] \in Item
  BY <1>1, <1>2, ElementOfSeq
<1>5. Tail(job.todo) \in Seq(Item) /\ Len(Tail(job.todo)) = Len(job.todo) - 1
  BY <1>1, <1>2
<1>6. \A k \in 1..(Len(job.todo) - 1) : Tail(job.todo)[k] = job.todo[k + 1]
  BY <1>1, <1>2
<1> QED BY <1>1, <1>2, <1>3, <1>4, <1>5, <1>6

LEMMA KeyType ==
  ASSUME NEW c \in Nat, NEW slot \in 0..3
  PROVE  NotificationKey(c, slot) \in Nat
  BY DEF NotificationKey, Slots

LEMMA ScheduleAdds ==
  ASSUME TypeInv, SchedulePush
  PROVE  Adds(Deferred(outbox[job.id].seq, NotificationKey(job.id, job.todo[1].slot), job.todo[1].to))
<1> DEFINE s == outbox[job.id].seq
           key == NotificationKey(job.id, job.todo[1].slot)
           to == job.todo[1].to
<1>1. Planned
  BY DEF SchedulePush
<1>2. outbox \in Seq(Row)
  BY DEF TypeInv, RowTypes
<1>3. outbox[job.id] \in Row /\ job.id \in Nat
  BY <1>1, JobFacts DEF TypeInv, Planned
<1>4. job.todo[1].slot \in 0..3 /\ to \subseteq Users
  BY <1>1, HeadItem DEF Item
<1>5. s \in 1..MaxSeq /\ key \in Nat
  BY <1>3, <1>4, KeyType DEF Row
<1>6. Deferred(s, key, to) \in Row
  BY <1>4, <1>5, Bounds DEF Deferred, Row, Statuses
<1>7. outbox' = Append(outbox, Deferred(s, key, to))
  BY <1>1, HeadItem DEF SchedulePush
<1> HIDE DEF s, key, to
<1>8. Adds(Deferred(s, key, to))
  BY <1>2, <1>6, <1>7, Appended DEF Adds, Ids
<1> QED BY <1>8 DEF s, key, to

\* The job's row ends in one of the given ways; nothing else about the outbox changes.
Ends(statuses) ==
  /\ outbox' \in Seq(Row) /\ Len(outbox') = Len(outbox) /\ Len(outbox) \in Nat
  /\ \A i \in Ids : i # job.id => outbox'[i] = outbox[i]
  /\ Same(outbox'[job.id], outbox[job.id]) /\ outbox'[job.id].status \in statuses
  /\ outbox'[job.id].status = "ready" => outbox'[job.id].attempts < MaxAttempts
  /\ job' = None

LEMMA SettleEnds ==
  ASSUME TypeInv, Settle
  PROVE  Ends({"done"})
<1>1. outbox \in Seq(Row) /\ job.id \in 1..Len(outbox)
  BY JobFacts DEF TypeInv, Settle, RowTypes, Ids
<1>2. outbox' = [outbox EXCEPT ![job.id].status = "done"] /\ job' = None
  BY DEF Settle
<1>3. outbox' \in Seq(Row) /\ Len(outbox') = Len(outbox)
         /\ (\A j \in 1..Len(outbox) : j # job.id => outbox'[j] = outbox[j])
         /\ Same(outbox'[job.id], outbox[job.id]) /\ outbox'[job.id].status = "done"
  BY <1>1, <1>2, Marked
<1> QED BY <1>1, <1>2, <1>3 DEF Ends, Ids

LEMMA FailEnds ==
  ASSUME TypeInv, Fail \/ RecordFails
  PROVE  Ends({"ready", "parked"})
<1>1. job # None
  BY DEF Fail, RecordFails, At
<1>2. outbox \in Seq(Row) /\ job.id \in 1..Len(outbox) /\ outbox[job.id].attempts < MaxAttempts
  BY <1>1, JobFacts DEF TypeInv, RowTypes, Ids
<1>3. outbox' = Thrown(job.id) /\ job' = None
  BY DEF Fail, RecordFails
<1> DEFINE r == outbox[job.id]
           st == IF r.attempts + 1 >= MaxAttempts THEN "parked" ELSE "ready"
           c == [r EXCEPT !.attempts = @ + 1]
           b == [c EXCEPT !.status = st]
<1>4. r \in Row /\ r.attempts < MaxAttempts
  BY <1>2, ElementOfSeq
<1> HIDE DEF r
<1>5. r.attempts \in Nat /\ r.attempts + 1 \in 0..MaxAttempts
  BY <1>4, Bounds DEF Row
<1>6. outbox' = [outbox EXCEPT ![job.id] = b]
  BY <1>3 DEF Thrown, r
<1>7. c \in Row /\ Same(c, r) /\ c.attempts = r.attempts + 1
  BY <1>4, <1>5 DEF Row, Same
<1>8. st \in {"ready", "parked"} /\ (st = "ready" => r.attempts + 1 < MaxAttempts)
  BY <1>5, Bounds
<1> HIDE DEF st, c
<1>9. b \in Row /\ Same(b, c) /\ b.status = st /\ b.attempts = c.attempts
  BY <1>7, <1>8 DEF Row, Same, Statuses
<1> HIDE DEF b
<1>10. /\ outbox' \in Seq(Row) /\ Len(outbox') = Len(outbox) /\ outbox'[job.id] = b
       /\ \A j \in 1..Len(outbox) : j # job.id => outbox'[j] = outbox[j]
  BY ONLY <1>2, <1>6, <1>9, PutAt
<1> QED BY <1>2, <1>3, <1>7, <1>8, <1>9, <1>10 DEF Ends, Ids, Same, r

Moves ==
  \/ \E u \in members : OpenChat(u) \/ ClearChat(u) \/ ToggleMute(u)
  \/ \E o \in opening : AdvanceReadCursor(o) \/ NoteCaughtUp(o) \/ ClearCommit(o)
  \/ \E d \in Devices : UnregisterDevice(d) \/ \E u \in Users : RegisterDevice(d, u)
Starts == \E i \in Ids : Handle(i) \/ Dispatch(i)
Works == WriteNotifications \/ Evaluate \/ FindDevices \/ Send \/ RecordDeliveries \/ InvalidateTokens

LEMMA Alternatives ==
  ASSUME [Next]_vars
  PROVE  Post \/ (\E s \in Seqs : Edit(s)) \/ Moves \/ Starts \/ Works \/ SchedulePush \/ Settle
           \/ Fail \/ RecordFails \/ UNCHANGED vars
  BY DEF Next, WorkerStep, Moves, Starts, Works

LEMMA MovesKeep ==
  ASSUME Moves
  PROVE  UNCHANGED <<direct, members, kind, named, touched, outbox, job, buzzed, unrecorded>>
<1>1. ASSUME NEW u \in members, OpenChat(u) \/ ClearChat(u)
      PROVE  UNCHANGED <<direct, members, kind, named, touched, outbox, job, buzzed, unrecorded>>
  BY <1>1 DEF OpenChat, ClearChat, data
<1>2. ASSUME NEW u \in members, ToggleMute(u)
      PROVE  UNCHANGED <<direct, members, kind, named, touched, outbox, job, buzzed, unrecorded>>
  BY <1>2 DEF ToggleMute
<1>3. ASSUME NEW o \in opening, AdvanceReadCursor(o) \/ ClearCommit(o)
      PROVE  UNCHANGED <<direct, members, kind, named, touched, outbox, job, buzzed, unrecorded>>
  BY <1>3 DEF AdvanceReadCursor, ClearCommit
<1>4. ASSUME NEW o \in opening, NoteCaughtUp(o)
      PROVE  UNCHANGED <<direct, members, kind, named, touched, outbox, job, buzzed, unrecorded>>
  BY <1>4 DEF NoteCaughtUp, history
<1>5. ASSUME NEW d \in Devices, UnregisterDevice(d)
      PROVE  UNCHANGED <<direct, members, kind, named, touched, outbox, job, buzzed, unrecorded>>
  BY <1>5 DEF UnregisterDevice
<1>6. ASSUME NEW d \in Devices, NEW u \in Users, RegisterDevice(d, u)
      PROVE  UNCHANGED <<direct, members, kind, named, touched, outbox, job, buzzed, unrecorded>>
  BY <1>6 DEF RegisterDevice
<1> QED BY <1>1, <1>2, <1>3, <1>4, <1>5, <1>6 DEF Moves

LEMMA WorkKeeps ==
  ASSUME Starts \/ Works
  PROVE  UNCHANGED <<direct, members, kind, named, touched, outbox, owner, muted, cursor, opening, moves, passed>>
<1> DEFINE same == UNCHANGED <<direct, members, kind, named, touched, outbox, owner, muted, cursor, opening, moves, passed>>
<1>1. ASSUME NEW i \in Ids, Handle(i) \/ Dispatch(i)
      PROVE  same
  BY <1>1 DEF Handle, Dispatch, data, history
<1>2. WriteNotifications => same
  BY DEF WriteNotifications, history
<1>3. Evaluate \/ FindDevices \/ Send => same
  BY DEF Evaluate, FindDevices, Send, data
<1>4. RecordDeliveries \/ InvalidateTokens => same
  BY DEF RecordDeliveries, InvalidateTokens, history
<1> QED BY <1>1, <1>2, <1>3, <1>4 DEF Starts, Works

LEMMA EndKeeps ==
  ASSUME SchedulePush \/ Settle \/ Fail \/ RecordFails
  PROVE  UNCHANGED <<data, opening, moves, buzzed, unrecorded, passed, touched, excused>>
  BY DEF SchedulePush, Settle, Fail, RecordFails, history

LEMMA TalkKeeps ==
  ASSUME Post \/ \E s \in Seqs : Edit(s)
  PROVE  UNCHANGED <<direct, members, inbox, ledger, owner, dead, muted, cursor, opening, job,
                     buzzed, unrecorded, passed, excused>>
<1>1. Post => UNCHANGED <<direct, members, inbox, ledger, owner, dead, muted, cursor, opening, job,
                     buzzed, unrecorded, passed, excused>>
  BY DEF Post, history
<1>2. ASSUME NEW s \in Seqs, Edit(s)
      PROVE UNCHANGED <<direct, members, inbox, ledger, owner, dead, muted, cursor, opening, job,
                     buzzed, unrecorded, passed, excused>>
  BY <1>2 DEF Edit
<1> QED BY <1>1, <1>2

LEMMA StepChannel ==
  ASSUME TypeInv, [Next]_vars
  PROVE  /\ ChannelTypes' /\ direct' = direct /\ members' = members
         /\ Len(kind) \in Nat /\ Len(kind) <= Len(kind') /\ \A s \in Seqs : s \in Seqs' /\ kind'[s] = kind[s]
<1> DEFINE goal == /\ ChannelTypes' /\ direct' = direct /\ members' = members
                   /\ Len(kind) \in Nat /\ Len(kind) <= Len(kind') /\ \A s \in Seqs : s \in Seqs' /\ kind'[s] = kind[s]
<1>1. CASE Post
  <2>1. PICK k \in Kinds, n \in SUBSET members :
           /\ kind' \in Seq(Kinds) /\ Len(kind') = Len(kind) + 1 /\ Len(kind') <= MaxSeq /\ Len(kind) \in Nat
           /\ \A s \in Seqs : kind'[s] = kind[s]
           /\ direct => k = "text"
           /\ kind'[Len(kind) + 1] = k
           /\ named' \in Seq(SUBSET members) /\ Len(named') = Len(kind) + 1
    BY <1>1, PostAdds
  <2>2. direct' = direct /\ members' = members
    BY <1>1, TalkKeeps
  <2>3. (\A s \in Seqs : s \in Seqs') /\ \A s \in Seqs' : s \in Seqs \/ s = Len(kind) + 1
    BY <2>1 DEF Seqs
  <2>4. direct => \A s \in Seqs' : kind'[s] = "text"
    BY <2>1, <2>3 DEF ChannelTypes, TypeInv
  <2>5. ChannelTypes'
    BY <2>1, <2>2, <2>4 DEF ChannelTypes, TypeInv
  <2> QED BY <2>1, <2>2, <2>3, <2>5
<1>2. ASSUME NEW s \in Seqs, Edit(s)
      PROVE goal
  <2>1. named' \in Seq(SUBSET members) /\ Len(named') = Len(kind)
    BY <1>2, EditAdds
  <2>2. direct' = direct /\ members' = members /\ kind' = kind
    BY <1>2, TalkKeeps DEF Edit
  <2> QED BY <2>1, <2>2 DEF ChannelTypes, TypeInv, Seqs
<1>3. ASSUME UNCHANGED <<direct, members, kind, named>>
      PROVE goal
  BY <1>3 DEF ChannelTypes, TypeInv, Seqs
<1> HIDE DEF goal
<1>4. CASE Moves
  BY <1>3, <1>4, MovesKeep DEF goal
<1>5. CASE Starts \/ Works
  BY <1>3, <1>5, WorkKeeps DEF goal
<1>6. CASE SchedulePush \/ Settle \/ Fail \/ RecordFails
  BY <1>3, <1>6, EndKeeps DEF data, goal
<1>7. CASE UNCHANGED vars
  BY <1>3, <1>7 DEF vars, data, goal
<1>8. goal
  BY <1>1, <1>2, <1>4, <1>5, <1>6, <1>7, Alternatives DEF goal
<1> QED BY <1>8 DEF goal

\* Rows are added at the end, and what has been decided about one stays.
RowsKept ==
  \A i \in Ids :
    /\ i \in Ids'
    /\ Same(outbox'[i], outbox[i])
    /\ outbox'[i].status = outbox[i].status
         \/ (job # None /\ i = job.id /\ outbox[i].status = "ready" /\ (Settle \/ outbox'[i].status # "done"))

LEMMA AddedRows ==
  ASSUME TypeInv, NEW r, Adds(r), r.seq \in Seqs', r.attempts = 0, [Next]_vars
  PROVE  RowTypes' /\ RowsKept
<1>1. \A i \in Ids : i \in Ids' /\ outbox'[i] = outbox[i]
  BY DEF Adds, Ids
<1>2. \A i \in Ids' : i \in Ids \/ i = Len(outbox) + 1
  BY DEF Adds, Ids
<1>3. \A i \in Ids : outbox[i].seq \in Seqs' /\ (outbox[i].status = "ready" => outbox[i].attempts < MaxAttempts)
  BY StepChannel DEF TypeInv, RowTypes
<1>4. RowTypes'
  BY <1>1, <1>2, <1>3, Bounds DEF Adds, RowTypes
<1> QED BY <1>1, <1>4 DEF RowsKept, Same

LEMMA EndedRows ==
  ASSUME TypeInv, job # None, (Settle /\ Ends({"done"})) \/ Ends({"ready", "parked"}), UNCHANGED kind
  PROVE  RowTypes' /\ RowsKept
<1>1. \A i \in Ids : i \in Ids'
  BY DEF Ends, Ids
<1>2. \A i \in Ids' : i \in Ids
  BY DEF Ends, Ids
<1>3. job.id \in Ids /\ outbox[job.id].status = "ready" /\ outbox \in Seq(Row)
  BY JobFacts DEF TypeInv, RowTypes
<1>4. \A i \in Ids : Same(outbox'[i], outbox[i])
  BY DEF Ends, Same
<1>5. RowsKept
  BY <1>1, <1>3, <1>4 DEF RowsKept, Ends
<1>6. \A i \in Ids : outbox'[i].seq \in Seqs' /\ (outbox'[i].status = "ready" => outbox'[i].attempts < MaxAttempts)
  BY <1>4 DEF Ends, Same, TypeInv, RowTypes, Seqs
<1>7. RowTypes'
  BY <1>2, <1>6 DEF RowTypes, Ends
<1> QED BY <1>5, <1>7

LEMMA StepRows ==
  ASSUME TypeInv, [Next]_vars
  PROVE  RowTypes' /\ RowsKept
<1>0. \A i \in Ids : outbox[i] \in Row
  BY ElementOfSeq DEF TypeInv, RowTypes, Ids
<1>1. CASE Post
  <2>1. Adds(Event("created", Len(kind) + 1, {})) /\ Len(kind) \in Nat /\ Len(kind') = Len(kind) + 1
    BY <1>1, PostAdds
  <2>2. /\ Event("created", Len(kind) + 1, {}).seq \in Seqs'
        /\ Event("created", Len(kind) + 1, {}).attempts = 0
    BY <2>1 DEF Event, Seqs
  <2> QED BY <2>1, <2>2, AddedRows
<1>2. ASSUME NEW s \in Seqs, Edit(s)
      PROVE  RowTypes' /\ RowsKept
  <2>1. PICK n \in SUBSET members : Adds(Event("edited", s, n \ named[s]))
    BY <1>2, EditAdds
  <2>2. /\ Event("edited", s, n \ named[s]).seq \in Seqs'
        /\ Event("edited", s, n \ named[s]).attempts = 0
    BY StepChannel DEF Event
  <2> QED BY <2>1, <2>2, AddedRows
<1>3. CASE SchedulePush
  <2> DEFINE r == Deferred(outbox[job.id].seq, NotificationKey(job.id, job.todo[1].slot), job.todo[1].to)
  <2>1. Adds(r)
    BY <1>3, ScheduleAdds
  <2>2. outbox[job.id].seq \in Seqs
    BY <1>3, JobFacts DEF TypeInv, RowTypes, SchedulePush, Planned
  <2>3. r.seq \in Seqs' /\ r.attempts = 0
    BY <2>2, StepChannel DEF Deferred
  <2> HIDE DEF r
  <2> QED BY <2>1, <2>3, AddedRows
<1>4. CASE Settle
  BY <1>4, SettleEnds, EndedRows, EndKeeps DEF data, Settle
<1>5. CASE Fail \/ RecordFails
  BY <1>5, FailEnds, EndedRows, EndKeeps DEF data, Fail, RecordFails, At
<1>6. ASSUME UNCHANGED <<kind, outbox>>
      PROVE  RowTypes' /\ RowsKept
  BY <1>6 DEF RowTypes, TypeInv, RowsKept, Ids, Seqs, Same
<1>7. CASE Moves
  BY <1>6, <1>7, MovesKeep
<1>8. CASE Starts \/ Works
  BY <1>6, <1>8, WorkKeeps
<1>9. CASE UNCHANGED vars
  BY <1>6, <1>9 DEF vars, data
<1> QED BY <1>1, <1>2, <1>3, <1>4, <1>5, <1>7, <1>8, <1>9, Alternatives

LEMMA JoinIs ==
  ASSUME NEW S, NEW x \in Seq(S), NEW y \in Seq(S), NEW q \in Seq(S), Len(q) = Len(x) + Len(y),
         \A i \in 1..Len(x) : q[i] = x[i], \A i \in 1..Len(y) : q[Len(x) + i] = y[i]
  PROVE  x \o y = q
<1> DEFINE p == x \o y
<1>1. /\ p \in Seq(S) /\ Len(p) = Len(x) + Len(y)
      /\ \A i \in 1..(Len(x) + Len(y)) : p[i] = IF i <= Len(x) THEN x[i] ELSE y[i - Len(x)]
  BY ConcatProperties
<1> HIDE DEF p
<1>2. Len(x) \in Nat /\ Len(y) \in Nat
  OBVIOUS
<1>3. ASSUME NEW i \in 1..(Len(x) + Len(y))
      PROVE  p[i] = q[i]
  <2>1. CASE i <= Len(x)
    BY <1>1, <1>2, <2>1
  <2>2. CASE ~(i <= Len(x))
    <3>1. i - Len(x) \in 1..Len(y) /\ Len(x) + (i - Len(x)) = i
      BY <1>2, <2>2
    <3>2. q[i] = y[i - Len(x)]
      BY <3>1
    <3> QED BY <1>1, <2>2, <3>2
  <2> QED BY <2>1, <2>2
<1>4. p = q
  BY <1>1, <1>3, SeqEqual
<1> QED BY <1>4 DEF p

Joined(w, x, y, z, q) == w \o x \o y \o z = q

LEMMA Joins ==
  ASSUME NEW a, NEW b, NEW c, NEW d
  PROVE  /\ Joined(<<a, b>>, <<>>, <<>>, <<>>, <<a, b>>)
         /\ Joined(<<a, b>>, <<>>, <<c, d>>, <<>>, <<a, b, c, d>>)
         /\ Joined(<<>>, <<a>>, <<>>, <<>>, <<a>>)
         /\ Joined(<<>>, <<a>>, <<c, d>>, <<>>, <<a, c, d>>)
         /\ Joined(<<>>, <<>>, <<>>, <<a>>, <<a>>)
         /\ Joined(<<>>, <<>>, <<c, d>>, <<a>>, <<c, d, a>>)
<1> DEFINE S == {a, b, c, d}
           a1 == <<a>>
           ab == <<a, b>>
           cd == <<c, d>>
           abcd == <<a, b, c, d>>
           acd == <<a, c, d>>
           cda == <<c, d, a>>
<1>1. /\ a1 \in Seq(S) /\ Len(a1) = 1 /\ a1[1] = a
      /\ ab \in Seq(S) /\ Len(ab) = 2 /\ ab[1] = a /\ ab[2] = b
      /\ cd \in Seq(S) /\ Len(cd) = 2 /\ cd[1] = c /\ cd[2] = d
  OBVIOUS
<1>2. /\ abcd \in Seq(S) /\ Len(abcd) = 4 /\ abcd[1] = a /\ abcd[2] = b /\ abcd[3] = c /\ abcd[4] = d
      /\ acd \in Seq(S) /\ Len(acd) = 3 /\ acd[1] = a /\ acd[2] = c /\ acd[3] = d
      /\ cda \in Seq(S) /\ Len(cda) = 3 /\ cda[1] = c /\ cda[2] = d /\ cda[3] = a
  OBVIOUS
<1>3. <<>> \in Seq(S) /\ \A q \in Seq(S) : q \o <<>> = q /\ <<>> \o q = q
  BY ConcatEmptySeq, EmptySeq
<1> HIDE DEF S, a1, ab, cd, abcd, acd, cda
<1>4. (\A i \in 1..1 : i = 1) /\ (\A i \in 1..2 : i = 1 \/ i = 2)
  OBVIOUS
<1>5. ab \o cd = abcd
  <2>1. /\ Len(abcd) = Len(ab) + Len(cd) /\ \A i \in 1..Len(ab) : abcd[i] = ab[i]
       /\ \A i \in 1..Len(cd) : abcd[Len(ab) + i] = cd[i]
    BY <1>1, <1>2, <1>4
  <2> QED BY <1>1, <1>2, <2>1, JoinIs
<1>6. a1 \o cd = acd
  <2>1. /\ Len(acd) = Len(a1) + Len(cd) /\ \A i \in 1..Len(a1) : acd[i] = a1[i]
       /\ \A i \in 1..Len(cd) : acd[Len(a1) + i] = cd[i]
    BY <1>1, <1>2, <1>4
  <2> QED BY <1>1, <1>2, <2>1, JoinIs
<1>7. cd \o a1 = cda
  <2>1. /\ Len(cda) = Len(cd) + Len(a1) /\ \A i \in 1..Len(cd) : cda[i] = cd[i]
       /\ \A i \in 1..Len(a1) : cda[Len(cd) + i] = a1[i]
    BY <1>1, <1>2, <1>4
  <2> QED BY <1>1, <1>2, <2>1, JoinIs
<1>8. /\ ab \o <<>> \o <<>> \o <<>> = ab
      /\ ab \o <<>> \o cd \o <<>> = abcd
      /\ <<>> \o a1 \o <<>> \o <<>> = a1
      /\ <<>> \o a1 \o cd \o <<>> = acd
      /\ <<>> \o <<>> \o <<>> \o a1 = a1
      /\ <<>> \o <<>> \o cd \o a1 = cda
  BY <1>1, <1>2, <1>3, <1>5, <1>6, <1>7, Zenon
<1> QED BY <1>8 DEF Joined, a1, ab, cd, abcd, acd, cda

\* What a message's plan can be.
LEMMA CreatedPlanIs ==
  ASSUME ChannelTypes, NEW s \in Seqs, NEW n \in SUBSET members, NEW p, p = CreatedPlan(s, n)
  PROVE  \/ kind[s] = "announcement" /\ ~direct /\ n = {}
              /\ p = <<Tell(0, "announcement", members), Push(0, members \ n)>>
         \/ kind[s] = "announcement" /\ ~direct /\ n # {}
              /\ p = <<Tell(0, "announcement", members), Push(0, members \ n), Tell(1, "mentioned", n), Push(1, n)>>
         \/ kind[s] = "text" /\ direct /\ n = {} /\ p = <<Push(2, members)>>
         \/ kind[s] = "text" /\ direct /\ n # {}
              /\ p = <<Push(2, members), Tell(1, "mentioned", n), Push(1, n)>>
         \/ kind[s] = "text" /\ ~direct /\ n = {} /\ p = <<Push(3, members \ n)>>
         \/ kind[s] = "text" /\ ~direct /\ n # {}
              /\ p = <<Tell(1, "mentioned", n), Push(1, n), Push(3, members \ n)>>
<1>1. kind[s] \in Kinds
  BY ElementOfSeq DEF ChannelTypes, Seqs
<1>2. (kind[s] = "text" \/ (kind[s] = "announcement" /\ ~direct)) /\ kind[s] \in Kinds
  BY <1>1 DEF ChannelTypes, Kinds
<1>3. "text" # "announcement"
  OBVIOUS
<1> DEFINE t0 == Tell(0, "announcement", members)
           p0 == Push(0, members \ n)
           t1 == Tell(1, "mentioned", n)
           p1 == Push(1, n)
           p2 == Push(2, members)
           p3 == Push(3, members \ n)
<1>4. p = (IF kind[s] = "announcement" THEN <<t0, p0>> ELSE <<>>) \o (IF direct THEN <<p2>> ELSE <<>>)
            \o (IF n # {} THEN <<t1, p1>> ELSE <<>>) \o (IF ~direct /\ kind[s] = "text" THEN <<p3>> ELSE <<>>)
  BY DEF CreatedPlan
<1> HIDE DEF t0, p0, t1, p1, p2, p3
<1>5. CASE kind[s] = "announcement" /\ ~direct /\ n = {}
  <2>1. Joined(<<t0, p0>>, <<>>, <<>>, <<>>, p)
    BY <1>3, <1>4, <1>5 DEF Joined
  <2>2. Joined(<<t0, p0>>, <<>>, <<>>, <<>>, <<t0, p0>>)
    BY Joins, Zenon
  <2>3. p = <<t0, p0>>
    BY <2>1, <2>2, Zenon DEF Joined
  <2> QED BY <1>5, <2>3 DEF t0, p0
<1>6. CASE kind[s] = "announcement" /\ ~direct /\ n # {}
  <2>1. Joined(<<t0, p0>>, <<>>, <<t1, p1>>, <<>>, p)
    BY <1>3, <1>4, <1>6 DEF Joined
  <2>2. Joined(<<t0, p0>>, <<>>, <<t1, p1>>, <<>>, <<t0, p0, t1, p1>>)
    BY Joins, Zenon
  <2>3. p = <<t0, p0, t1, p1>>
    BY <2>1, <2>2, Zenon DEF Joined
  <2> QED BY <1>6, <2>3 DEF t0, p0, t1, p1
<1>7. CASE kind[s] = "text" /\ direct /\ n = {}
  <2>1. Joined(<<>>, <<p2>>, <<>>, <<>>, p)
    BY <1>3, <1>4, <1>7 DEF Joined
  <2>2. Joined(<<>>, <<p2>>, <<>>, <<>>, <<p2>>)
    BY Joins, Zenon
  <2>3. p = <<p2>>
    BY <2>1, <2>2, Zenon DEF Joined
  <2> QED BY <1>7, <2>3 DEF p2
<1>8. CASE kind[s] = "text" /\ direct /\ n # {}
  <2>1. Joined(<<>>, <<p2>>, <<t1, p1>>, <<>>, p)
    BY <1>3, <1>4, <1>8 DEF Joined
  <2>2. Joined(<<>>, <<p2>>, <<t1, p1>>, <<>>, <<p2, t1, p1>>)
    BY Joins, Zenon
  <2>3. p = <<p2, t1, p1>>
    BY <2>1, <2>2, Zenon DEF Joined
  <2> QED BY <1>8, <2>3 DEF p2, t1, p1
<1>9. CASE kind[s] = "text" /\ ~direct /\ n = {}
  <2>1. Joined(<<>>, <<>>, <<>>, <<p3>>, p)
    BY <1>3, <1>4, <1>9 DEF Joined
  <2>2. Joined(<<>>, <<>>, <<>>, <<p3>>, <<p3>>)
    BY Joins, Zenon
  <2>3. p = <<p3>>
    BY <2>1, <2>2, Zenon DEF Joined
  <2> QED BY <1>9, <2>3 DEF p3
<1>10. CASE kind[s] = "text" /\ ~direct /\ n # {}
  <2>1. Joined(<<>>, <<>>, <<t1, p1>>, <<p3>>, p)
    BY <1>3, <1>4, <1>10 DEF Joined
  <2>2. Joined(<<>>, <<>>, <<t1, p1>>, <<p3>>, <<t1, p1, p3>>)
    BY Joins, Zenon
  <2>3. p = <<t1, p1, p3>>
    BY <2>1, <2>2, Zenon DEF Joined
  <2> QED BY <1>10, <2>3 DEF t1, p1, p3
<1>11. direct \in BOOLEAN
  BY DEF ChannelTypes
<1> QED BY <1>2, <1>5, <1>6, <1>7, <1>8, <1>9, <1>10, <1>11

LEMMA ItemTypes ==
  ASSUME NEW slot \in 0..3, NEW to \in SUBSET Users, NEW type \in {"announcement", "mentioned"}
  PROVE  Tell(slot, type, to) \in Item /\ Push(slot, to) \in Item
  BY DEF Tell, Push, Item

LEMMA PlansAreItems ==
  ASSUME ChannelTypes, NEW s \in Seqs, NEW n \in SUBSET members, NEW a \in SUBSET Users
  PROVE  CreatedPlan(s, n) \in Seq(Item) /\ EditedPlan(a) \in Seq(Item)
<1>1. members \in SUBSET Users /\ n \in SUBSET Users /\ members \ n \in SUBSET Users
  BY DEF ChannelTypes
<1> DEFINE t0 == Tell(0, "announcement", members)
           p0 == Push(0, members \ n)
           t1 == Tell(1, "mentioned", n)
           p1 == Push(1, n)
           p2 == Push(2, members)
           p3 == Push(3, members \ n)
           e0 == Tell(0, "mentioned", a)
           e1 == Push(0, a)
<1>2. {t0, p0, t1, p1, p2, p3, e0, e1} \subseteq Item
  BY <1>1, ItemTypes
<1> DEFINE p == CreatedPlan(s, n)
<1>3. \/ p = <<t0, p0>> \/ p = <<t0, p0, t1, p1>> \/ p = <<p2>> \/ p = <<p2, t1, p1>> \/ p = <<p3>> \/ p = <<t1, p1, p3>>
  BY CreatedPlanIs
<1>4. EditedPlan(a) = <<>> \/ EditedPlan(a) = <<e0, e1>>
  BY DEF EditedPlan
<1> HIDE DEF t0, p0, t1, p1, p2, p3, e0, e1, p
<1>5. /\ <<t0, p0>> \in Seq(Item) /\ <<p2>> \in Seq(Item) /\ <<p3>> \in Seq(Item)
      /\ <<e0, e1>> \in Seq(Item)
  BY <1>2
<1>6. /\ <<t0, p0, t1, p1>> \in Seq(Item) /\ <<p2, t1, p1>> \in Seq(Item)
      /\ <<t1, p1, p3>> \in Seq(Item)
  BY <1>2
<1>7. p \in Seq(Item)
  BY <1>3, <1>5, <1>6
<1>8. EditedPlan(a) \in Seq(Item)
  BY <1>4, <1>5, EmptySeq
<1> QED BY <1>7, <1>8 DEF p

\* The push goes on.
Now(st, rem, tar, q) ==
  /\ job' # None /\ Pushes(job') /\ job'.id = job.id /\ job'.step = st
  /\ job'.remaining = rem /\ job'.targets = tar /\ job'.quiet = q

LEMMA FinishedIs ==
  ASSUME NEW j, NEW r, Shape(j, r), NEW f, f = [j EXCEPT !.remaining = {}, !.targets = {}, !.quiet = {}, !.step = "settle"]
  PROVE  Shape(f, r) /\ f.id = j.id /\ f.step = "settle" /\ f.remaining = {} /\ f.targets = {} /\ f.quiet = {}
  BY DEF Shape, Steps

LEMMA Real ==
  ASSUME NEW j, j.id > 0
  PROVE  j # None
  BY DEF None

\* Who has passed the message of the job's row.
Passers == {u \in Users : <<About, u>> \in passed}

LEMMA EvaluateJob ==
  ASSUME TypeInv, Evaluate, NEW left, left = (job.remaining \ ReadPast(About)) \ muted
  PROVE  \/ left = {} /\ Now("settle", {}, {}, {})
         \/ left # {} /\ Now("devices", left, job.targets, Passers)
<1> DEFINE q == Passers
<1>1. /\ job # None /\ job.step = "evaluate" /\ job.id > 0 /\ Pushes(job)
      /\ job.remaining \subseteq Users
  BY JobFacts DEF Evaluate, At, TypeInv
<1>2. PICK r : Shape(job, r)
  BY <1>1 DEF Pushes
<1>3. CASE left = {}
  <2>1. job' = Finished
    BY <1>3 DEF Evaluate
  <2> QED BY <1>1, <1>2, <1>3, <2>1, FinishedIs, Real DEF Finished, Now, Pushes
<1>4. CASE left # {}
  <2>1. job' = [job EXCEPT !.remaining = left, !.step = "devices", !.quiet = q]
    BY <1>4 DEF Evaluate, Passers
  <2>2. left \subseteq Users /\ q \subseteq Users
    BY <1>1 DEF Passers
  <2> HIDE DEF q
  <2>3. /\ Shape(job', r) /\ job'.id = job.id /\ job'.step = "devices" /\ job'.remaining = left
        /\ job'.targets = job.targets /\ job'.quiet = q
    BY ONLY <1>2, <2>1, <2>2 DEF Shape, Steps
  <2> QED BY <1>1, <1>4, <2>3, Real DEF Now, Pushes, q
<1> QED BY <1>3, <1>4

LEMMA FindJob ==
  ASSUME TypeInv, FindDevices, NEW to, to = Unsent(LiveDevices(job.remaining))
  PROVE  \/ to = {} /\ Now("settle", {}, {}, {})
         \/ to # {} /\ Now("send", {}, {<<owner[d], d>> : d \in to}, job.quiet)
<1>1. /\ job # None /\ job.step = "devices" /\ job.id > 0 /\ Pushes(job)
      /\ job.remaining \subseteq Users
  BY JobFacts DEF FindDevices, At, TypeInv
<1>2. PICK r : Shape(job, r)
  BY <1>1 DEF Pushes
<1>3. CASE to = {}
  <2>1. job' = Finished
    BY <1>3 DEF FindDevices
  <2> QED BY <1>1, <1>2, <1>3, <2>1, FinishedIs, Real DEF Finished, Now, Pushes
<1>4. CASE to # {}
  <2> DEFINE tar == {<<owner[d], d>> : d \in to}
  <2>1. job' = [job EXCEPT !.targets = tar, !.remaining = {}, !.step = "send"]
    BY <1>4 DEF FindDevices
  <2>2. \A d \in to : d \in Devices /\ owner[d] \in Users
    BY <1>1 DEF Unsent, LiveDevices
  <2>3. tar \subseteq Users \X Devices
    BY <2>2
  <2> HIDE DEF tar
  <2>4. /\ Shape(job', r) /\ job'.id = job.id /\ job'.step = "send" /\ job'.remaining = {}
        /\ job'.targets = tar /\ job'.quiet = job.quiet
    BY ONLY <1>2, <2>1, <2>3 DEF Shape, Steps
  <2> QED BY <1>1, <1>4, <2>4, Real DEF Now, Pushes, tar
<1> QED BY <1>3, <1>4

LEMMA SendJob ==
  ASSUME TypeInv, Send
  PROVE  \E rang \in SUBSET job.targets :
           /\ buzzed' = Added(buzzed, 1, rang) /\ unrecorded' = Added(unrecorded, 1, rang)
           /\ excused' = excused \cup {<<About, t[1]>> : t \in job.targets \ rang}
           /\ Now("settle", {}, {}, {}) \/ Now("record", job.remaining, job.targets, {})
<1>1. job # None /\ job.step = "send" /\ job.id > 0 /\ Pushes(job)
  BY JobFacts DEF Send, At, TypeInv
<1>2. PICK r : Shape(job, r)
  BY <1>1 DEF Pushes
<1>3. PICK answer \in [job.targets -> {"ok", "gone", "failed"}] \cup {[t \in job.targets |-> "unheard"]} :
       /\ buzzed' = Added(buzzed, 1, {t \in job.targets : answer[t] \in {"ok", "unheard"}})
       /\ unrecorded' = Added(unrecorded, 1, {t \in job.targets : answer[t] \in {"ok", "unheard"}})
       /\ excused' = excused \cup {<<About, t[1]>> : t \in job.targets \ {t \in job.targets : answer[t] \in {"ok", "unheard"}}}
       /\ job' = [Finished EXCEPT !.receipts = answer] \/ job' = [job EXCEPT !.receipts = answer, !.quiet = {}, !.step = "record"]
  BY DEF Send
<1>4. /\ Shape(Finished, r) /\ Finished.id = job.id /\ Finished.step = "settle"
      /\ Finished.remaining = {} /\ Finished.targets = {} /\ Finished.quiet = {}
  BY <1>2, FinishedIs DEF Finished
<1>5. CASE job' = [Finished EXCEPT !.receipts = answer]
  <2> DEFINE f == Finished
  <2>1. /\ Shape(f, r) /\ f.id = job.id /\ f.step = "settle" /\ f.remaining = {}
        /\ f.targets = {} /\ f.quiet = {} /\ job' = [f EXCEPT !.receipts = answer]
    BY <1>4, <1>5
  <2> HIDE DEF f
  <2>2. /\ Shape(job', answer) /\ job'.id = job.id /\ job'.step = "settle"
        /\ job'.remaining = {} /\ job'.targets = {} /\ job'.quiet = {}
    BY ONLY <2>1 DEF Shape, Steps
  <2>3. Now("settle", {}, {}, {})
    BY <1>1, <2>2, Real DEF Now, Pushes
  <2> QED BY <1>3, <2>3
<1>6. CASE job' = [job EXCEPT !.receipts = answer, !.quiet = {}, !.step = "record"]
  <2>2. /\ Shape(job', answer) /\ job'.id = job.id /\ job'.step = "record"
        /\ job'.remaining = job.remaining /\ job'.targets = job.targets /\ job'.quiet = {}
    BY ONLY <1>2, <1>6 DEF Shape, Steps
  <2>3. Now("record", job.remaining, job.targets, {})
    BY <1>1, <2>2, Real DEF Now, Pushes
  <2> QED BY <1>3, <2>3
<1> QED BY <1>3, <1>5, <1>6

LEMMA RecordJob ==
  ASSUME TypeInv, RecordDeliveries
  PROVE  Now("settle", {}, {}, {}) \/ Now("invalidate", job.remaining, job.targets, job.quiet)
<1>1. job # None /\ job.step = "record" /\ job.id > 0 /\ Pushes(job)
  BY JobFacts DEF RecordDeliveries, At, TypeInv
<1>2. PICK r : Shape(job, r)
  BY <1>1 DEF Pushes
<1>3. CASE job' = Finished
  BY <1>1, <1>2, <1>3, FinishedIs, Real DEF Finished, Now, Pushes
<1>4. CASE job' = [job EXCEPT !.step = "invalidate"]
  <2>1. /\ Shape(job', r) /\ job'.id = job.id /\ job'.step = "invalidate"
        /\ job'.remaining = job.remaining /\ job'.targets = job.targets
        /\ job'.quiet = job.quiet
    BY ONLY <1>2, <1>4 DEF Shape, Steps
  <2> QED BY <1>1, <2>1, Real DEF Now, Pushes
<1> QED BY <1>3, <1>4 DEF RecordDeliveries

LEMMA InvalidateJob ==
  ASSUME TypeInv, InvalidateTokens
  PROVE  Now("settle", {}, {}, {})
<1>1. job # None /\ job.step = "invalidate" /\ job.id > 0 /\ Pushes(job)
  BY JobFacts DEF InvalidateTokens, At, TypeInv
<1>2. PICK r : Shape(job, r)
  BY <1>1 DEF Pushes
<1>3. job' = Finished
  BY DEF InvalidateTokens
<1> QED BY <1>1, <1>2, <1>3, FinishedIs, Real DEF Finished, Now, Pushes

\* The worker's own steps that go on with a push.
PushSteps == Evaluate \/ FindDevices \/ Send \/ RecordDeliveries \/ InvalidateTokens

LEMMA PushGoesOn ==
  ASSUME TypeInv, PushSteps
  PROVE  /\ job # None /\ job.step # "plan" /\ UNCHANGED outbox
         /\ \E st, rem, tar, q : Now(st, rem, tar, q) /\ st \in Steps
<1>1. job # None /\ job.step # "plan" /\ UNCHANGED outbox
  BY DEF PushSteps, Evaluate, FindDevices, Send, RecordDeliveries, InvalidateTokens, At
<1>2. CASE Evaluate
  BY <1>1, <1>2, EvaluateJob DEF Steps
<1>3. CASE FindDevices
  BY <1>1, <1>3, FindJob DEF Steps
<1>4. CASE Send
  BY <1>1, <1>4, SendJob DEF Steps
<1>5. CASE RecordDeliveries
  BY <1>1, <1>5, RecordJob DEF Steps
<1>6. CASE InvalidateTokens
  BY <1>1, <1>6, InvalidateJob DEF Steps
<1> QED BY <1>2, <1>3, <1>4, <1>5, <1>6 DEF PushSteps

LEMMA HandleJob ==
  ASSUME TypeInv, NEW i \in Ids, Handle(i)
  PROVE  /\ job = None /\ job' # None /\ job'.id = i /\ job'.step = "plan" /\ Plans(job')
         /\ outbox[i].type # "push" /\ outbox[i].status = "ready" /\ i \in Nat
         /\ outbox[i].seq \in Seqs /\ named[outbox[i].seq] \in SUBSET members /\ outbox[i].to \subseteq Users
         /\ job'.todo = IF outbox[i].type = "created" THEN CreatedPlan(outbox[i].seq, named[outbox[i].seq])
                                                      ELSE EditedPlan(outbox[i].to)
<1> DEFINE todo == IF outbox[i].type = "created" THEN CreatedPlan(outbox[i].seq, named[outbox[i].seq])
                                                  ELSE EditedPlan(outbox[i].to)
<1>1. job = None /\ outbox[i].status = "ready" /\ outbox[i].type # "push"
  BY DEF Handle, Claimable
<1>2. i \in Nat /\ i > 0 /\ outbox[i] \in Row /\ outbox[i].seq \in Seqs
  BY ElementOfSeq DEF Ids, TypeInv, RowTypes
<1>3. outbox[i].to \subseteq Users
  BY <1>2 DEF Row
<1>4. named[outbox[i].seq] \in SUBSET members
  BY <1>2, ElementOfSeq DEF TypeInv, ChannelTypes, Seqs
<1>5. todo \in Seq(Item)
  BY <1>2, <1>3, <1>4, PlansAreItems DEF TypeInv
<1>6. job' = [id |-> i, step |-> "plan", todo |-> todo]
  BY DEF Handle
<1> HIDE DEF todo
<1>7. job'.id = i /\ job'.step = "plan" /\ job'.todo = todo /\ Plans(job')
  BY <1>2, <1>5, <1>6 DEF Plans
<1>8. job' # None
  BY <1>2, <1>7, Real
<1> QED BY <1>1, <1>2, <1>3, <1>4, <1>7, <1>8 DEF todo

LEMMA DispatchJob ==
  ASSUME TypeInv, NEW i \in Ids, Dispatch(i)
  PROVE  /\ job = None /\ job' # None /\ job'.id = i /\ job'.step = "evaluate" /\ Pushes(job')
         /\ outbox[i].type = "push" /\ outbox[i].status = "ready" /\ i \in Nat
         /\ job'.remaining = outbox[i].to /\ job'.targets = {}
         /\ job'.quiet = {}
<1>1. job = None /\ outbox[i].status = "ready" /\ outbox[i].type = "push"
  BY DEF Dispatch, Claimable
<1>2. i \in Nat /\ i > 0 /\ outbox[i] \in Row
  BY ElementOfSeq DEF Ids, TypeInv, RowTypes
<1>3. outbox[i].to \subseteq Users
  BY <1>2 DEF Row
<1> DEFINE none == <<>>
           to == outbox[i].to
<1>4. job' = [id |-> i, step |-> "evaluate", remaining |-> to, targets |-> {}, receipts |-> none, quiet |-> {}]
  BY DEF Dispatch
<1> HIDE DEF none, to
<1>5. /\ job'.id = i /\ job'.step = "evaluate" /\ job'.remaining = to /\ job'.targets = {}
      /\ job'.quiet = {}
  BY <1>4
<1>6. Shape(job', none)
  BY <1>2, <1>3, <1>4 DEF Shape, Steps, to
<1>7. job' # None
  BY <1>2, <1>5, Real
<1> QED BY <1>1, <1>2, <1>5, <1>6, <1>7 DEF Pushes, to

LEMMA TailJob ==
  ASSUME TypeInv, WriteNotifications \/ SchedulePush
  PROVE  /\ job' # None /\ job'.id = job.id /\ job'.step = "plan" /\ Plans(job')
         /\ job'.todo = Tail(job.todo)
<1>1. Planned /\ Next1
  BY DEF WriteNotifications, SchedulePush
<1>2. Plans(job) /\ Tail(job.todo) \in Seq(Item) /\ job.id > 0
  BY <1>1, JobFacts, HeadItem DEF TypeInv, Planned
<1> DEFINE t == Tail(job.todo)
<1>3. job' = [job EXCEPT !.todo = t]
  BY <1>1 DEF Next1
<1> HIDE DEF t
<1>4. Plans(job') /\ job'.id = job.id /\ job'.step = "plan" /\ job'.todo = t
  BY <1>2, <1>3 DEF Plans, t
<1> QED BY <1>2, <1>4, Real DEF t

LEMMA StepJob ==
  ASSUME TypeInv, [Next]_vars
  PROVE  JobTypes'
<1>0. ASSUME UNCHANGED <<outbox, job>>
      PROVE  JobTypes'
  BY <1>0 DEF TypeInv, JobTypes, Ids
<1>1. CASE Post \/ \E s \in Seqs : Edit(s)
  <2>1. job' = job
    BY <1>1, TalkKeeps
  <2>2. PICK r : Adds(r)
    BY <1>1, PostAdds, EditAdds
  <2>3. \A i \in Ids : i \in Ids' /\ outbox'[i] = outbox[i]
    BY <2>2 DEF Adds, Ids
  <2> QED BY <2>1, <2>3 DEF TypeInv, JobTypes
<1>2. CASE Moves
  BY <1>0, <1>2, MovesKeep
<1>3. ASSUME NEW i \in Ids, Handle(i)
      PROVE  JobTypes'
  BY <1>3, HandleJob, WorkKeeps DEF JobTypes, Ids, Starts
<1>4. ASSUME NEW i \in Ids, Dispatch(i)
      PROVE  JobTypes'
  BY <1>4, DispatchJob, WorkKeeps DEF JobTypes, Ids, Starts
<1>5. CASE WriteNotifications
  <2>1. UNCHANGED outbox /\ job # None /\ job.step = "plan"
    BY <1>5 DEF WriteNotifications, Planned
  <2>2. job.id \in Ids /\ outbox[job.id].status = "ready" /\ outbox[job.id].type # "push"
    BY <2>1, JobFacts DEF TypeInv
  <2> QED BY <1>5, <2>1, <2>2, TailJob DEF JobTypes, Ids
<1>6. CASE SchedulePush
  <2>1. job # None /\ job.step = "plan"
    BY <1>6 DEF SchedulePush, Planned
  <2>2. job.id \in Ids /\ outbox[job.id].status = "ready" /\ outbox[job.id].type # "push"
    BY <2>1, JobFacts DEF TypeInv
  <2>3. \A i \in Ids : i \in Ids' /\ outbox'[i] = outbox[i]
    BY <1>6, ScheduleAdds DEF Adds, Ids
  <2> QED BY <1>6, <2>2, <2>3, TailJob DEF JobTypes
<1>7. CASE PushSteps
  <2>1. job # None /\ job.step # "plan" /\ UNCHANGED outbox
    BY <1>7, PushGoesOn
  <2>2. PICK st, rem, tar, q : Now(st, rem, tar, q)
    BY <1>7, PushGoesOn
  <2>3. job.id \in Ids /\ outbox[job.id].status = "ready" /\ outbox[job.id].type = "push"
    BY <2>1, JobFacts DEF TypeInv
  <2> QED BY <2>1, <2>2, <2>3 DEF Now, JobTypes, Ids
<1>8. CASE Settle \/ Fail \/ RecordFails
  BY <1>8, SettleEnds, FailEnds DEF Ends, JobTypes
<1>9. CASE UNCHANGED vars
  BY <1>0, <1>9 DEF vars
<1> QED BY <1>1, <1>2, <1>3, <1>4, <1>5, <1>6, <1>7, <1>8, <1>9, Alternatives DEF Starts, Works,
     PushSteps

LEMMA StepPhones ==
  ASSUME TypeInv, [Next]_vars
  PROVE  PhoneTypes'
<1> USE DEF TypeInv, PhoneTypes
<1>0. ASSUME UNCHANGED <<owner, dead, muted, ledger>>
      PROVE  PhoneTypes'
  BY <1>0
<1>1. CASE Post \/ \E s \in Seqs : Edit(s)
  BY <1>0, <1>1, TalkKeeps
<1>2. CASE SchedulePush \/ Settle \/ Fail \/ RecordFails
  BY <1>0, <1>2, EndKeeps DEF data
<1>3. ASSUME NEW u \in members, OpenChat(u) \/ ClearChat(u)
      PROVE  PhoneTypes'
  BY <1>0, <1>3 DEF OpenChat, ClearChat, data
<1>4. ASSUME NEW u \in members, ToggleMute(u)
      PROVE  PhoneTypes'
  BY <1>4 DEF ToggleMute, ChannelTypes
<1>5. ASSUME NEW o \in opening, AdvanceReadCursor(o) \/ NoteCaughtUp(o) \/ ClearCommit(o)
      PROVE  PhoneTypes'
  BY <1>0, <1>5 DEF AdvanceReadCursor, NoteCaughtUp, ClearCommit
<1>6. ASSUME NEW d \in Devices, UnregisterDevice(d)
      PROVE  PhoneTypes'
  BY <1>6 DEF UnregisterDevice
<1>7. ASSUME NEW d \in Devices, NEW u \in Users, RegisterDevice(d, u)
      PROVE  PhoneTypes'
  BY <1>7 DEF RegisterDevice
<1>8. CASE Starts
  BY <1>0, <1>8 DEF Starts, Handle, Dispatch, data
<1>9. CASE WriteNotifications \/ Evaluate \/ FindDevices \/ Send
  BY <1>0, <1>9 DEF WriteNotifications, Evaluate, FindDevices, Send, data
<1>10. CASE RecordDeliveries
  <2>1. UNCHANGED <<owner, dead, muted>> /\ ledger' = ledger \cup {<<Key, t[2]>> : t \in Answered(Recorded)}
    BY <1>10 DEF RecordDeliveries
  <2>2. job # None /\ job.step # "plan"
    BY <1>10 DEF RecordDeliveries, At
  <2>3. Key \in Nat /\ job.targets \subseteq Users \X Devices
    BY <2>2, JobFacts DEF Key, Row
  <2>4. \A t \in Answered(Recorded) : t[2] \in Devices
    BY <2>3 DEF Answered
  <2> QED BY <2>1, <2>3, <2>4
<1>11. CASE InvalidateTokens
  BY <1>11 DEF InvalidateTokens
<1>12. CASE UNCHANGED vars
  BY <1>0, <1>12 DEF vars, data
<1> QED BY <1>1, <1>2, <1>3, <1>4, <1>5, <1>6, <1>7, <1>8, <1>9, <1>10, <1>11, <1>12,
     Alternatives DEF Moves, Works

LEMMA Rowed ==
  ASSUME NEW key, NEW type, NEW to
  PROVE  /\ inbox \subseteq WithRows(key, type, to)
         /\ \A row \in WithRows(key, type, to) \ inbox :
              /\ row = [key |-> key, to |-> row.to, type |-> type] /\ row.to \in to
              /\ \A r \in inbox : r.key # key \/ r.to # row.to
         /\ \A u \in to : \E row \in WithRows(key, type, to) : row.key = key /\ row.to = u
<1> DEFINE fresh == {v \in to : \A row \in inbox : row.key # key \/ row.to # v}
           rows == {[key |-> key, to |-> u, type |-> type] : u \in fresh}
<1>1. WithRows(key, type, to) = inbox \cup rows
  BY DEF WithRows
<1>2. \A row \in rows : row = [key |-> key, to |-> row.to, type |-> type] /\ row.to \in fresh
  OBVIOUS
<1>3. ASSUME NEW u \in to
      PROVE  \E row \in inbox \cup rows : row.key = key /\ row.to = u
  <2>1. CASE u \in fresh
    <3>1. [key |-> key, to |-> u, type |-> type] \in rows
      BY <2>1
    <3> QED BY <3>1
  <2> QED BY <2>1
<1> HIDE DEF rows
<1>4. \A row \in (inbox \cup rows) \ inbox : row \in rows
  OBVIOUS
<1> QED BY <1>1, <1>2, <1>3, <1>4

LEMMA StepReads ==
  ASSUME TypeInv, [Next]_vars
  PROVE  ReadTypes' /\ inbox \subseteq inbox'
<1> USE DEF TypeInv, ReadTypes, Openings
<1> DEFINE goal == ReadTypes' /\ inbox \subseteq inbox'
<1>0. ASSUME UNCHANGED <<cursor, opening, inbox, moves>>
      PROVE  goal
  BY <1>0
<1>m. Moved => moves' \in Nat
  BY DEF Moved
<1>1. CASE Post
  BY <1>0, <1>1 DEF Post, history
<1>2. ASSUME NEW s \in Seqs, Edit(s)
      PROVE  goal
  BY <1>2, <1>m DEF Edit
<1>3. CASE SchedulePush \/ Settle \/ Fail \/ RecordFails
  BY <1>0, <1>3, EndKeeps DEF data
<1>4. ASSUME NEW u \in members, OpenChat(u) \/ ClearChat(u)
      PROVE  goal
  <2>1. ASSUME NEW step \in {"advance", "clear"}
        PROVE  [user |-> u, move |-> moves, upTo |-> Len(kind), from |-> cursor[u], step |-> step] \in Openings
    <3>1. u \in Users /\ Len(kind) \in 0..MaxSeq
      BY Bounds DEF ChannelTypes
    <3> QED BY <3>1
  <2> QED BY <1>4, <1>m, <2>1 DEF OpenChat, ClearChat, data
<1>5. ASSUME NEW u \in members, ToggleMute(u)
      PROVE  goal
  BY <1>5, <1>m DEF ToggleMute
<1>6. ASSUME NEW o \in opening, AdvanceReadCursor(o)
      PROVE  goal
  <2>1. o \in Openings
    OBVIOUS
  <2>2. [o EXCEPT !.step = "note"] \in Openings
    BY <2>1
  <2>3. cursor' = [cursor EXCEPT ![o.user] = Greatest(@, o.upTo)] /\ UNCHANGED <<inbox, moves>>
          /\ opening' \subseteq opening \cup {[o EXCEPT !.step = "note"]}
    BY <1>6 DEF AdvanceReadCursor, Advanced
  <2>4. Greatest(cursor[o.user], o.upTo) \in 0..MaxSeq
    BY <2>1, Bounds DEF Greatest
  <2>5. cursor' \in [Users -> 0..MaxSeq]
    BY <2>1, <2>3, <2>4
  <2> QED BY <2>2, <2>3, <2>5
<1>7. ASSUME NEW o \in opening, NoteCaughtUp(o)
      PROVE  goal
  <2>1. o.user \in Users /\ -o.upTo \in Int
    BY Bounds
  <2>2. /\ inbox' = WithRows(-o.upTo, "chat_caught_up", {o.user}) /\ opening' \subseteq opening
        /\ UNCHANGED <<cursor, moves>>
    BY <1>7 DEF NoteCaughtUp, history
  <2>3. inbox \subseteq inbox' /\ \A row \in inbox' \ inbox : row.key = -o.upTo /\ row.to = o.user
    BY <2>2, Rowed
  <2>4. \A row \in inbox' : row.key \in Int /\ row.to \in Users
    BY <2>1, <2>3
  <2>5. cursor' \in [Users -> 0..MaxSeq] /\ moves' \in Nat
    BY <2>2
  <2>6. opening' \subseteq Openings
    BY <2>2
  <2> QED BY <2>3, <2>4, <2>5, <2>6
<1>c. ASSUME NEW o \in opening, ClearCommit(o)
      PROVE  goal
  <2>1. o.user \in Users /\ o.upTo \in 0..MaxSeq
    OBVIOUS
  <2> QED BY <1>c, <2>1 DEF ClearCommit
<1>8. ASSUME NEW d \in Devices, NEW u \in Users, UnregisterDevice(d) \/ RegisterDevice(d, u)
      PROVE  goal
  BY <1>8, <1>m DEF UnregisterDevice, RegisterDevice
<1>9. ASSUME NEW d \in Devices, UnregisterDevice(d)
      PROVE  goal
  BY <1>9, <1>m DEF UnregisterDevice
<1>10. CASE WriteNotifications
  <2>1. /\ Planned /\ UNCHANGED <<cursor, opening, moves>>
        /\ inbox' = WithRows(NotificationKey(job.id, Head(job.todo).slot), Head(job.todo).type, Head(job.todo).to)
    BY <1>10 DEF WriteNotifications, history
  <2>2. Head(job.todo) \in Item /\ job.id \in Nat
    BY <2>1, HeadItem, JobFacts
  <2>3. NotificationKey(job.id, Head(job.todo).slot) \in Nat /\ Head(job.todo).to \subseteq Users
    BY <2>2, KeyType DEF Item
  <2>4. /\ inbox \subseteq inbox'
        /\ \A row \in inbox' \ inbox : row.key = NotificationKey(job.id, Head(job.todo).slot) /\ row.to \in Head(job.todo).to
    BY <2>1, Rowed
  <2> QED BY <2>1, <2>3, <2>4
<1>11. CASE Starts \/ PushSteps
  BY <1>0, <1>11 DEF Starts, Handle, Dispatch, PushSteps, Evaluate, FindDevices, Send,
       RecordDeliveries, InvalidateTokens, data, history
<1>12. CASE UNCHANGED vars
  BY <1>0, <1>12 DEF vars, data, history
<1> HIDE DEF goal
<1>13. goal
  BY <1>1, <1>2, <1>3, <1>4, <1>5, <1>6, <1>7, <1>c, <1>8, <1>9, <1>10, <1>11, <1>12, Alternatives
       DEF goal, Moves, Works, PushSteps
<1> QED BY <1>13 DEF goal

Counts(Values) == [1..MaxSeq -> [Users -> [Devices -> Values]]]

LEMMA AddedIs ==
  ASSUME NEW V \in {Nat, Int}, NEW f \in Counts(V), NEW n \in Int, NEW to, About \in 1..MaxSeq,
         V = Int \/ n \in Nat, NEW g, g = Added(f, n, to)
  PROVE  /\ g \in Counts(V)
         /\ \A s \in 1..MaxSeq, u \in Users, d \in Devices :
              g[s][u][d] = f[s][u][d] + IF s = About /\ <<u, d>> \in to THEN n ELSE 0
<1> DEFINE here == [u \in Users |-> [d \in Devices |-> f[About][u][d] + IF <<u, d>> \in to THEN n ELSE 0]]
<1>1. g = [f EXCEPT ![About] = here]
  BY DEF Added
<1>2. here \in [Users -> [Devices -> V]]
  <2>1. \A u \in Users, d \in Devices : f[About][u][d] \in V
    BY DEF Counts
  <2>2. \A u \in Users, d \in Devices : f[About][u][d] + (IF <<u, d>> \in to THEN n ELSE 0) \in V
    BY <2>1
  <2> QED BY <2>2
<1>3. \A u \in Users, d \in Devices : here[u][d] = f[About][u][d] + IF <<u, d>> \in to THEN n ELSE 0
  OBVIOUS
<1> HIDE DEF here
<1>4. g \in Counts(V) /\ g[About] = here /\ \A s \in 1..MaxSeq : s # About => g[s] = f[s]
  BY <1>1, <1>2 DEF Counts
<1>5. \A s \in 1..MaxSeq, u \in Users, d \in Devices : f[s][u][d] \in Int
  BY DEF Counts
<1> QED BY <1>3, <1>4, <1>5

LEMMA AboutType ==
  ASSUME TypeInv, job # None
  PROVE  About \in Seqs /\ About \in 1..MaxSeq /\ Key \in Nat
<1>1. outbox[job.id] \in Row /\ job.id \in Ids
  BY JobFacts DEF TypeInv
<1> QED BY <1>1 DEF About, Key, Row, TypeInv, RowTypes

\* Each phone that rang counts once, recorded or not.
LEMMA SendCounts ==
  ASSUME TypeInv, NEW rang, About \in 1..MaxSeq, buzzed' = Added(buzzed, 1, rang), unrecorded' = Added(unrecorded, 1, rang)
  PROVE  /\ CountTypes'
         /\ \A s \in 1..MaxSeq, u \in Users, d \in Devices :
              /\ buzzed'[s][u][d] = buzzed[s][u][d] + IF s = About /\ <<u, d>> \in rang THEN 1 ELSE 0
              /\ unrecorded'[s][u][d] = unrecorded[s][u][d] + IF s = About /\ <<u, d>> \in rang THEN 1 ELSE 0
<1> DEFINE b == buzzed'
           c == unrecorded'
<1>1. buzzed \in Counts(Nat) /\ unrecorded \in Counts(Int)
  BY DEF TypeInv, CountTypes, Counts
<1>2. b = Added(buzzed, 1, rang) /\ c = Added(unrecorded, 1, rang)
  OBVIOUS
<1> HIDE DEF b, c
<1>3. b \in Counts(Nat) /\ \A s \in 1..MaxSeq, u \in Users, d \in Devices :
              b[s][u][d] = buzzed[s][u][d] + IF s = About /\ <<u, d>> \in rang THEN 1 ELSE 0
  BY <1>1, <1>2, AddedIs
<1>4. c \in Counts(Int) /\ \A s \in 1..MaxSeq, u \in Users, d \in Devices :
              c[s][u][d] = unrecorded[s][u][d] + IF s = About /\ <<u, d>> \in rang THEN 1 ELSE 0
  BY <1>1, <1>2, AddedIs
<1> QED BY <1>3, <1>4 DEF b, c, CountTypes, Counts

LEMMA RecordCounts ==
  ASSUME TypeInv, RecordDeliveries
  PROVE  /\ CountTypes' /\ buzzed' = buzzed
         /\ \A s \in 1..MaxSeq, u \in Users, d \in Devices :
              unrecorded'[s][u][d] = unrecorded[s][u][d] + IF s = About /\ <<u, d>> \in Answered({"ok"}) THEN -1 ELSE 0
<1> DEFINE c == unrecorded'
           to == Answered({"ok"})
<1>1. buzzed \in Counts(Nat) /\ unrecorded \in Counts(Int) /\ About \in 1..MaxSeq
  BY AboutType DEF TypeInv, CountTypes, Counts, RecordDeliveries, At
<1>2. buzzed' = buzzed /\ c = Added(unrecorded, -1, to)
  BY DEF RecordDeliveries
<1> HIDE DEF c, to
<1>3. -1 \in Int
  OBVIOUS
<1>4. c \in Counts(Int) /\ \A s \in 1..MaxSeq, u \in Users, d \in Devices :
              c[s][u][d] = unrecorded[s][u][d] + IF s = About /\ <<u, d>> \in to THEN -1 ELSE 0
  BY <1>1, <1>2, <1>3, AddedIs
<1> QED BY <1>1, <1>2, <1>4 DEF c, to, CountTypes, Counts

LEMMA Uncounted ==
  ASSUME [Next]_vars
  PROVE  Send \/ RecordDeliveries \/ UNCHANGED <<buzzed, unrecorded>>
<1>1. CASE Post \/ (\E s \in Seqs : Edit(s))
  BY <1>1, TalkKeeps
<1>2. CASE Moves
  BY <1>2, MovesKeep
<1>3. CASE SchedulePush \/ Settle \/ Fail \/ RecordFails
  BY <1>3, EndKeeps
<1>4. CASE Starts
  BY <1>4 DEF Starts, Handle, Dispatch, history
<1>5. CASE WriteNotifications \/ Evaluate \/ FindDevices \/ InvalidateTokens
  BY <1>5 DEF WriteNotifications, Evaluate, FindDevices, InvalidateTokens, history
<1>6. CASE UNCHANGED vars
  BY <1>6 DEF vars, history
<1> QED BY <1>1, <1>2, <1>3, <1>4, <1>5, <1>6, Alternatives DEF Works

LEMMA StepCounts ==
  ASSUME TypeInv, [Next]_vars
  PROVE  /\ CountTypes'
         /\ \A s \in 1..MaxSeq, u \in Users, d \in Devices : buzzed'[s][u][d] >= buzzed[s][u][d]
<1>0. \A s \in 1..MaxSeq, u \in Users, d \in Devices : buzzed[s][u][d] \in Nat
  BY DEF TypeInv, CountTypes
<1>1. CASE Send
  <2>1. About \in 1..MaxSeq
    BY <1>1, AboutType DEF Send, At
  <2>2. PICK rang : buzzed' = Added(buzzed, 1, rang) /\ unrecorded' = Added(unrecorded, 1, rang)
    BY <1>1, SendJob
  <2>3. CountTypes' /\ \A s \in 1..MaxSeq, u \in Users, d \in Devices :
              buzzed'[s][u][d] = buzzed[s][u][d] + IF s = About /\ <<u, d>> \in rang THEN 1 ELSE 0
    BY <2>1, <2>2, SendCounts
  <2>4. ASSUME NEW s \in 1..MaxSeq, NEW u \in Users, NEW d \in Devices
        PROVE  buzzed'[s][u][d] >= buzzed[s][u][d]
    <3>1. /\ buzzed[s][u][d] \in Nat
          /\ (buzzed'[s][u][d] = buzzed[s][u][d] + 1 \/ buzzed'[s][u][d] = buzzed[s][u][d] + 0)
      BY <1>0, <2>3
    <3> QED BY <3>1
  <2> QED BY <2>3, <2>4
<1>2. CASE RecordDeliveries
  BY <1>0, <1>2, RecordCounts
<1>3. CASE UNCHANGED <<buzzed, unrecorded>>
  BY <1>0, <1>3 DEF TypeInv, CountTypes
<1> QED BY <1>1, <1>2, <1>3, Uncounted

LEMMA StepTypes ==
  ASSUME TypeInv, [Next]_vars
  PROVE  TypeInv'
  BY StepChannel, StepRows, StepJob, StepPhones, StepReads, StepCounts DEF TypeInv

LEMMA AlwaysTypes == Spec => []TypeInv
  BY InitTypes, StepTypes, PTL DEF Spec

\* Every variable keeps its type, and the worker runs a row that is still to be run.
THEOREM TypeCorrect == Spec => []TypeOK
<1>1. TypeInv => TypeOK
  <2> SUFFICES ASSUME TypeInv PROVE TypeOK
    OBVIOUS
  <2>1. ChannelTypes /\ RowTypes /\ JobTypes /\ PhoneTypes /\ ReadTypes
    BY DEF TypeInv
  <2>2. direct \in BOOLEAN /\ kind \in Seq({"text", "announcement"}) /\ Len(named) = Len(kind)
    BY <2>1 DEF ChannelTypes, Kinds
  <2>3. named \in Seq(SUBSET Users)
    <3>1. SUBSET members \subseteq SUBSET Users /\ named \in Seq(SUBSET members)
      BY <2>1 DEF ChannelTypes
    <3> QED BY <3>1, SeqMonotonic
  <2>4. ASSUME NEW i \in Ids
        PROVE  /\ outbox[i].type \in {"created", "edited", "push"} /\ outbox[i].seq \in Seqs
               /\ outbox[i].to \subseteq Users /\ outbox[i].status \in {"ready", "done", "parked"}
               /\ outbox[i].attempts \in 0..MaxAttempts
    <3>1. outbox[i] \in Row
      BY <2>1, ElementOfSeq DEF RowTypes, Ids
    <3> QED BY <2>1, <3>1 DEF RowTypes, Row, Statuses
  <2>5. owner \in [Devices -> Users \cup {Gone}] /\ dead \subseteq Devices /\ muted \subseteq Users
          /\ \A entry \in ledger : entry[2] \in Devices
    BY <2>1 DEF PhoneTypes
  <2>6. cursor \in [Users -> 0..MaxSeq]
          /\ \A o \in opening : o.user \in Users /\ o.upTo \in 0..MaxSeq /\ o.step \in {"advance", "note", "clear"}
    BY <2>1 DEF ReadTypes, Openings
  <2>7. job # None => job.id \in Ids /\ outbox[job.id].status = "ready"
    BY <2>1 DEF JobTypes
  <2> QED BY <2>2, <2>3, <2>4, <2>5, <2>6, <2>7 DEF TypeOK
<1> QED BY <1>1, AlwaysTypes, PTL

(***************************************************************************)
(* Quiet once read.                                                        *)
(***************************************************************************)
PassedInv == \A s \in 1..MaxSeq, u \in Users : <<s, u>> \in passed <=> s <= cursor[u]
QuietInv ==
  job # None /\ job.step # "plan" =>
    /\ job.step = "evaluate" => job.targets = {} /\ job.quiet = {}
    /\ job.quiet \intersect job.remaining = {}
    /\ \A t \in job.targets : t[1] \notin job.quiet

\* The job's row keeps its message and its key.
LEMMA RowStays ==
  ASSUME TypeInv, [Next]_vars, job # None, job'.id = job.id
  PROVE  About' = About /\ Key' = Key /\ Same(outbox'[job.id], outbox[job.id]) /\ job.id \in Ids'
<1>1. job.id \in Ids
  BY JobFacts DEF TypeInv
<1>2. Same(outbox'[job.id], outbox[job.id]) /\ job.id \in Ids'
  BY <1>1, StepRows DEF RowsKept
<1> QED BY <1>2 DEF Same, About, Key

LEMMA StepPassed ==
  ASSUME TypeInv, PassedInv, [Next]_vars
  PROVE  PassedInv'
<1>0. ASSUME UNCHANGED <<cursor, passed>>
      PROVE  PassedInv'
  BY <1>0 DEF PassedInv
<1>1. CASE Post \/ \E s \in Seqs : Edit(s)
  BY <1>0, <1>1, TalkKeeps
<1>2. ASSUME NEW u \in members, OpenChat(u) \/ ClearChat(u) \/ ToggleMute(u)
      PROVE  PassedInv'
  BY <1>0, <1>2 DEF OpenChat, ClearChat, ToggleMute, data
<1>3. ASSUME NEW o \in opening, AdvanceReadCursor(o)
      PROVE  PassedInv'
  <2>1. o.user \in Users /\ o.upTo \in 0..MaxSeq /\ cursor \in [Users -> 0..MaxSeq]
    BY DEF TypeInv, ReadTypes, Openings
  <2>2. cursor' = [cursor EXCEPT ![o.user] = Greatest(@, o.upTo)] /\ passed' = passed \cup {<<s, o.user>> : s \in 1..o.upTo}
    BY <1>3 DEF AdvanceReadCursor, Advanced
  <2>3. SUFFICES ASSUME NEW s \in 1..MaxSeq, NEW u \in Users
                 PROVE  <<s, u>> \in passed' <=> s <= cursor'[u]
    BY DEF PassedInv
  <2>4. <<s, u>> \in passed <=> s <= cursor[u]
    BY DEF PassedInv
  <2>5. CASE u # o.user
    BY <2>1, <2>2, <2>4, <2>5
  <2>6. CASE u = o.user
    <3>1. <<s, u>> \in passed' <=> (<<s, u>> \in passed \/ s \in 1..o.upTo)
      BY <2>2, <2>6
    <3>2. cursor'[u] = Greatest(cursor[u], o.upTo) /\ cursor[u] \in 0..MaxSeq
      BY <2>1, <2>2, <2>6
    <3> QED BY <2>1, <2>4, <3>1, <3>2, Bounds DEF Greatest
  <2> QED BY <2>5, <2>6
<1>4. ASSUME NEW o \in opening, NoteCaughtUp(o)
      PROVE  PassedInv'
  BY <1>0, <1>4 DEF NoteCaughtUp, history
<1>c. ASSUME NEW o \in opening, ClearCommit(o)
      PROVE  PassedInv'
  <2>1. o.user \in Users /\ o.upTo \in 0..MaxSeq /\ cursor \in [Users -> 0..MaxSeq]
    BY DEF TypeInv, ReadTypes, Openings
  <2>2. /\ cursor' = [cursor EXCEPT ![o.user] = o.upTo]
        /\ passed' = {p \in passed : p[2] # o.user} \cup {<<s, o.user>> : s \in 1..o.upTo}
    BY <1>c DEF ClearCommit
  <2>3. SUFFICES ASSUME NEW s \in 1..MaxSeq, NEW u \in Users
                 PROVE  <<s, u>> \in passed' <=> s <= cursor'[u]
    BY DEF PassedInv
  <2>4. CASE u # o.user
    <3>1. <<s, u>> \in passed <=> s <= cursor[u]
      BY DEF PassedInv
    <3> QED BY <2>1, <2>2, <2>4, <3>1
  <2>5. CASE u = o.user
    <3>1. <<s, u>> \in passed' <=> s \in 1..o.upTo
      BY <2>2, <2>5
    <3> QED BY <2>1, <2>2, <2>5, <3>1, Bounds
  <2> QED BY <2>4, <2>5
<1>5. ASSUME NEW d \in Devices, NEW u \in Users, RegisterDevice(d, u)
      PROVE  PassedInv'
  BY <1>0, <1>5 DEF RegisterDevice
<1>6. ASSUME NEW d \in Devices, UnregisterDevice(d)
      PROVE  PassedInv'
  BY <1>0, <1>6 DEF UnregisterDevice
<1>7. CASE Starts \/ Works
  BY <1>0, <1>7, WorkKeeps
<1>8. CASE SchedulePush \/ Settle \/ Fail \/ RecordFails
  BY <1>0, <1>8, EndKeeps DEF data
<1>9. CASE UNCHANGED vars
  BY <1>0, <1>9 DEF vars, data, history
<1> QED BY <1>1, <1>2, <1>3, <1>4, <1>c, <1>5, <1>6, <1>7, <1>8, <1>9, Alternatives DEF Moves

LEMMA StepQuiet ==
  ASSUME TypeInv, PassedInv, QuietInv, [Next]_vars
  PROVE  QuietInv'
<1>0. ASSUME UNCHANGED job
      PROVE  QuietInv'
  BY <1>0 DEF QuietInv
<1>1. CASE Post \/ (\E s \in Seqs : Edit(s))
  BY <1>0, <1>1, TalkKeeps
<1>2. CASE Moves
  BY <1>0, <1>2, MovesKeep
<1>3. ASSUME NEW i \in Ids, Handle(i)
      PROVE  QuietInv'
  BY <1>3, HandleJob DEF QuietInv
<1>4. ASSUME NEW i \in Ids, Dispatch(i)
      PROVE  QuietInv'
  BY <1>4, DispatchJob DEF QuietInv
<1>5. CASE WriteNotifications \/ SchedulePush
  BY <1>5, TailJob DEF QuietInv
<1>6. CASE Evaluate
  <2> DEFINE left == (job.remaining \ ReadPast(About)) \ muted
  <2>1. job # None /\ job.step = "evaluate" /\ job.targets = {}
    BY <1>6 DEF Evaluate, At, QuietInv
  <2>2. About \in 1..MaxSeq
    BY <2>1, AboutType
  <2>3. Passers \intersect left = {}
    BY <2>2 DEF ReadPast, PassedInv, Passers
  <2> HIDE DEF left
  <2>4. Now("settle", {}, {}, {}) \/ Now("devices", left, job.targets, Passers)
    BY <1>6, EvaluateJob DEF left
  <2> QED BY <2>1, <2>3, <2>4 DEF Now, QuietInv
<1>7. CASE FindDevices
  <2> DEFINE to == Unsent(LiveDevices(job.remaining))
  <2>1. job # None /\ job.step = "devices" /\ job.quiet \intersect job.remaining = {}
    BY <1>7 DEF FindDevices, At, QuietInv
  <2>2. \A d \in to : owner[d] \in job.remaining
    BY DEF Unsent, LiveDevices
  <2>3. \A t \in {<<owner[d], d>> : d \in to} : t[1] \notin job.quiet
    BY <2>1, <2>2
  <2> HIDE DEF to
  <2>4. Now("settle", {}, {}, {}) \/ Now("send", {}, {<<owner[d], d>> : d \in to}, job.quiet)
    BY <1>7, FindJob DEF to
  <2> QED BY <2>3, <2>4 DEF Now, QuietInv
<1>8. CASE Send
  <2>1. Now("settle", {}, {}, {}) \/ Now("record", job.remaining, job.targets, {})
    BY <1>8, SendJob
  <2> QED BY <2>1 DEF Now, QuietInv
<1>9. CASE RecordDeliveries \/ InvalidateTokens
  <2>1. job # None /\ job.step # "plan" /\ job.step # "evaluate"
    BY <1>9 DEF RecordDeliveries, InvalidateTokens, At
  <2>2. Now("settle", {}, {}, {}) \/ Now("invalidate", job.remaining, job.targets, job.quiet)
    BY <1>9, RecordJob, InvalidateJob
  <2> QED BY <2>1, <2>2 DEF Now, QuietInv
<1>10. CASE Settle \/ Fail \/ RecordFails
  BY <1>10, SettleEnds, FailEnds DEF Ends, QuietInv
<1>11. CASE UNCHANGED vars
  BY <1>0, <1>11 DEF vars
<1> QED BY <1>1, <1>2, <1>3, <1>4, <1>5, <1>6, <1>7, <1>8, <1>9, <1>10, <1>11, Alternatives
     DEF Starts, Works

LEMMA AlwaysQuiet == Spec => [](TypeInv /\ PassedInv /\ QuietInv)
<1>1. Init => PassedInv /\ QuietInv
  <2> SUFFICES ASSUME Init PROVE PassedInv /\ QuietInv
    OBVIOUS
  <2>1. job = None /\ passed = {} /\ \A u \in Users : cursor[u] = 0
    BY DEF Init
  <2> QED BY <2>1 DEF PassedInv, QuietInv
<1>2. TypeInv /\ PassedInv /\ QuietInv /\ [Next]_vars => (PassedInv /\ QuietInv)'
  BY StepPassed, StepQuiet
<1> QED BY <1>1, <1>2, InitTypes, StepTypes, PTL DEF Spec

LEMMA RingsAreNotQuiet ==
  ASSUME TypeInv, QuietInv, [Next]_vars, NEW s \in Seqs, NEW u \in Users, NEW d \in Devices,
         buzzed'[s][u][d] > buzzed[s][u][d]
  PROVE  u \notin job.quiet
<1>1. s \in 1..MaxSeq
  BY Bounds DEF TypeInv, ChannelTypes, Seqs
<1>2. buzzed[s][u][d] \in Nat
  BY <1>1 DEF TypeInv, CountTypes
<1>3. CASE Send
  <2>1. job # None /\ job.step = "send" /\ About \in 1..MaxSeq
    BY <1>3, AboutType DEF Send, At
  <2>2. PICK rang \in SUBSET job.targets : buzzed' = Added(buzzed, 1, rang) /\ unrecorded' = Added(unrecorded, 1, rang)
    BY <1>3, SendJob
  <2>3. buzzed'[s][u][d] = buzzed[s][u][d] + IF s = About /\ <<u, d>> \in rang THEN 1 ELSE 0
    BY <1>1, <2>1, <2>2, SendCounts
  <2>4. <<u, d>> \in job.targets
    BY <1>2, <2>2, <2>3
  <2> QED BY <2>1, <2>4 DEF QuietInv
<1>4. CASE ~Send
  <2>1. buzzed' = buzzed
    BY <1>4, Uncounted, RecordCounts
  <2> QED BY <1>2, <2>1
<1> QED BY <1>3, <1>4

\* A phone never rings for a message its owner had opened or cleared the chat at before the
\* push was evaluated, in whatever order the openChats and the clears commit, but for a clear
\* that took the cursor back: QuietOnceRead.
THEOREM ReadIsQuiet == Spec => QuietOnceRead
<1>1. TypeInv /\ QuietInv /\ [Next]_vars =>
        [\A s \in Seqs, u \in Users, d \in Devices :
                buzzed'[s][u][d] > buzzed[s][u][d] => u \notin job.quiet]_vars
  BY RingsAreNotQuiet
<1> QED BY <1>1, AlwaysQuiet, PTL DEF Spec, QuietOnceRead

(***************************************************************************)
(* News is kept.                                                           *)
(***************************************************************************)
\* The slot of the push to everybody.
Main(s) == IF direct THEN 2 ELSE IF kind[s] = "text" THEN 3 ELSE 0

\* Whom a push under a slot of row c can be to.
Fits(c, slot, to) ==
  \/ outbox[c].type = "edited" /\ slot = 0 /\ \A u \in to : <<outbox[c].seq, u>> \in touched
  \/ /\ outbox[c].type = "created" /\ slot = 1
     /\ \A u \in to : u \in named[outbox[c].seq] \/ <<outbox[c].seq, u>> \in touched
  \/ /\ outbox[c].type = "created" /\ slot = Main(outbox[c].seq)
     /\ direct \/ \A u \in to : u \notin named[outbox[c].seq] \/ <<outbox[c].seq, u>> \in touched

From(j, c, slot) ==
  /\ outbox[c].type # "push" /\ outbox[c].seq = outbox[j].seq
  /\ outbox[j].key = NotificationKey(c, slot) /\ Fits(c, slot, outbox[j].to)
KeysInv ==
  /\ \A j \in Ids : outbox[j].type = "push" => \E c \in Ids, slot \in 0..3 : From(j, c, slot)
  /\ \A c \in Ids : outbox[c].type = "edited" => \A u \in outbox[c].to : <<outbox[c].seq, u>> \in touched
  /\ \A b, c \in Ids : outbox[b].type = "created" /\ outbox[c].type = "created" /\ outbox[b].seq = outbox[c].seq => b = c
  /\ \A s \in Seqs : \E c \in Ids : outbox[c].type = "created" /\ outbox[c].seq = s

TypeOf(c, slot) == IF outbox[c].type = "created" /\ slot = 0 THEN "announcement" ELSE "mentioned"
InboxInv ==
  \A row \in inbox :
    /\ row = [key |-> row.key, to |-> row.to, type |-> row.type]
    /\ \/ row.key <= 0
       \/ \E c \in Ids, slot \in {0, 1} :
            outbox[c].type # "push" /\ row.key = NotificationKey(c, slot) /\ row.type = TypeOf(c, slot)

Has(key, u) == \E row \in inbox : row.key = key /\ row.to = u
Fine(c, item) ==
  /\ item.do = "rows" => item.slot \in {0, 1} /\ item.type = TypeOf(c, item.slot)
  /\ item.do = "push" => Fits(c, item.slot, item.to)
\* A push of a plan that needs rows comes after them.
Sound(c, p) ==
  \A k \in 1..Len(p) :
    /\ Fine(c, p[k])
    /\ p[k].do = "push" /\ p[k].slot \in {0, 1} =>
         \A u \in p[k].to :
           \/ Has(NotificationKey(c, p[k].slot), u)
           \/ \E l \in 1..(k - 1) : p[l].do = "rows" /\ p[l].slot = p[k].slot /\ u \in p[l].to
TodoInv == job # None /\ job.step = "plan" => Sound(job.id, job.todo)

PushRowInv ==
  \A j \in Ids : outbox[j].type = "push" /\ (outbox[j].key % Slots) \in {0, 1} =>
    \A u \in outbox[j].to : Has(outbox[j].key, u)

Holds(p, do, slot, u) == \E k \in 1..Len(p) : p[k].do = do /\ p[k].slot = slot /\ u \in p[k].to
Awaits(c, do, slot, u) == job # None /\ job.id = c /\ job.step = "plan" /\ Holds(job.todo, do, slot, u)
Told(c, slot, u, type) == [key |-> NotificationKey(c, slot), to |-> u, type |-> type] \in inbox
Covered(s, u) == \E j \in Ids : outbox[j].type = "push" /\ outbox[j].seq = s /\ u \in outbox[j].to
Obliged(c) == outbox[c].type = "created" /\ (outbox[c].status = "done" \/ (job # None /\ job.id = c))
Served(c, u) ==
  /\ kind[outbox[c].seq] = "announcement" => Told(c, 0, u, "announcement") \/ Awaits(c, "rows", 0, u)
  /\ u \in named[outbox[c].seq] /\ <<outbox[c].seq, u>> \notin touched =>
       Told(c, 1, u, "mentioned") \/ Awaits(c, "rows", 1, u)
  /\ Covered(outbox[c].seq, u) \/ \E slot \in 0..3 : Awaits(c, "push", slot, u)
ServedInv == \A c \in Ids : Obliged(c) => \A u \in members : Served(c, u)

NewsInv == KeysInv /\ InboxInv /\ TodoInv /\ PushRowInv /\ ServedInv

LEMMA KeyIsOne ==
  ASSUME NEW b \in Nat, NEW c \in Nat, NEW x \in 0..3, NEW y \in 0..3,
         NotificationKey(b, x) = NotificationKey(c, y)
  PROVE  b = c /\ x = y
  BY DEF NotificationKey, Slots

LEMMA KeySlot ==
  ASSUME NEW c \in Nat, NEW x \in 0..3
  PROVE  NotificationKey(c, x) % Slots = x
  BY DEF NotificationKey, Slots

LEMMA RowFacts ==
  ASSUME TypeInv, NEW c \in Ids
  PROVE  /\ outbox[c] \in Row /\ c \in Nat /\ c > 0 /\ outbox[c].seq \in Seqs /\ outbox[c].to \subseteq Users
         /\ outbox[c].key \in Nat /\ outbox[c].type \in {"created", "edited", "push"}
         /\ outbox[c].seq \in 1..MaxSeq
<1>1. outbox[c] \in Row /\ c \in Nat /\ c > 0 /\ outbox[c].seq \in Seqs
  BY ElementOfSeq DEF TypeInv, RowTypes, Ids
<1> QED BY <1>1 DEF Row

\* Who is named changes only for those an edit touched.
LEMMA StepNames ==
  ASSUME TypeInv, [Next]_vars
  PROVE  /\ touched \subseteq touched'
         /\ \A s \in Seqs, u \in Users :
              (u \in named'[s] /\ u \in named[s]) \/ (u \notin named'[s] /\ u \notin named[s]) \/ <<s, u>> \in touched'
<1>0. ASSUME UNCHANGED <<named, touched>>
      PROVE  /\ touched \subseteq touched'
             /\ \A s \in Seqs, u \in Users :
                  (u \in named'[s] /\ u \in named[s]) \/ (u \notin named'[s] /\ u \notin named[s]) \/ <<s, u>> \in touched'
  BY <1>0
<1>1. CASE Post
  BY <1>1, PostAdds DEF Post, history
<1>2. ASSUME NEW s \in Seqs, Edit(s)
      PROVE  /\ touched \subseteq touched'
             /\ \A t \in Seqs, u \in Users :
                  (u \in named'[t] /\ u \in named[t]) \/ (u \notin named'[t] /\ u \notin named[t]) \/ <<t, u>> \in touched'
  <2>1. PICK n \in SUBSET members :
           /\ named'[s] = n /\ \A t \in Seqs : t # s => named'[t] = named[t]
           /\ touched' = touched \cup {<<s, u>> : u \in (n \ named[s]) \cup (named[s] \ n)}
    BY <1>2, EditAdds
  <2>2. \A u \in (n \ named[s]) \cup (named[s] \ n) : <<s, u>> \in touched'
    BY <2>1
  <2> QED BY <2>1, <2>2
<1>3. CASE Moves
  BY <1>0, <1>3, MovesKeep
<1>4. CASE Starts \/ Works
  BY <1>0, <1>4, WorkKeeps
<1>5. CASE SchedulePush \/ Settle \/ Fail \/ RecordFails
  BY <1>0, <1>5, EndKeeps DEF data
<1>6. CASE UNCHANGED vars
  BY <1>0, <1>6 DEF vars, data, history
<1> QED BY <1>1, <1>2, <1>3, <1>4, <1>5, <1>6, Alternatives

LEMMA FitsStays ==
  ASSUME TypeInv, [Next]_vars, NEW c \in Ids, NEW slot, NEW to \in SUBSET Users, Fits(c, slot, to)
  PROVE  Fits(c, slot, to)'
<1>1. /\ outbox'[c].type = outbox[c].type /\ outbox'[c].seq = outbox[c].seq
      /\ outbox[c].seq \in Seqs /\ kind'[outbox[c].seq] = kind[outbox[c].seq] /\ direct' = direct
  BY StepRows, StepChannel, RowFacts DEF RowsKept, Same
<1>2. Main(outbox[c].seq)' = Main(outbox[c].seq)
  BY <1>1 DEF Main
<1>3. /\ \A u \in to : <<outbox[c].seq, u>> \in touched => <<outbox[c].seq, u>> \in touched'
      /\ \A u \in to : u \in named[outbox[c].seq] => u \in named'[outbox[c].seq] \/ <<outbox[c].seq, u>> \in touched'
      /\ \A u \in to : u \notin named[outbox[c].seq] => u \notin named'[outbox[c].seq] \/ <<outbox[c].seq, u>> \in touched'
  BY <1>1, StepNames
<1> QED BY <1>1, <1>2, <1>3 DEF Fits

\* The rows a step adds.
LEMMA NewRows ==
  ASSUME TypeInv, [Next]_vars, NEW j \in Ids'
  PROVE  \/ j \in Ids
         \/ /\ Post /\ j = Len(outbox) + 1 /\ outbox'[j] = Event("created", Len(kind) + 1, {})
            /\ Len(kind') = Len(kind) + 1 /\ Len(kind) \in Nat
         \/ \E s \in Seqs, n \in SUBSET members :
              /\ Edit(s) /\ outbox'[j] = Event("edited", s, n \ named[s])
              /\ \A u \in n \ named[s] : <<s, u>> \in touched'
         \/ /\ SchedulePush
            /\ outbox'[j] = Deferred(outbox[job.id].seq, NotificationKey(job.id, job.todo[1].slot), job.todo[1].to)
<1>0. ASSUME NEW r, Adds(r)
      PROVE  j \in Ids \/ (j = Len(outbox) + 1 /\ outbox'[j] = r)
  BY <1>0 DEF Adds, Ids
<1>1. CASE Post
  <2>1. Adds(Event("created", Len(kind) + 1, {})) /\ Len(kind') = Len(kind) + 1 /\ Len(kind) \in Nat
    BY <1>1, PostAdds
  <2> QED BY <1>0, <1>1, <2>1
<1>2. ASSUME NEW s \in Seqs, Edit(s)
      PROVE  j \in Ids \/ \E n \in SUBSET members :
              /\ outbox'[j] = Event("edited", s, n \ named[s])
              /\ \A u \in n \ named[s] : <<s, u>> \in touched'
  <2>1. PICK n \in SUBSET members :
           /\ touched' = touched \cup {<<s, u>> : u \in (n \ named[s]) \cup (named[s] \ n)}
           /\ Adds(Event("edited", s, n \ named[s]))
    BY <1>2, EditAdds
  <2>2. \A u \in n \ named[s] : <<s, u>> \in touched'
    BY <2>1
  <2>3. j \in Ids \/ outbox'[j] = Event("edited", s, n \ named[s])
    BY <1>0, <2>1
  <2> QED BY <2>2, <2>3
<1>3. CASE SchedulePush
  BY <1>0, <1>3, ScheduleAdds
<1>4. CASE UNCHANGED outbox
  BY <1>4 DEF Ids
<1>5. CASE Moves \/ Starts \/ Works
  BY <1>4, <1>5, MovesKeep, WorkKeeps
<1>6. CASE Settle \/ Fail \/ RecordFails
  BY <1>6, SettleEnds, FailEnds DEF Ends, Ids
<1>7. CASE UNCHANGED vars
  BY <1>4, <1>7 DEF vars
<1> QED BY <1>1, <1>2, <1>3, <1>5, <1>6, <1>7, Alternatives

LEMMA NewRowIs ==
  ASSUME TypeInv, [Next]_vars, NEW j \in Ids', j \notin Ids
  PROVE  /\ outbox'[j].status = "ready"
         /\ \/ /\ Post /\ j = Len(outbox) + 1 /\ outbox'[j].type = "created" /\ outbox'[j].seq = Len(kind) + 1
               /\ Len(kind') = Len(kind) + 1 /\ Len(kind) \in Nat
            \/ outbox'[j].type = "edited" /\ \A u \in outbox'[j].to : <<outbox'[j].seq, u>> \in touched'
            \/ /\ SchedulePush /\ outbox'[j].type = "push" /\ outbox'[j].seq = outbox[job.id].seq
               /\ outbox'[j].key = NotificationKey(job.id, job.todo[1].slot) /\ outbox'[j].to = job.todo[1].to
<1>1. CASE /\ Post /\ j = Len(outbox) + 1 /\ outbox'[j] = Event("created", Len(kind) + 1, {})
           /\ Len(kind') = Len(kind) + 1 /\ Len(kind) \in Nat
  BY <1>1 DEF Event
<1>2. ASSUME NEW s \in Seqs, NEW n \in SUBSET members,
             outbox'[j] = Event("edited", s, n \ named[s]), \A u \in n \ named[s] : <<s, u>> \in touched'
      PROVE  /\ outbox'[j].status = "ready" /\ outbox'[j].type = "edited"
             /\ \A u \in outbox'[j].to : <<outbox'[j].seq, u>> \in touched'
  <2>1. /\ outbox'[j].status = "ready" /\ outbox'[j].type = "edited"
        /\ outbox'[j].to = n \ named[s] /\ outbox'[j].seq = s
    BY <1>2 DEF Event
  <2> QED BY <1>2, <2>1
<1>3. CASE SchedulePush /\ outbox'[j] = Deferred(outbox[job.id].seq, NotificationKey(job.id, job.todo[1].slot), job.todo[1].to)
  BY <1>3 DEF Deferred
<1> QED BY <1>1, <1>2, <1>3, NewRows

LEMMA StepKeys ==
  ASSUME TypeInv, KeysInv, TodoInv, [Next]_vars
  PROVE  KeysInv'
<1>1. ASSUME NEW c \in Ids
      PROVE  c \in Ids' /\ Same(outbox'[c], outbox[c])
  BY StepRows DEF RowsKept
<1>2. ASSUME NEW j \in Ids', outbox'[j].type = "push"
      PROVE  \E c \in Ids', slot \in 0..3 : From(j, c, slot)'
  <2>1. CASE j \in Ids
    <3>1. PICK c \in Ids, slot \in 0..3 : From(j, c, slot)
      BY <1>1, <1>2, <2>1 DEF KeysInv, Same
    <3>2. Fits(c, slot, outbox[j].to) /\ outbox[j].to \in SUBSET Users
      BY <2>1, <3>1, RowFacts DEF From
    <3> DEFINE to == outbox[j].to
    <3>3. PICK t \in SUBSET Users : t = outbox[j].to
      BY <3>2
    <3>4. Fits(c, slot, t)'
      BY <3>2, <3>3, FitsStays
    <3>5. outbox'[j].to = t /\ outbox'[j].key = outbox[j].key /\ outbox'[j].seq = outbox[j].seq
      BY <1>1, <2>1, <3>3 DEF Same
    <3>6. Fits(c, slot, outbox[j].to)'
      BY <3>4, <3>5 DEF Fits
    <3>7. /\ outbox'[c].type # "push" /\ outbox'[c].seq = outbox'[j].seq
          /\ outbox'[j].key = NotificationKey(c, slot)
      BY <1>1, <3>1, <3>5 DEF Same, From
    <3> QED BY <1>1, <3>6, <3>7 DEF From
  <2>2. CASE j \notin Ids
    <3>0. /\ SchedulePush /\ outbox'[j].seq = outbox[job.id].seq
          /\ outbox'[j].key = NotificationKey(job.id, job.todo[1].slot) /\ outbox'[j].to = job.todo[1].to
      BY <1>2, <2>2, NewRowIs
    <3>1. Planned /\ Head(job.todo).do = "push"
      BY <3>0 DEF SchedulePush
    <3>2. /\ job # None /\ job.step = "plan" /\ job.todo[1] \in Item /\ Len(job.todo) \in Nat \ {0}
          /\ job.todo[1].do = "push"
      BY <3>1, HeadItem
    <3>3. job.id \in Ids /\ outbox[job.id].type # "push"
      BY <3>2, JobFacts DEF TypeInv
    <3>4. Fine(job.id, job.todo[1])
      BY <3>2 DEF TodoInv, Sound
    <3>5. PICK c \in Ids : c = job.id
      BY <3>3
    <3>6. PICK slot \in 0..3, t \in SUBSET Users : slot = job.todo[1].slot /\ t = job.todo[1].to
      BY <3>2 DEF Item
    <3>7. Fits(c, slot, t)
      BY <3>2, <3>4, <3>5, <3>6 DEF Fine
    <3>8. Fits(c, slot, t)'
      BY <3>7, FitsStays
    <3>9. /\ outbox'[j].to = t /\ outbox'[j].key = NotificationKey(c, slot)
          /\ outbox'[j].seq = outbox[c].seq
      BY <3>0, <3>5, <3>6
    <3>10. outbox'[c].type # "push" /\ outbox'[c].seq = outbox'[j].seq
      BY <1>1, <3>3, <3>5, <3>9 DEF Same
    <3>11. Fits(c, slot, outbox[j].to)'
      BY <3>8, <3>9 DEF Fits
    <3> QED BY <1>1, <3>9, <3>10, <3>11 DEF From
  <2> QED BY <2>1, <2>2
<1>3. ASSUME NEW c \in Ids', outbox'[c].type = "edited", NEW u \in outbox'[c].to
      PROVE  <<outbox'[c].seq, u>> \in touched'
  <2>1. CASE c \in Ids
    BY <1>1, <1>3, <2>1, StepNames DEF KeysInv, Same
  <2> QED BY <1>3, <2>1, NewRowIs
<1>4. ASSUME NEW b \in Ids', NEW c \in Ids', outbox'[b].type = "created", outbox'[c].type = "created",
             outbox'[b].seq = outbox'[c].seq
      PROVE  b = c
  <2>1. ASSUME NEW x \in Ids', outbox'[x].type = "created", x \notin Ids
        PROVE  x = Len(outbox) + 1 /\ outbox'[x].seq = Len(kind) + 1 /\ Len(kind) \in Nat
    BY <2>1, NewRowIs
  <2>2. ASSUME NEW x \in Ids, Len(kind) \in Nat
        PROVE  outbox'[x].seq # Len(kind) + 1
    BY <1>1, <2>2, RowFacts DEF Same, Seqs
  <2>3. CASE b \in Ids /\ c \in Ids
    BY <1>1, <1>4, <2>3 DEF KeysInv, Same
  <2> QED BY <1>4, <2>1, <2>2, <2>3
<1>5. ASSUME NEW s \in Seqs'
      PROVE  \E c \in Ids' : outbox'[c].type = "created" /\ outbox'[c].seq = s
  <2>1. CASE s \in Seqs
    BY <1>1, <2>1 DEF KeysInv, Same
  <2>2. CASE s \notin Seqs /\ Post
    <3>1. /\ Adds(Event("created", Len(kind) + 1, {})) /\ Len(kind') = Len(kind) + 1
          /\ Len(kind) \in Nat
      BY <2>2, PostAdds
    <3>2. s = Len(kind) + 1
      BY <2>2, <3>1 DEF Seqs
    <3>3. /\ Len(outbox) + 1 \in Ids' /\ outbox'[Len(outbox) + 1].type = "created"
          /\ outbox'[Len(outbox) + 1].seq = s
      BY <3>1, <3>2 DEF Adds, Event, Ids
    <3> QED BY <3>3
  <2>3. CASE s \notin Seqs /\ ~Post
    <3>1. kind' = kind
      BY <2>3, MovesKeep, WorkKeeps, EndKeeps, Alternatives DEF Edit, vars, data
    <3> QED BY <2>3, <3>1 DEF Seqs
  <2> QED BY <2>1, <2>2, <2>3
<1> QED BY <1>2, <1>3, <1>4, <1>5 DEF KeysInv

LEMMA TypeStays ==
  ASSUME TypeInv, [Next]_vars, NEW c \in Ids, NEW slot
  PROVE  TypeOf(c, slot)' = TypeOf(c, slot)
  BY StepRows DEF RowsKept, Same, TypeOf

LEMMA UnlessWritten ==
  ASSUME [Next]_vars
  PROVE  WriteNotifications \/ (\E o \in opening : NoteCaughtUp(o)) \/ UNCHANGED inbox
<1>1. CASE Moves
  <2>1. ASSUME NEW u \in members, OpenChat(u) \/ ClearChat(u) \/ ToggleMute(u)
        PROVE  UNCHANGED inbox
    BY <2>1 DEF OpenChat, ClearChat, ToggleMute, data
  <2>2. ASSUME NEW o \in opening, AdvanceReadCursor(o) \/ ClearCommit(o)
        PROVE  UNCHANGED inbox
    BY <2>2 DEF AdvanceReadCursor, ClearCommit
  <2>3. ASSUME NEW d \in Devices, UnregisterDevice(d)
        PROVE  UNCHANGED inbox
    BY <2>3 DEF UnregisterDevice
  <2>4. ASSUME NEW d \in Devices, NEW u \in Users, RegisterDevice(d, u)
        PROVE  UNCHANGED inbox
    BY <2>4 DEF RegisterDevice
  <2> QED BY <1>1, <2>1, <2>2, <2>3, <2>4 DEF Moves
<1>2. CASE Post \/ \E s \in Seqs : Edit(s)
  BY <1>2, TalkKeeps
<1>3. CASE Starts
  BY <1>3 DEF Starts, Handle, Dispatch, data
<1>4. CASE PushSteps
  BY <1>4 DEF PushSteps, Evaluate, FindDevices, Send, RecordDeliveries, InvalidateTokens, data
<1>5. CASE SchedulePush \/ Settle \/ Fail \/ RecordFails
  BY <1>5, EndKeeps DEF data
<1>6. CASE UNCHANGED vars
  BY <1>6 DEF vars, data
<1> QED BY <1>1, <1>2, <1>3, <1>4, <1>5, <1>6, Alternatives DEF Works, PushSteps

\* What WriteNotifications does.
LEMMA Written ==
  ASSUME TypeInv, TodoInv, WriteNotifications
  PROVE  /\ job # None /\ job.step = "plan" /\ job.id \in Ids /\ outbox[job.id].type # "push"
         /\ Len(job.todo) \in Nat \ {0} /\ job.todo[1].do = "rows"
         /\ job.todo[1].slot \in {0, 1} /\ job.todo[1].type = TypeOf(job.id, job.todo[1].slot)
         /\ inbox' = WithRows(NotificationKey(job.id, job.todo[1].slot), job.todo[1].type, job.todo[1].to)
<1>1. Planned /\ Head(job.todo).do = "rows"
        /\ inbox' = WithRows(NotificationKey(job.id, Head(job.todo).slot), Head(job.todo).type, Head(job.todo).to)
  BY DEF WriteNotifications
<1>2. job # None /\ job.step = "plan" /\ Head(job.todo) = job.todo[1] /\ Len(job.todo) \in Nat \ {0}
  BY <1>1, HeadItem
<1>3. job.id \in Ids /\ outbox[job.id].type # "push"
  BY <1>2, JobFacts DEF TypeInv
<1>4. Fine(job.id, job.todo[1])
  BY <1>2 DEF TodoInv, Sound
<1> QED BY <1>1, <1>2, <1>3, <1>4 DEF Fine

LEMMA StepInbox ==
  ASSUME TypeInv, TodoInv, InboxInv, [Next]_vars
  PROVE  InboxInv'
<1> DEFINE Typed(row) ==
             \/ row.key <= 0
             \/ \E c \in Ids, slot \in {0, 1} :
                  outbox[c].type # "push" /\ row.key = NotificationKey(c, slot) /\ row.type = TypeOf(c, slot)
<1>1. ASSUME NEW row \in inbox'
      PROVE  row = [key |-> row.key, to |-> row.to, type |-> row.type] /\ Typed(row)
  <2>1. CASE row \in inbox
    BY <2>1 DEF InboxInv
  <2>2. CASE row \notin inbox /\ WriteNotifications
    <3> DEFINE key == NotificationKey(job.id, job.todo[1].slot)
               type == job.todo[1].type
               to == job.todo[1].to
    <3>1. /\ job.id \in Ids /\ outbox[job.id].type # "push" /\ job.todo[1].slot \in {0, 1}
          /\ type = TypeOf(job.id, job.todo[1].slot) /\ inbox' = WithRows(key, type, to)
      BY <2>2, Written
    <3> HIDE DEF key, type, to
    <3>2. row = [key |-> key, to |-> row.to, type |-> type]
      BY <2>2, <3>1, Rowed
    <3>3. row.key = key /\ row.type = type
      BY ONLY <3>2
    <3>4. Typed(row)
      BY <3>1, <3>3 DEF key
    <3> QED BY <3>2, <3>3, <3>4
  <2>3. ASSUME row \notin inbox, NEW o \in opening, NoteCaughtUp(o)
        PROVE  row = [key |-> row.key, to |-> row.to, type |-> row.type] /\ Typed(row)
    <3>1. inbox' = WithRows(-o.upTo, "chat_caught_up", {o.user})
      BY <2>3 DEF NoteCaughtUp
    <3>2. row = [key |-> -o.upTo, to |-> row.to, type |-> "chat_caught_up"]
      BY <2>3, <3>1, Rowed
    <3>3. row.key = -o.upTo /\ row.type = "chat_caught_up"
      BY ONLY <3>2
    <3>4. o.upTo \in Nat
      BY Bounds DEF TypeInv, ReadTypes, Openings
    <3>5. row.key <= 0
      BY <3>3, <3>4
    <3> QED BY <3>2, <3>3, <3>5
  <2> QED BY <1>1, <2>1, <2>2, <2>3, UnlessWritten
<1>2. ASSUME NEW row \in inbox'
      PROVE  Typed(row)'
  <2>1. CASE row.key <= 0
    BY <2>1
  <2>2. ASSUME NEW c \in Ids, NEW slot \in {0, 1},
               outbox[c].type # "push", row.key = NotificationKey(c, slot), row.type = TypeOf(c, slot)
        PROVE  Typed(row)'
    BY <2>2, TypeStays, StepRows DEF RowsKept, Same
  <2> QED BY <1>1, <1>2, <2>1, <2>2
<1> QED BY <1>1, <1>2 DEF InboxInv

LEMMA StepPushRows ==
  ASSUME TypeInv, TodoInv, PushRowInv, [Next]_vars
  PROVE  PushRowInv'
<1> SUFFICES ASSUME NEW j \in Ids', outbox'[j].type = "push", (outbox'[j].key % Slots) \in {0, 1}, NEW u \in outbox'[j].to
             PROVE  \E row \in inbox' : row.key = outbox'[j].key /\ row.to = u
  BY DEF PushRowInv, Has
<1>0. inbox \subseteq inbox'
  BY StepReads
<1>1. CASE j \in Ids
  <2>1. Same(outbox'[j], outbox[j])
    BY <1>1, StepRows DEF RowsKept
  <2>2. Has(outbox[j].key, u)
    BY <1>1, <2>1 DEF PushRowInv, Same
  <2> QED BY <1>0, <2>1, <2>2 DEF Has, Same
<1>2. CASE j \notin Ids
  <2>0. /\ SchedulePush /\ outbox'[j].key = NotificationKey(job.id, job.todo[1].slot)
        /\ outbox'[j].to = job.todo[1].to
    BY <1>2, NewRowIs
  <2>1. Planned /\ Head(job.todo).do = "push"
    BY <2>0 DEF SchedulePush
  <2>2. /\ job # None /\ job.step = "plan" /\ job.todo[1] \in Item /\ Len(job.todo) \in Nat \ {0}
        /\ job.todo[1].do = "push"
    BY <2>1, HeadItem
  <2>3. job.id \in Nat /\ job.todo[1].slot \in 0..3
    BY <2>2, JobFacts DEF TypeInv, Item
  <2>4. outbox'[j].key = NotificationKey(job.id, job.todo[1].slot) /\ outbox'[j].to = job.todo[1].to
    BY <2>0
  <2>5. job.todo[1].slot \in {0, 1}
    BY <2>3, <2>4, KeySlot
  <2>6. 1 \in 1..Len(job.todo) /\ \A l \in 1..(1 - 1) : FALSE
    BY <2>2
  <2>7. Has(NotificationKey(job.id, job.todo[1].slot), u)
    BY <2>2, <2>4, <2>5, <2>6 DEF TodoInv, Sound
  <2> QED BY <1>0, <2>4, <2>7 DEF Has
<1> QED BY <1>1, <1>2

LEMMA FineStays ==
  ASSUME TypeInv, [Next]_vars, NEW c \in Ids, NEW item \in Item, Fine(c, item)
  PROVE  Fine(c, item)'
<1>1. item.slot \in 0..3 /\ item.to \in SUBSET Users
  BY DEF Item
<1>2. item.do = "push" => Fits(c, item.slot, item.to)'
  <2>1. PICK slot \in 0..3, t \in SUBSET Users : slot = item.slot /\ t = item.to
    BY <1>1
  <2>2. item.do = "push" => Fits(c, slot, t)'
    BY <2>1, FitsStays DEF Fine
  <2> QED BY <2>1, <2>2 DEF Fits
<1>3. TypeOf(c, item.slot)' = TypeOf(c, item.slot)
  BY StepRows DEF RowsKept, Same, TypeOf
<1> QED BY <1>2, <1>3 DEF Fine

\* The rest of a plan is sound once its first item is done.
LEMMA SoundStays ==
  ASSUME TypeInv, [Next]_vars, NEW c \in Ids, NEW p \in Seq(Item), Sound(c, p)
  PROVE  Sound(c, p)'
<1>1. inbox \subseteq inbox'
  BY StepReads
<1>2. ASSUME NEW k \in 1..Len(p)
      PROVE  Fine(c, p[k])'
  <2>1. p[k] \in Item /\ Fine(c, p[k])
    BY ElementOfSeq DEF Sound
  <2>2. PICK item \in Item : item = p[k]
    BY <2>1
  <2>3. Fine(c, item)'
    BY <2>1, <2>2, FineStays
  <2> QED BY <2>2, <2>3 DEF Fine
<1>3. ASSUME NEW key, NEW u, Has(key, u)
      PROVE  Has(key, u)'
  BY <1>1, <1>3 DEF Has
<1> QED BY <1>2, <1>3 DEF Sound

LEMMA SoundTail ==
  ASSUME TypeInv, [Next]_vars, NEW c \in Ids, NEW p \in Seq(Item), NEW q \in Seq(Item),
         Len(p) \in Nat \ {0}, Len(q) = Len(p) - 1, \A k \in 1..(Len(p) - 1) : q[k] = p[k + 1],
         Sound(c, p), p[1].do = "rows" => \A u \in p[1].to : Has(NotificationKey(c, p[1].slot), u)'
  PROVE  Sound(c, q)'
<1>1. Sound(c, p)'
  BY SoundStays
<1> SUFFICES ASSUME NEW k \in 1..Len(q)
             PROVE  /\ Fine(c, q[k])'
                    /\ q[k].do = "push" /\ q[k].slot \in {0, 1} =>
                         \A u \in q[k].to :
                           \/ Has(NotificationKey(c, q[k].slot), u)'
                           \/ \E l \in 1..(k - 1) : q[l].do = "rows" /\ q[l].slot = q[k].slot /\ u \in q[l].to
  BY DEF Sound
<1>2. k + 1 \in 1..Len(p) /\ q[k] = p[k + 1] /\ k \in Nat /\ Len(q) \in Nat
  OBVIOUS
<1>3. Fine(c, q[k])'
  BY <1>1, <1>2 DEF Sound, Fine
<1>4. ASSUME q[k].do = "push", q[k].slot \in {0, 1}, NEW u \in q[k].to
      PROVE  \/ Has(NotificationKey(c, q[k].slot), u)'
             \/ \E l \in 1..(k - 1) : q[l].do = "rows" /\ q[l].slot = q[k].slot /\ u \in q[l].to
  <2>1. \/ Has(NotificationKey(c, q[k].slot), u)'
        \/ \E l \in 1..((k + 1) - 1) : p[l].do = "rows" /\ p[l].slot = q[k].slot /\ u \in p[l].to
    BY <1>1, <1>2, <1>4 DEF Sound, Has
  <2>2. ASSUME NEW l \in 1..((k + 1) - 1), p[l].do = "rows", p[l].slot = q[k].slot, u \in p[l].to
        PROVE  \/ Has(NotificationKey(c, q[k].slot), u)'
               \/ \E m \in 1..(k - 1) : q[m].do = "rows" /\ q[m].slot = q[k].slot /\ u \in q[m].to
    <3>1. CASE l = 1
      BY <2>2, <3>1 DEF Has
    <3>2. CASE l # 1
      <4>1. l - 1 \in 1..(k - 1) /\ l - 1 \in 1..(Len(p) - 1) /\ (l - 1) + 1 = l
        BY <1>2, <3>2
      <4>2. q[l - 1] = p[l]
        BY <4>1
      <4> QED BY <2>2, <4>1, <4>2
    <3> QED BY <3>1, <3>2
  <2> QED BY <2>1, <2>2
<1> QED BY <1>3, <1>4

LEMMA Fields ==
  ASSUME NEW slot, NEW type, NEW to
  PROVE  /\ Tell(slot, type, to).do = "rows" /\ Tell(slot, type, to).slot = slot
         /\ Tell(slot, type, to).type = type /\ Tell(slot, type, to).to = to
         /\ Push(slot, to).do = "push" /\ Push(slot, to).slot = slot /\ Push(slot, to).to = to
  BY DEF Tell, Push

Serves(c, p) ==
  \A u \in members :
    /\ kind[outbox[c].seq] = "announcement" => Holds(p, "rows", 0, u)
    /\ u \in named[outbox[c].seq] => Holds(p, "rows", 1, u)
    /\ \E slot \in 0..3 : Holds(p, "push", slot, u)

\* A plan tells and pushes to everybody it should, under the slots it should.
LEMMA CreatedSound ==
  ASSUME TypeInv, NEW c \in Ids, outbox[c].type = "created", NEW p,
         p = CreatedPlan(outbox[c].seq, named[outbox[c].seq])
  PROVE  Sound(c, p) /\ Serves(c, p)
<1> DEFINE s == outbox[c].seq
           n == named[s]
           t0 == Tell(0, "announcement", members)
           p0 == Push(0, members \ n)
           t1 == Tell(1, "mentioned", n)
           p1 == Push(1, n)
           p2 == Push(2, members)
           p3 == Push(3, members \ n)
<1>1. s \in Seqs /\ n \in SUBSET members /\ ChannelTypes /\ p = CreatedPlan(s, n)
  BY RowFacts, ElementOfSeq DEF TypeInv, ChannelTypes, Seqs
<1> HIDE DEF s, n
<1>2. \/ kind[s] = "announcement" /\ ~direct /\ n = {} /\ p = <<t0, p0>>
      \/ kind[s] = "announcement" /\ ~direct /\ n # {} /\ p = <<t0, p0, t1, p1>>
      \/ kind[s] = "text" /\ direct /\ n = {} /\ p = <<p2>>
      \/ kind[s] = "text" /\ direct /\ n # {} /\ p = <<p2, t1, p1>>
      \/ kind[s] = "text" /\ ~direct /\ n = {} /\ p = <<p3>>
      \/ kind[s] = "text" /\ ~direct /\ n # {} /\ p = <<t1, p1, p3>>
  BY <1>1, CreatedPlanIs
<1>3. /\ t0.do = "rows" /\ t0.slot = 0 /\ t0.type = "announcement" /\ t0.to = members
      /\ t1.do = "rows" /\ t1.slot = 1 /\ t1.type = "mentioned" /\ t1.to = n
  BY Fields
<1>4. /\ p0.do = "push" /\ p0.slot = 0 /\ p0.to = members \ n
      /\ p1.do = "push" /\ p1.slot = 1 /\ p1.to = n
      /\ p2.do = "push" /\ p2.slot = 2 /\ p2.to = members
      /\ p3.do = "push" /\ p3.slot = 3 /\ p3.to = members \ n
  BY Fields
<1> HIDE DEF t0, p0, t1, p1, p2, p3
<1>5. Fine(c, t0) /\ Fine(c, t1)
  BY <1>3 DEF Fine, TypeOf
<1>6. Fine(c, p1)
  BY <1>4 DEF Fine, Fits, s, n
<1>7. kind[s] = "announcement" /\ ~direct => Fine(c, p0)
  BY <1>4 DEF Fine, Fits, Main, s, n
<1>8. direct => Fine(c, p2)
  BY <1>4 DEF Fine, Fits, Main, s, n
<1>9. kind[s] = "text" /\ ~direct => Fine(c, p3)
  BY <1>4 DEF Fine, Fits, Main, s, n
<1> DEFINE After(k) == p[k].do = "push" /\ p[k].slot \in {0, 1} =>
                         \A u \in p[k].to : \E l \in 1..(k - 1) : p[l].do = "rows" /\ p[l].slot = p[k].slot /\ u \in p[l].to
           InOrder == \A k \in 1..Len(p) : Fine(c, p[k]) /\ After(k)
<1>10. InOrder => Sound(c, p)
  BY DEF Sound, s, n
<1> DEFINE Rows(slot, u) == \E k \in 1..Len(p) : p[k].do = "rows" /\ p[k].slot = slot /\ u \in p[k].to
           Pushed(slot, u) == \E k \in 1..Len(p) : p[k].do = "push" /\ p[k].slot = slot /\ u \in p[k].to
           All == \A u \in members :
                    /\ kind[s] = "announcement" => Rows(0, u)
                    /\ u \in n => Rows(1, u)
                    /\ \E slot \in 0..3 : Pushed(slot, u)
<1>11. All => Serves(c, p)
  BY DEF Serves, Holds, s, n
<1>12. CASE kind[s] = "announcement" /\ ~direct /\ n = {} /\ p = <<t0, p0>>
  <2>1. Len(p) = 2 /\ p[1] = t0 /\ p[2] = p0 /\ 1 \in 1..(2 - 1) /\ \A k \in 1..2 : k = 1 \/ k = 2
    BY <1>12
  <2> HIDE DEF Rows, Pushed
  <2>2. InOrder
    BY <1>3, <1>4, <1>5, <1>7, <1>12, <2>1
  <2>3. All
    BY <1>3, <1>4, <1>12, <2>1 DEF Rows, Pushed
  <2> QED BY <1>10, <1>11, <2>2, <2>3
<1>13. CASE kind[s] = "announcement" /\ ~direct /\ n # {} /\ p = <<t0, p0, t1, p1>>
  <2>1. Len(p) = 4 /\ p[1] = t0 /\ p[2] = p0 /\ p[3] = t1 /\ p[4] = p1
          /\ 1 \in 1..(2 - 1) /\ 3 \in 1..(4 - 1) /\ \A k \in 1..4 : k = 1 \/ k = 2 \/ k = 3 \/ k = 4
    BY <1>13
  <2>2. InOrder
    BY <1>3, <1>4, <1>5, <1>6, <1>7, <1>13, <2>1
  <2>3. All
    BY <1>3, <1>4, <1>13, <2>1
  <2> QED BY <1>10, <1>11, <2>2, <2>3
<1>14. CASE kind[s] = "text" /\ direct /\ n = {} /\ p = <<p2>>
  <2>1. Len(p) = 1 /\ p[1] = p2 /\ \A k \in 1..1 : k = 1
    BY <1>14
  <2>2. InOrder
    BY <1>4, <1>8, <1>14, <2>1
  <2>3. All
    BY <1>3, <1>4, <1>14, <2>1
  <2> QED BY <1>10, <1>11, <2>2, <2>3
<1>15. CASE kind[s] = "text" /\ direct /\ n # {} /\ p = <<p2, t1, p1>>
  <2>1. /\ Len(p) = 3 /\ p[1] = p2 /\ p[2] = t1 /\ p[3] = p1 /\ 2 \in 1..(3 - 1)
        /\ \A k \in 1..3 : k = 1 \/ k = 2 \/ k = 3
    BY <1>15
  <2>2. InOrder
    BY <1>3, <1>4, <1>5, <1>6, <1>8, <1>15, <2>1
  <2>3. All
    BY <1>3, <1>4, <1>15, <2>1
  <2> QED BY <1>10, <1>11, <2>2, <2>3
<1>16. CASE kind[s] = "text" /\ ~direct /\ n = {} /\ p = <<p3>>
  <2>1. Len(p) = 1 /\ p[1] = p3 /\ \A k \in 1..1 : k = 1
    BY <1>16
  <2>2. InOrder
    BY <1>4, <1>9, <1>16, <2>1
  <2>3. All
    BY <1>3, <1>4, <1>16, <2>1
  <2> QED BY <1>10, <1>11, <2>2, <2>3
<1>17. CASE kind[s] = "text" /\ ~direct /\ n # {} /\ p = <<t1, p1, p3>>
  <2>1. /\ Len(p) = 3 /\ p[1] = t1 /\ p[2] = p1 /\ p[3] = p3 /\ 1 \in 1..(2 - 1)
        /\ \A k \in 1..3 : k = 1 \/ k = 2 \/ k = 3
    BY <1>17
  <2>2. InOrder
    BY <1>3, <1>4, <1>5, <1>6, <1>9, <1>17, <2>1
  <2>3. All
    BY <1>3, <1>4, <1>17, <2>1
  <2> QED BY <1>10, <1>11, <2>2, <2>3
<1> QED BY <1>2, <1>12, <1>13, <1>14, <1>15, <1>16, <1>17

LEMMA EditedSound ==
  ASSUME TypeInv, KeysInv, NEW c \in Ids, outbox[c].type = "edited", NEW p, p = EditedPlan(outbox[c].to)
  PROVE  Sound(c, p)
<1> DEFINE a == outbox[c].to
           t0 == Tell(0, "mentioned", a)
           p0 == Push(0, a)
<1>1. /\ t0.do = "rows" /\ t0.slot = 0 /\ t0.type = "mentioned" /\ t0.to = a
      /\ p0.do = "push" /\ p0.slot = 0 /\ p0.to = a
  BY Fields
<1>2. p = IF a = {} THEN <<>> ELSE <<t0, p0>>
  BY DEF EditedPlan
<1>3. \A u \in a : <<outbox[c].seq, u>> \in touched
  BY DEF KeysInv
<1> HIDE DEF t0, p0, a
<1>4. Fine(c, t0) /\ Fine(c, p0)
  BY <1>1, <1>3 DEF Fine, Fits, TypeOf
<1>5. CASE p = <<>>
  BY <1>5 DEF Sound
<1>6. CASE p = <<t0, p0>>
  <2>1. Len(p) = 2 /\ p[1] = t0 /\ p[2] = p0 /\ 1 \in 1..(2 - 1) /\ \A k \in 1..2 : k = 1 \/ k = 2
    BY <1>6
  <2> QED BY <1>1, <1>4, <2>1 DEF Sound
<1> QED BY <1>2, <1>5, <1>6

LEMMA StepTodo ==
  ASSUME TypeInv, KeysInv, TodoInv, [Next]_vars
  PROVE  TodoInv'
<1>0. ASSUME UNCHANGED job
      PROVE  TodoInv'
  <2> SUFFICES ASSUME job # None, job.step = "plan" PROVE TodoInv'
    BY <1>0 DEF TodoInv
  <2>1. PICK c \in Ids, p \in Seq(Item) : c = job.id /\ p = job.todo
    BY JobFacts DEF TypeInv
  <2>2. Sound(c, p)
    BY <2>1 DEF TodoInv
  <2>3. Sound(c, p)'
    BY <2>2, SoundStays
  <2>4. c = job'.id /\ p = job'.todo
    BY <1>0, <2>1
  <2> QED BY <2>3, <2>4 DEF TodoInv, Sound
<1>1. CASE Post \/ (\E s \in Seqs : Edit(s))
  BY <1>0, <1>1, TalkKeeps
<1>2. CASE Moves
  BY <1>0, <1>2, MovesKeep
<1>3. ASSUME NEW i \in Ids, Handle(i)
      PROVE  TodoInv'
  <2>1. /\ job'.id = i /\ outbox[i].type # "push" /\ outbox[i].seq \in Seqs /\ named[outbox[i].seq] \in SUBSET members
        /\ outbox[i].to \subseteq Users /\ Plans(job')
        /\ job'.todo = IF outbox[i].type = "created" THEN CreatedPlan(outbox[i].seq, named[outbox[i].seq])
                                                      ELSE EditedPlan(outbox[i].to)
    BY <1>3, HandleJob
  <2>2. job'.todo \in Seq(Item)
    BY <2>1 DEF Plans
  <2>3. PICK p \in Seq(Item) : p = job'.todo
    BY <2>2
  <2>4. outbox[i].type \in {"created", "edited"}
    BY <2>1, RowFacts
  <2>5. Sound(i, p)
    BY <2>1, <2>3, <2>4, CreatedSound, EditedSound
  <2>6. Sound(i, p)'
    BY <2>5, SoundStays
  <2> QED BY <2>1, <2>3, <2>6 DEF TodoInv, Sound
<1>4. ASSUME NEW i \in Ids, Dispatch(i)
      PROVE  TodoInv'
  BY <1>4, DispatchJob DEF TodoInv
<1>5. CASE WriteNotifications \/ SchedulePush
  <2>1. Planned
    BY <1>5 DEF WriteNotifications, SchedulePush
  <2>2. /\ job # None /\ job.step = "plan" /\ job.todo \in Seq(Item) /\ Len(job.todo) \in Nat \ {0}
        /\ Tail(job.todo) \in Seq(Item) /\ Len(Tail(job.todo)) = Len(job.todo) - 1
        /\ \A k \in 1..(Len(job.todo) - 1) : Tail(job.todo)[k] = job.todo[k + 1]
        /\ Head(job.todo) = job.todo[1]
    BY <2>1, HeadItem
  <2>3. PICK c \in Ids, p \in Seq(Item), q \in Seq(Item) : c = job.id /\ p = job.todo /\ q = Tail(job.todo)
    BY <2>2, JobFacts DEF TypeInv
  <2>4. Sound(c, p)
    BY <2>2, <2>3 DEF TodoInv
  <2>5. p[1].do = "rows" => \A u \in p[1].to : Has(NotificationKey(c, p[1].slot), u)'
    <3>1. CASE WriteNotifications
      <4>1. inbox' = WithRows(NotificationKey(job.id, job.todo[1].slot), job.todo[1].type, job.todo[1].to)
        BY <3>1, Written
      <4>2. \A u \in job.todo[1].to : \E row \in inbox' : row.key = NotificationKey(job.id, job.todo[1].slot) /\ row.to = u
        BY <4>1, Rowed
      <4> QED BY <2>3, <4>2 DEF Has
    <3>2. CASE SchedulePush
      BY <2>2, <2>3, <3>2 DEF SchedulePush
    <3> QED BY <1>5, <3>1, <3>2
  <2>6. Sound(c, q)'
    BY <2>2, <2>3, <2>4, <2>5, SoundTail
  <2>7. job'.id = c /\ job'.todo = q
    BY <1>5, <2>3, TailJob
  <2> QED BY <2>6, <2>7 DEF TodoInv, Sound
<1>6. CASE PushSteps
  <2>1. PICK st, rem, tar, q : Now(st, rem, tar, q) /\ st \in Steps
    BY <1>6, PushGoesOn
  <2> QED BY <2>1 DEF Now, TodoInv, Steps
<1>7. CASE Settle \/ Fail \/ RecordFails
  BY <1>7, SettleEnds, FailEnds DEF Ends, TodoInv
<1>8. CASE UNCHANGED vars
  BY <1>0, <1>8 DEF vars
<1> QED BY <1>1, <1>2, <1>3, <1>4, <1>5, <1>6, <1>7, <1>8, Alternatives DEF Starts, Works, PushSteps

LEMMA HoldsTail ==
  ASSUME NEW p, NEW q, Len(p) \in Nat \ {0}, Len(q) = Len(p) - 1, \A k \in 1..(Len(p) - 1) : q[k] = p[k + 1],
         NEW do, NEW slot, NEW u, Holds(p, do, slot, u)
  PROVE  Holds(q, do, slot, u) \/ (p[1].do = do /\ p[1].slot = slot /\ u \in p[1].to)
<1>1. PICK k \in 1..Len(p) : p[k].do = do /\ p[k].slot = slot /\ u \in p[k].to
  BY DEF Holds
<1>2. CASE k # 1
  <2>1. k - 1 \in 1..(Len(p) - 1) /\ (k - 1) + 1 = k
    BY <1>2
  <2>2. q[k - 1] = p[k] /\ k - 1 \in 1..Len(q)
    BY <2>1
  <2> QED BY <1>1, <2>2 DEF Holds
<1> QED BY <1>1, <1>2

\* A plan loses an item only by doing it, and a row only with its plan or by settling it.
LEMMA AwaitsGoesOn ==
  ASSUME TypeInv, [Next]_vars, NEW c \in Ids, NEW do, NEW slot, NEW u, Awaits(c, do, slot, u), Obliged(c)'
  PROVE  \/ Awaits(c, do, slot, u)'
         \/ /\ WriteNotifications \/ SchedulePush
            /\ job.todo[1].do = do /\ job.todo[1].slot = slot /\ u \in job.todo[1].to
<1>0. job # None /\ job.id = c /\ job.step = "plan" /\ Holds(job.todo, do, slot, u)
  BY DEF Awaits
<1>1. ASSUME UNCHANGED job
      PROVE  Awaits(c, do, slot, u)'
  BY <1>0, <1>1 DEF Awaits, Holds
<1>2. CASE Post \/ (\E s \in Seqs : Edit(s))
  BY <1>1, <1>2, TalkKeeps
<1>3. CASE Moves
  BY <1>1, <1>3, MovesKeep
<1>4. CASE Starts
  BY <1>0, <1>4, HandleJob, DispatchJob DEF Starts
<1>5. CASE WriteNotifications \/ SchedulePush
  <2>1. Planned
    BY <1>5 DEF WriteNotifications, SchedulePush
  <2>2. /\ Len(job.todo) \in Nat \ {0} /\ Len(Tail(job.todo)) = Len(job.todo) - 1
        /\ \A k \in 1..(Len(job.todo) - 1) : Tail(job.todo)[k] = job.todo[k + 1]
    BY <2>1, HeadItem
  <2>3. Holds(Tail(job.todo), do, slot, u) \/ (job.todo[1].do = do /\ job.todo[1].slot = slot /\ u \in job.todo[1].to)
    BY <1>0, <2>2, HoldsTail
  <2>4. job' # None /\ job'.id = c /\ job'.step = "plan" /\ job'.todo = Tail(job.todo)
    BY <1>0, <1>5, TailJob
  <2> QED BY <1>5, <2>3, <2>4 DEF Awaits, Holds
<1>6. CASE PushSteps
  BY <1>0, <1>6, PushGoesOn
<1>7. CASE Settle
  <2>1. job.todo = <<>>
    BY <1>0, <1>7 DEF Settle
  <2>2. Len(job.todo) = 0
    BY <2>1
  <2> QED BY <1>0, <2>2 DEF Holds
<1>8. CASE Fail \/ RecordFails
  BY <1>0, <1>8, FailEnds DEF Ends, Obliged
<1>9. CASE UNCHANGED vars
  BY <1>1, <1>9 DEF vars
<1> QED BY <1>2, <1>3, <1>4, <1>5, <1>6, <1>7, <1>8, <1>9, Alternatives DEF Works, PushSteps

\* Rows of one key and recipient are of one type: whoever has one was told.
LEMMA WriteTells ==
  ASSUME TypeInv, TodoInv, InboxInv', WriteNotifications, [Next]_vars,
         NEW c \in Ids, NEW slot \in {0, 1}, c = job.id, slot = job.todo[1].slot, NEW u \in job.todo[1].to
  PROVE  [key |-> NotificationKey(c, slot), to |-> u, type |-> TypeOf(c, slot)] \in inbox'
<1>1. PICK type : type = TypeOf(c, slot)
  OBVIOUS
<1>2. PICK row \in inbox' : row.key = NotificationKey(c, slot) /\ row.to = u
  BY Written, Rowed
<1>3. c \in Nat /\ c > 0
  BY DEF Ids
<1>4. ~(row.key <= 0)
  BY <1>2, <1>3 DEF NotificationKey, Slots
<1>5. PICK b \in Ids', x \in {0, 1} : row.key = NotificationKey(b, x) /\ row.type = TypeOf(b, x)'
  BY <1>4 DEF InboxInv
<1>6. b \in Nat /\ slot \in 0..3 /\ x \in 0..3
  BY DEF Ids
<1>7. b = c /\ x = slot
  <2>1. NotificationKey(b, x) = NotificationKey(c, slot)
    BY <1>2, <1>5
  <2> QED BY ONLY <1>3, <1>6, <2>1, KeyIsOne
<1>8. TypeOf(c, slot)' = type
  BY <1>1, TypeStays
<1>9. row = [key |-> NotificationKey(c, slot), to |-> u, type |-> type]
  <2>1. row = [key |-> row.key, to |-> row.to, type |-> row.type]
    BY DEF InboxInv
  <2>2. row.type = type
    BY <1>5, <1>7, <1>8
  <2> QED BY <1>2, <2>1, <2>2
<1>10. [key |-> NotificationKey(c, slot), to |-> u, type |-> type] \in inbox'
  BY <1>9
<1> QED BY <1>1, <1>10

LEMMA ToldOn ==
  ASSUME TypeInv, TodoInv, InboxInv', [Next]_vars, NEW c \in Ids, outbox[c].type = "created", Obliged(c)',
         NEW slot \in {0, 1}, NEW u, NEW type, type = TypeOf(c, slot),
         Told(c, slot, u, type) \/ Awaits(c, "rows", slot, u)
  PROVE  Told(c, slot, u, type)' \/ Awaits(c, "rows", slot, u)'
<1>1. CASE Told(c, slot, u, type)
  BY <1>1, StepReads DEF Told
<1>2. CASE Awaits(c, "rows", slot, u)
  <2>1. \/ Awaits(c, "rows", slot, u)'
        \/ /\ WriteNotifications \/ SchedulePush
           /\ job.todo[1].do = "rows" /\ job.todo[1].slot = slot /\ u \in job.todo[1].to
    BY <1>2, AwaitsGoesOn
  <2>2. c = job.id
    BY <1>2 DEF Awaits
  <2>3. CASE WriteNotifications /\ job.todo[1].slot = slot /\ u \in job.todo[1].to
    BY <2>2, <2>3, WriteTells DEF Told
  <2>4. CASE SchedulePush /\ job.todo[1].do = "rows"
    <3>1. Planned /\ Head(job.todo).do = "push"
      BY <2>4 DEF SchedulePush
    <3> QED BY <2>4, <3>1, HeadItem
  <2> QED BY <2>1, <2>3, <2>4
<1> QED BY <1>1, <1>2

LEMMA CoveredOn ==
  ASSUME TypeInv, TodoInv, [Next]_vars, NEW c \in Ids, Obliged(c)', NEW u,
         Covered(outbox[c].seq, u) \/ \E slot \in 0..3 : Awaits(c, "push", slot, u)
  PROVE  Covered(outbox[c].seq, u)' \/ \E slot \in 0..3 : Awaits(c, "push", slot, u)'
<1>0. PICK s : s = outbox[c].seq /\ s = outbox'[c].seq
  BY StepRows DEF RowsKept, Same
<1> SUFFICES (\E j \in Ids' : outbox'[j].type = "push" /\ outbox'[j].seq = s /\ u \in outbox'[j].to)
               \/ \E slot \in 0..3 : Awaits(c, "push", slot, u)'
  BY <1>0 DEF Covered
<1>1. CASE Covered(outbox[c].seq, u)
  <2>1. PICK j \in Ids : outbox[j].type = "push" /\ outbox[j].seq = s /\ u \in outbox[j].to
    BY <1>0, <1>1 DEF Covered
  <2>2. j \in Ids' /\ Same(outbox'[j], outbox[j])
    BY StepRows DEF RowsKept
  <2> QED BY <2>1, <2>2 DEF Same
<1>2. ASSUME NEW slot \in 0..3, Awaits(c, "push", slot, u)
      PROVE  (\E j \in Ids' : outbox'[j].type = "push" /\ outbox'[j].seq = s /\ u \in outbox'[j].to)
               \/ Awaits(c, "push", slot, u)'
  <2>1. \/ Awaits(c, "push", slot, u)'
        \/ /\ WriteNotifications \/ SchedulePush
           /\ job.todo[1].do = "push" /\ job.todo[1].slot = slot /\ u \in job.todo[1].to
    BY <1>2, AwaitsGoesOn
  <2>2. c = job.id
    BY <1>2 DEF Awaits
  <2>3. CASE WriteNotifications /\ job.todo[1].do = "push"
    BY <2>3, Written
  <2>4. CASE SchedulePush /\ u \in job.todo[1].to
    <3>1. Adds(Deferred(s, NotificationKey(job.id, job.todo[1].slot), job.todo[1].to))
      BY <1>0, <2>2, <2>4, ScheduleAdds
    <3>2. /\ Len(outbox) + 1 \in Ids' /\ outbox'[Len(outbox) + 1].type = "push"
          /\ outbox'[Len(outbox) + 1].seq = s
            /\ u \in outbox'[Len(outbox) + 1].to
      BY <2>4, <3>1 DEF Adds, Ids, Deferred
    <3> QED BY <3>2
  <2> QED BY <2>1, <2>3, <2>4
<1> QED BY <1>1, <1>2

LEMMA ServedOn ==
  ASSUME TypeInv, TodoInv, InboxInv', [Next]_vars, NEW c \in Ids, outbox[c].type = "created", Obliged(c)',
         NEW u \in members, Served(c, u)
  PROVE  Served(c, u)'
<1>1. PICK s \in Seqs : s = outbox[c].seq /\ s = outbox'[c].seq
  BY StepRows, RowFacts DEF RowsKept, Same
<1>2. kind'[s] = kind[s] /\ u \in Users
  BY StepChannel DEF TypeInv, ChannelTypes
<1>3. u \in named'[s] /\ <<s, u>> \notin touched' => u \in named[s] /\ <<s, u>> \notin touched
  BY <1>2, StepNames
<1>4. TypeOf(c, 0) = "announcement" /\ TypeOf(c, 1) = "mentioned"
  BY DEF TypeOf
<1>5. kind'[s] = "announcement" => Told(c, 0, u, "announcement")' \/ Awaits(c, "rows", 0, u)'
  BY <1>1, <1>2, <1>4, ToldOn DEF Served
<1>6. u \in named'[s] /\ <<s, u>> \notin touched' => Told(c, 1, u, "mentioned")' \/ Awaits(c, "rows", 1, u)'
  BY <1>1, <1>3, <1>4, ToldOn DEF Served
<1>7. Covered(outbox[c].seq, u)' \/ \E slot \in 0..3 : Awaits(c, "push", slot, u)'
  BY CoveredOn DEF Served
<1> QED BY <1>1, <1>5, <1>6, <1>7 DEF Served

LEMMA StepServed ==
  ASSUME TypeInv, TypeInv', TodoInv, InboxInv', ServedInv, [Next]_vars
  PROVE  ServedInv'
<1> SUFFICES ASSUME NEW c \in Ids', Obliged(c)', NEW u \in members' PROVE Served(c, u)'
  BY DEF ServedInv
<1>0. u \in members
  BY StepChannel
<1>1. CASE c \in Ids /\ Obliged(c)
  <2>1. Served(c, u) /\ outbox[c].type = "created"
    BY <1>0, <1>1 DEF ServedInv, Obliged
  <2> QED BY <1>0, <1>1, <2>1, ServedOn
<1>2. ASSUME c \notin Ids
      PROVE  FALSE
  <2>1. outbox'[c].type = "created" /\ outbox'[c].status = "ready" /\ job' # None /\ job'.id = c
    BY <1>2, NewRowIs DEF Obliged
  <2>2. Post
    BY <1>2, <2>1, NewRowIs
  <2>3. job' = job
    BY <2>2, TalkKeeps
  <2> QED BY <1>2, <2>1, <2>3, JobFacts DEF TypeInv
<1>3. CASE c \in Ids /\ ~Obliged(c)
  <2>1. Same(outbox'[c], outbox[c]) /\ outbox'[c].type = "created"
    BY <1>3, StepRows DEF RowsKept, Obliged
  <2>2. outbox[c].type = "created" /\ outbox[c].status # "done" /\ (job = None \/ job.id # c)
    BY <1>3, <2>1 DEF Same, Obliged
  <2>3. outbox'[c].status = outbox[c].status
    BY <1>3, <2>2, StepRows DEF RowsKept
  <2>4. job' # None /\ job'.id = c
    BY <2>2, <2>3 DEF Obliged
  <2>5. Handle(c)
    <3>1. CASE UNCHANGED job
      BY <2>2, <2>4, <3>1
    <3>2. CASE Post \/ (\E s \in Seqs : Edit(s)) \/ Moves \/ UNCHANGED vars
      BY <3>1, <3>2, TalkKeeps, MovesKeep DEF vars
    <3>3. ASSUME NEW i \in Ids, Handle(i)
          PROVE  Handle(c)
      BY <2>4, <3>3, HandleJob
    <3>4. ASSUME NEW i \in Ids, Dispatch(i)
          PROVE  FALSE
      BY <2>2, <2>4, <3>4, DispatchJob
    <3>5. CASE WriteNotifications \/ SchedulePush
      <4>1. job # None /\ job'.id = job.id
        BY <3>5, TailJob DEF WriteNotifications, SchedulePush, Planned
      <4> QED BY <2>2, <2>4, <4>1
    <3>6. CASE PushSteps
      <4>1. job # None /\ job'.id = job.id
        BY <3>6, PushGoesOn DEF Now
      <4> QED BY <2>2, <2>4, <4>1
    <3>7. CASE Settle \/ Fail \/ RecordFails
      BY <2>4, <3>7, SettleEnds, FailEnds DEF Ends
    <3> QED BY <3>2, <3>3, <3>4, <3>5, <3>6, <3>7, Alternatives DEF Starts, Works, PushSteps
  <2>6. job'.step = "plan" /\ job'.todo = CreatedPlan(outbox[c].seq, named[outbox[c].seq])
          /\ UNCHANGED <<members, kind, named, outbox>>
    BY <1>3, <2>2, <2>5, HandleJob, WorkKeeps DEF Starts
  <2>7. PICK p : p = job'.todo
    OBVIOUS
  <2>8. Serves(c, p)
    BY <1>3, <2>2, <2>6, <2>7, CreatedSound
  <2>9. /\ kind[outbox[c].seq] = "announcement" => Holds(p, "rows", 0, u)
        /\ u \in named[outbox[c].seq] => Holds(p, "rows", 1, u)
        /\ \E slot \in 0..3 : Holds(p, "push", slot, u)
    BY <1>0, <2>8 DEF Serves
  <2>10. \A do, slot : Holds(p, do, slot, u) => Awaits(c, do, slot, u)'
    BY <2>4, <2>6, <2>7 DEF Awaits, Holds
  <2> QED BY <2>6, <2>9, <2>10 DEF Served
<1> QED BY <1>1, <1>2, <1>3

LEMMA AlwaysNews == Spec => [](TypeInv /\ NewsInv)
<1>1. Init => NewsInv
  <2> SUFFICES ASSUME Init PROVE NewsInv
    OBVIOUS
  <2>1. outbox = <<>> /\ kind = <<>> /\ inbox = {} /\ job = None
    BY DEF Init
  <2>2. Ids = {} /\ Seqs = {}
    BY <2>1 DEF Ids, Seqs
  <2> QED BY <2>1, <2>2 DEF NewsInv, KeysInv, InboxInv, TodoInv, PushRowInv, ServedInv
<1>2. TypeInv /\ NewsInv /\ [Next]_vars => NewsInv'
  BY StepTypes, StepKeys, StepInbox, StepTodo, StepPushRows, StepServed DEF NewsInv
<1> QED BY <1>1, <1>2, InitTypes, StepTypes, PTL DEF Spec

\* Whoever an announcement or a mention is pushed to has its inbox row before the push exists,
\* and a handled message has told its whole audience and everybody it names (onMessageCreated).
THEOREM NewsArrives == Spec => []NewsIsKept
<1>1. TypeInv /\ NewsInv => NewsIsKept
  <2> SUFFICES ASSUME TypeInv, NewsInv, NEW i \in Ids
               PROVE  /\ outbox[i].type = "push" /\ (outbox[i].key % Slots) \in {0, 1} =>
                           \A u \in outbox[i].to : \E row \in inbox : row.key = outbox[i].key /\ row.to = u
                      /\ outbox[i].type = "created" /\ outbox[i].status = "done" =>
                           \A u \in members :
                             /\ kind[outbox[i].seq] = "announcement" =>
                                  [key |-> NotificationKey(i, 0), to |-> u, type |-> "announcement"] \in inbox
                             /\ u \in named[outbox[i].seq] /\ <<outbox[i].seq, u>> \notin touched =>
                                  [key |-> NotificationKey(i, 1), to |-> u, type |-> "mentioned"] \in inbox
    BY DEF NewsIsKept
  <2>1. outbox[i].type = "push" /\ (outbox[i].key % Slots) \in {0, 1} =>
          \A u \in outbox[i].to : \E row \in inbox : row.key = outbox[i].key /\ row.to = u
    BY DEF NewsInv, PushRowInv, Has
  <2>2. ASSUME outbox[i].type = "created", outbox[i].status = "done", NEW u \in members
        PROVE  /\ kind[outbox[i].seq] = "announcement" => Told(i, 0, u, "announcement")
               /\ u \in named[outbox[i].seq] /\ <<outbox[i].seq, u>> \notin touched => Told(i, 1, u, "mentioned")
    <3>1. Served(i, u)
      BY <2>2 DEF NewsInv, ServedInv, Obliged
    <3>2. job # None => job.id # i
      BY <2>2, JobFacts DEF TypeInv
    <3> QED BY <3>1, <3>2 DEF Served, Awaits
  <2> QED BY <2>1, <2>2 DEF Told
<1> QED BY <1>1, AlwaysNews, PTL

(***************************************************************************)
(* Nobody is forgotten.                                                    *)
(***************************************************************************)
Reached(s, u) == <<s, u>> \in excused \/ \E d \in Devices : buzzed[s][u][d] > 0

\* Whoever owns a phone the ledger knows was reached for that message.
LedgerInv ==
  \A entry \in ledger :
    /\ owner[entry[2]] \in Users
    /\ \E c \in Ids, slot \in 0..3 :
         /\ outbox[c].type # "push" /\ entry[1] = NotificationKey(c, slot)
         /\ Reached(outbox[c].seq, owner[entry[2]])
PushInv ==
  job # None /\ job.step # "plan" =>
    /\ job.step = "evaluate" => job.remaining = outbox[job.id].to
    /\ job.step \in {"evaluate", "devices"} => job.targets = {}
    /\ job.step \notin {"evaluate", "devices"} => job.remaining = {}
    /\ \A u \in outbox[job.id].to :
         u \in job.remaining \/ (job.step = "send" /\ \E t \in job.targets : t[1] = u) \/ Reached(About, u)
    /\ \A t \in job.targets :
         /\ owner[t[2]] \in {t[1], Gone} \/ <<About, owner[t[2]]>> \in excused
         /\ job.step # "send" => Reached(About, t[1])
DoneInv ==
  \A i \in Ids : outbox[i].type = "push" /\ outbox[i].status = "done" =>
    \A u \in outbox[i].to : Reached(outbox[i].seq, u)
ReachInv == LedgerInv /\ PushInv /\ DoneInv

\* Phones change hands with an excuse, or go and take their deliveries with them.
LEMMA StepOwner ==
  ASSUME TypeInv, [Next]_vars
  PROVE  /\ excused \subseteq excused'
         /\ ledger' \subseteq ledger \/ RecordDeliveries
         /\ \A d \in Devices :
              \/ owner'[d] = owner[d]
              \/ owner'[d] = Gone /\ \A entry \in ledger' : entry[2] # d
              \/ owner[d] # Gone /\ owner'[d] \in Users /\ \A s \in Seqs : <<s, owner'[d]>> \in excused'
<1> DEFINE goal == /\ excused \subseteq excused'
                   /\ ledger' \subseteq ledger \/ RecordDeliveries
                   /\ \A d \in Devices :
                        \/ owner'[d] = owner[d]
                        \/ owner'[d] = Gone /\ \A entry \in ledger' : entry[2] # d
                        \/ owner[d] # Gone /\ owner'[d] \in Users /\ \A s \in Seqs : <<s, owner'[d]>> \in excused'
<1>0. ASSUME excused \subseteq excused', UNCHANGED owner, ledger' \subseteq ledger \/ RecordDeliveries
      PROVE  goal
  BY <1>0
<1>1. CASE Post \/ \E s \in Seqs : Edit(s)
  BY <1>0, <1>1, TalkKeeps
<1>2. ASSUME NEW u \in members, OpenChat(u) \/ ClearChat(u) \/ ToggleMute(u)
      PROVE  goal
  BY <1>0, <1>2 DEF OpenChat, ClearChat, ToggleMute, data
<1>3. ASSUME NEW o \in opening, AdvanceReadCursor(o) \/ NoteCaughtUp(o) \/ ClearCommit(o)
      PROVE  goal
  BY <1>0, <1>3 DEF AdvanceReadCursor, NoteCaughtUp, ClearCommit, history
<1>4. ASSUME NEW e \in Devices, NEW u \in Users, RegisterDevice(e, u)
      PROVE  goal
  <2>1. owner' = [owner EXCEPT ![e] = u] /\ UNCHANGED ledger /\ excused' = excused \cup {<<s, u>> : s \in Seqs} /\ owner[e] # Gone
    BY <1>4 DEF RegisterDevice
  <2>2. \A s \in Seqs : <<s, u>> \in excused'
    BY <2>1
  <2>3. owner \in [Devices -> Users \cup {Gone}]
    BY DEF TypeInv, PhoneTypes
  <2>4. owner'[e] = u /\ \A d \in Devices : d # e => owner'[d] = owner[d]
    BY <2>1, <2>3
  <2> QED BY <2>1, <2>2, <2>4
<1>5. ASSUME NEW e \in Devices, UnregisterDevice(e)
      PROVE  goal
  <2>1. owner' = [owner EXCEPT ![e] = Gone] /\ ledger' = {entry \in ledger : entry[2] # e} /\ UNCHANGED excused
    BY <1>5 DEF UnregisterDevice
  <2>2. owner \in [Devices -> Users \cup {Gone}]
    BY DEF TypeInv, PhoneTypes
  <2>3. owner'[e] = Gone /\ \A d \in Devices : d # e => owner'[d] = owner[d]
    BY <2>1, <2>2
  <2> QED BY <2>1, <2>3
<1>6. CASE Starts
  BY <1>0, <1>6 DEF Starts, Handle, Dispatch, data, history
<1>7. CASE WriteNotifications
  BY <1>0, <1>7 DEF WriteNotifications, history
<1>8. CASE Evaluate \/ FindDevices \/ Send
  BY <1>0, <1>8 DEF Evaluate, FindDevices, Send, data
<1>9. CASE RecordDeliveries \/ InvalidateTokens
  BY <1>0, <1>9 DEF RecordDeliveries, InvalidateTokens, history
<1>10. CASE SchedulePush \/ Settle \/ Fail \/ RecordFails
  BY <1>0, <1>10, EndKeeps DEF data
<1>11. CASE UNCHANGED vars
  BY <1>0, <1>11 DEF vars, data, history
<1> HIDE DEF goal
<1>12. goal
  BY <1>1, <1>2, <1>3, <1>4, <1>5, <1>6, <1>7, <1>8, <1>9, <1>10, <1>11, Alternatives DEF goal,
       Moves, Works
<1> QED BY <1>12 DEF goal

LEMMA ReachedStays ==
  ASSUME TypeInv, [Next]_vars, NEW s \in 1..MaxSeq, NEW u \in Users, Reached(s, u)
  PROVE  Reached(s, u)'
<1>1. CASE <<s, u>> \in excused
  BY <1>1, StepOwner DEF Reached
<1>2. ASSUME NEW d \in Devices, buzzed[s][u][d] > 0
      PROVE  buzzed'[s][u][d] > 0
  <2>1. buzzed[s][u][d] \in Nat /\ buzzed'[s][u][d] \in Nat /\ buzzed'[s][u][d] >= buzzed[s][u][d]
    <3>1. buzzed \in [1..MaxSeq -> [Users -> [Devices -> Nat]]]
      BY DEF TypeInv, CountTypes
    <3>2. buzzed' \in [1..MaxSeq -> [Users -> [Devices -> Nat]]]
      BY StepCounts DEF CountTypes
    <3>3. buzzed'[s][u][d] >= buzzed[s][u][d]
      BY StepCounts
    <3> QED BY <3>1, <3>2, <3>3
  <2> QED BY <1>2, <2>1
<1> QED BY <1>1, <1>2 DEF Reached

\* The push's key is that of a row about the same message.
LEMMA KeyOfJob ==
  ASSUME TypeInv, KeysInv, job # None, job.step # "plan"
  PROVE  \E c \in Ids, slot \in 0..3 :
           outbox[c].type # "push" /\ outbox[c].seq = About /\ Key = NotificationKey(c, slot)
<1>1. job.id \in Ids /\ outbox[job.id].type = "push"
  BY JobFacts DEF TypeInv
<1> QED BY <1>1 DEF KeysInv, From, About, Key

LEMMA StepLedger ==
  ASSUME TypeInv, KeysInv, LedgerInv, PushInv, [Next]_vars
  PROVE  LedgerInv'
<1> SUFFICES ASSUME NEW entry \in ledger'
             PROVE  /\ owner'[entry[2]] \in Users
                    /\ \E c \in Ids', slot \in 0..3 :
                         /\ outbox'[c].type # "push" /\ entry[1] = NotificationKey(c, slot)
                         /\ Reached(outbox[c].seq, owner[entry[2]])'
  BY DEF LedgerInv
<1>0. \A c \in Ids : c \in Ids' /\ outbox'[c].type = outbox[c].type /\ outbox'[c].seq = outbox[c].seq
  BY StepRows DEF RowsKept, Same
<1>1. CASE entry \in ledger
  <2>1. PICK d \in Devices : d = entry[2]
    BY <1>1 DEF TypeInv, PhoneTypes
  <2>2. PICK c \in Ids, slot \in 0..3 :
          outbox[c].type # "push" /\ entry[1] = NotificationKey(c, slot) /\ Reached(outbox[c].seq, owner[d])
    BY <1>1, <2>1 DEF LedgerInv
  <2>3. PICK s \in 1..MaxSeq : s = outbox[c].seq /\ s \in Seqs
    BY RowFacts
  <2>4. owner[d] \in Users
    BY <1>1, <2>1 DEF LedgerInv
  <2>5. CASE owner'[d] = owner[d]
    <3>1. PICK u \in Users : u = owner[d]
      BY <2>4
    <3>2. Reached(s, u)'
      BY <2>2, <2>3, <3>1, ReachedStays
    <3>3. Reached(outbox[c].seq, owner[entry[2]])'
      BY <1>0, <2>1, <2>3, <2>5, <3>1, <3>2 DEF Reached
    <3> QED BY <1>0, <2>1, <2>2, <2>4, <2>5, <3>3
  <2>6. CASE owner'[d] \in Users /\ \A t \in Seqs : <<t, owner'[d]>> \in excused'
    <3>1. Reached(outbox[c].seq, owner[entry[2]])'
      BY <1>0, <2>1, <2>3, <2>6 DEF Reached
    <3> QED BY <1>0, <2>1, <2>2, <2>6, <3>1
  <2>7. ~\A e \in ledger' : e[2] # d
    BY <2>1
  <2> QED BY <2>5, <2>6, <2>7, StepOwner
<1>2. CASE entry \notin ledger
  <2>1. RecordDeliveries
    BY <1>2, StepOwner
  <2>2. /\ \A t \in Answered(Recorded) : owner[t[2]] # Gone
        /\ ledger' = ledger \cup {<<Key, t[2]>> : t \in Answered(Recorded)}
        /\ UNCHANGED <<owner, buzzed, excused>> /\ job # None /\ job.step = "record"
    BY <2>1 DEF RecordDeliveries, At
  <2>3. PICK t \in Answered(Recorded) : entry = <<Key, t[2]>>
    BY <1>2, <2>2
  <2>4. t \in job.targets /\ owner[t[2]] # Gone
    BY <2>2, <2>3 DEF Answered
  <2>5. job.targets \subseteq Users \X Devices
    BY <2>2, JobFacts DEF TypeInv
  <2>6. owner[t[2]] \in Users
    BY <2>4, <2>5 DEF TypeInv, PhoneTypes
  <2>7. Reached(About, owner[t[2]])
    BY <2>2, <2>4 DEF PushInv, Reached
  <2>8. PICK c \in Ids, slot \in 0..3 : outbox[c].type # "push" /\ outbox[c].seq = About /\ Key = NotificationKey(c, slot)
    BY <2>2, KeyOfJob
  <2>9. entry[1] = Key /\ entry[2] = t[2]
    BY <2>3
  <2>10. Reached(outbox[c].seq, owner[entry[2]])'
    BY <1>0, <2>2, <2>7, <2>8, <2>9 DEF Reached
  <2> QED BY <1>0, <2>2, <2>6, <2>8, <2>9, <2>10
<1> QED BY <1>1, <1>2

\* A job that stays owes what it owed.
LEMMA PushKept ==
  ASSUME TypeInv, PushInv, [Next]_vars, UNCHANGED job
  PROVE  PushInv'
<1> SUFFICES ASSUME job # None, job.step # "plan" PROVE PushInv'
  BY DEF PushInv
<1>1. /\ About' = About /\ outbox'[job.id].to = outbox[job.id].to
  BY RowStays DEF Same
<1>2. PICK s \in 1..MaxSeq : s = About /\ s = About' /\ s \in Seqs
  BY <1>1, AboutType
<1>3. job.targets \subseteq Users \X Devices /\ outbox[job.id].to \subseteq Users
  BY JobFacts, RowFacts DEF TypeInv
<1>4. /\ job.step = "evaluate" => job.remaining = outbox[job.id].to
      /\ job.step \in {"evaluate", "devices"} => job.targets = {}
      /\ job.step \notin {"evaluate", "devices"} => job.remaining = {}
      /\ \A u \in outbox[job.id].to :
           u \in job.remaining \/ (job.step = "send" /\ \E t \in job.targets : t[1] = u) \/ Reached(s, u)
      /\ \A t \in job.targets :
           /\ owner[t[2]] \in {t[1], Gone} \/ <<s, owner[t[2]]>> \in excused
           /\ job.step # "send" => Reached(s, t[1])
  BY <1>2 DEF PushInv
<1>5. \A u \in Users : Reached(s, u) => Reached(s, u)'
  BY ReachedStays
<1>6. ASSUME NEW t \in job.targets
      PROVE  owner'[t[2]] \in {t[1], Gone} \/ <<s, owner'[t[2]]>> \in excused'
  <2>1. PICK d \in Devices : d = t[2]
    BY <1>3
  <2>2. excused \subseteq excused'
    BY StepOwner
  <2>3. CASE owner'[d] = owner[d]
    BY <1>4, <2>1, <2>2, <2>3
  <2>4. CASE owner'[d] = Gone
    BY <2>1, <2>4
  <2>5. CASE \A x \in Seqs : <<x, owner'[d]>> \in excused'
    BY <1>2, <2>1, <2>5
  <2> QED BY <2>3, <2>4, <2>5, StepOwner
<1>7. ASSUME NEW u \in outbox[job.id].to
      PROVE  u \in job.remaining \/ (job.step = "send" /\ \E t \in job.targets : t[1] = u) \/ Reached(s, u)'
  BY <1>3, <1>4, <1>5
<1>8. ASSUME NEW t \in job.targets, job.step # "send"
      PROVE  Reached(s, t[1])'
  <2>1. PICK u \in Users : u = t[1]
    BY <1>3
  <2>2. Reached(s, u)'
    BY <1>4, <1>5, <1>8, <2>1
  <2> QED BY <2>1, <2>2 DEF Reached
<1>9. \A u \in outbox[job.id].to : Reached(s, u)' => Reached(About, u)'
  BY <1>2 DEF Reached
<1>10. \A t \in job.targets : Reached(s, t[1])' => Reached(About, t[1])'
  BY <1>2 DEF Reached
<1> QED BY <1>1, <1>2, <1>4, <1>6, <1>7, <1>8, <1>9, <1>10 DEF PushInv

\* A push step leaves the row, its message and who owns what as they are.
LEMMA PushStepKeeps ==
  ASSUME TypeInv, [Next]_vars, PushSteps
  PROVE  /\ job # None /\ job.step # "plan" /\ UNCHANGED <<outbox, owner>>
         /\ job.id \in Ids /\ outbox[job.id].to \subseteq Users /\ About \in 1..MaxSeq
         /\ job.targets \subseteq Users \X Devices /\ job.remaining \subseteq Users
         /\ \A u \in Users : Reached(About, u) => Reached(About, u)'
<1>1. job # None /\ job.step # "plan" /\ UNCHANGED outbox
  BY PushGoesOn
<1>2. UNCHANGED owner
  BY WorkKeeps DEF PushSteps, Works, InvalidateTokens
<1>3. job.id \in Ids /\ job.targets \subseteq Users \X Devices /\ job.remaining \subseteq Users
  BY <1>1, JobFacts DEF TypeInv
<1>4. outbox[job.id].to \subseteq Users
  BY <1>3, RowFacts
<1>5. PICK s \in 1..MaxSeq : s = About
  BY <1>1, AboutType
<1>6. ASSUME NEW st, NEW rem, NEW tar, NEW q, Now(st, rem, tar, q)
      PROVE  About' = About
  BY <1>1, <1>6, RowStays DEF Now
<1>7. About' = About
  BY <1>6, PushGoesOn
<1>8. \A u \in Users : Reached(s, u) => Reached(s, u)'
  BY ReachedStays
<1>9. \A u \in Users : Reached(s, u)' => Reached(About, u)'
  BY <1>5, <1>7 DEF Reached
<1> QED BY <1>1, <1>2, <1>3, <1>4, <1>5, <1>8, <1>9

\* What a push step has to leave behind.
Owes(st, rem, tar) ==
  /\ \A u \in outbox[job.id].to :
       u \in rem \/ (st = "send" /\ \E t \in tar : t[1] = u) \/ Reached(About, u)'
  /\ \A t \in tar :
       /\ owner[t[2]] \in {t[1], Gone} \/ <<About, owner[t[2]]>> \in excused'
       /\ st # "send" => Reached(About, t[1])'

LEMMA PushAfter ==
  ASSUME TypeInv, [Next]_vars, PushSteps, NEW st \in Steps, NEW rem, NEW tar, NEW q, Now(st, rem, tar, q),
         st # "evaluate", st = "devices" => tar = {}, st # "devices" => rem = {}, Owes(st, rem, tar)
  PROVE  PushInv'
<1>1. job # None /\ UNCHANGED <<outbox, owner>>
  BY PushStepKeeps
<1>2. /\ job' # None /\ job'.id = job.id /\ job'.step = st /\ job'.remaining = rem /\ job'.targets = tar
  BY DEF Now
<1>3. About' = About
  BY <1>1, <1>2, RowStays
<1>4. outbox'[job'.id].to = outbox[job.id].to
  BY <1>1, <1>2
<1> QED BY <1>1, <1>2, <1>3, <1>4 DEF Owes, PushInv, Reached

LEMMA EvaluatePays ==
  ASSUME TypeInv, PassedInv, PushInv, [Next]_vars, Evaluate
  PROVE  PushInv'
<1> DEFINE left == (job.remaining \ ReadPast(About)) \ muted
<1>1. job # None /\ job.step = "evaluate" /\ job.targets = {} /\ job.remaining = outbox[job.id].to
  BY DEF Evaluate, At, PushInv
<1>2. About \in 1..MaxSeq /\ outbox[job.id].to \subseteq Users
  BY PushStepKeeps DEF PushSteps
<1>3. ASSUME NEW u \in outbox[job.id].to, u \notin left
      PROVE  Reached(About, u)'
  <2>1. u \in muted \/ <<About, u>> \in passed
    BY <1>1, <1>2, <1>3 DEF ReadPast, PassedInv, TypeInv, ReadTypes, Openings
  <2>2. <<About, u>> \in excused' /\ About' = About
    <3>1. <<About, u>> \in excused'
      BY <1>1, <1>3, <2>1 DEF Evaluate
    <3>2. job'.id = job.id
      BY EvaluateJob DEF Now
    <3> QED BY <1>1, <3>1, <3>2, RowStays
  <2> QED BY <2>2 DEF Reached
<1> HIDE DEF left
<1>4. (left = {} /\ Now("settle", {}, {}, {})) \/ Now("devices", left, {}, Passers)
  BY <1>1, EvaluateJob DEF left
<1>5. CASE left = {} /\ Now("settle", {}, {}, {})
  <2>1. Owes("settle", {}, {})
    BY <1>3, <1>5 DEF Owes
  <2> QED BY <1>5, <2>1, PushAfter DEF PushSteps, Steps
<1>6. CASE Now("devices", left, {}, Passers)
  <2>1. Owes("devices", left, {})
    BY <1>3 DEF Owes
  <2> QED BY <1>6, <2>1, PushAfter DEF PushSteps, Steps
<1> QED BY <1>4, <1>5, <1>6

LEMMA FindPays ==
  ASSUME TypeInv, KeysInv, LedgerInv, PushInv, [Next]_vars, FindDevices
  PROVE  PushInv'
<1> DEFINE to == Unsent(LiveDevices(job.remaining))
           tar == {<<owner[d], d>> : d \in to}
<1>1. job # None /\ job.step = "devices" /\ job.targets = {}
  BY DEF FindDevices, At, PushInv
<1>2. /\ About \in 1..MaxSeq /\ outbox[job.id].to \subseteq Users /\ job.remaining \subseteq Users
      /\ \A u \in Users : Reached(About, u) => Reached(About, u)'
  BY PushStepKeeps DEF PushSteps
<1>3. About' = About
  <2>1. job'.id = job.id
    BY FindJob DEF Now
  <2> QED BY <1>1, <2>1, RowStays
<1>4. ASSUME NEW d \in LiveDevices(job.remaining), <<Key, d>> \in ledger
      PROVE  Reached(About, owner[d])
  <2>1. PICK entry \in ledger : entry[1] = Key /\ entry[2] = d
    BY <1>4
  <2>2. PICK c \in Ids, slot \in 0..3 : entry[1] = NotificationKey(c, slot) /\ Reached(outbox[c].seq, owner[d])
    BY <2>1 DEF LedgerInv
  <2>3. PICK b \in Ids, x \in 0..3 : outbox[b].seq = About /\ Key = NotificationKey(b, x)
    BY <1>1, KeyOfJob
  <2>4. b \in Nat /\ c \in Nat
    BY DEF Ids
  <2>5. b = c
    BY <2>1, <2>2, <2>3, <2>4, KeyIsOne
  <2> QED BY <2>2, <2>3, <2>5
<1>5. ASSUME NEW u \in outbox[job.id].to
      PROVE  (\E t \in tar : t[1] = u) \/ Reached(About, u)'
  <2>1. CASE Reached(About, u)
    BY <1>2, <2>1
  <2>2. ASSUME u \in job.remaining, NEW d \in LiveDevices(job.remaining), owner[d] = u
        PROVE  (\E t \in tar : t[1] = u) \/ Reached(About, u)'
    <3>1. CASE <<Key, d>> \in ledger
      BY <1>2, <1>4, <2>2, <3>1
    <3>2. CASE <<Key, d>> \notin ledger
      <4>1. <<owner[d], d>> \in tar
        BY <3>2 DEF Unsent
      <4> QED BY <2>2, <4>1
    <3> QED BY <3>1, <3>2
  <2>3. ASSUME u \in job.remaining, \A d \in LiveDevices(job.remaining) : owner[d] # u
        PROVE  Reached(About, u)'
    <3>1. <<About, u>> \in excused'
      BY <2>3 DEF FindDevices
    <3> QED BY <1>3, <3>1 DEF Reached
  <2>4. u \in job.remaining \/ Reached(About, u)
    BY <1>1 DEF PushInv
  <2> QED BY <2>1, <2>2, <2>3, <2>4
<1>6. \A t \in tar : owner[t[2]] = t[1]
  OBVIOUS
<1>7. to = {} => tar = {}
  OBVIOUS
<1>8. (to = {} /\ Now("settle", {}, {}, {})) \/ Now("send", {}, tar, job.quiet)
  BY FindJob
<1> HIDE DEF to, tar
<1>9. CASE to = {} /\ Now("settle", {}, {}, {})
  <2>1. Owes("settle", {}, {})
    BY <1>5, <1>7, <1>9 DEF Owes
  <2> QED BY <1>9, <2>1, PushAfter DEF PushSteps, Steps
<1>10. CASE Now("send", {}, tar, job.quiet)
  <2>1. Owes("send", {}, tar)
    BY <1>5, <1>6 DEF Owes
  <2> QED BY <1>10, <2>1, PushAfter DEF PushSteps, Steps
<1> QED BY <1>8, <1>9, <1>10

LEMMA SendPays ==
  ASSUME TypeInv, PushInv, [Next]_vars, Send
  PROVE  PushInv'
<1>1. job # None /\ job.step = "send" /\ job.remaining = {}
  BY DEF Send, At, PushInv
<1>2. /\ About \in 1..MaxSeq /\ outbox[job.id].to \subseteq Users /\ job.targets \subseteq Users \X Devices
      /\ \A u \in Users : Reached(About, u) => Reached(About, u)'
  BY PushStepKeeps DEF PushSteps
<1>3. PICK rang \in SUBSET job.targets :
           /\ buzzed' = Added(buzzed, 1, rang) /\ unrecorded' = Added(unrecorded, 1, rang)
           /\ excused' = excused \cup {<<About, t[1]>> : t \in job.targets \ rang}
           /\ Now("settle", {}, {}, {}) \/ Now("record", {}, job.targets, {})
  BY <1>1, SendJob
<1>4. About' = About
  <2>1. job'.id = job.id
    BY <1>3 DEF Now
  <2> QED BY <1>1, <2>1, RowStays
<1>5. ASSUME NEW t \in job.targets
      PROVE  Reached(About, t[1])'
  <2>1. CASE t \notin rang
    <3>1. <<About, t[1]>> \in excused'
      BY <1>3, <2>1
    <3> QED BY <1>4, <3>1 DEF Reached
  <2>2. CASE t \in rang
    <3>1. PICK u \in Users, d \in Devices : t = <<u, d>>
      BY <1>2
    <3>2. buzzed'[About][u][d] = buzzed[About][u][d] + IF About = About /\ <<u, d>> \in rang THEN 1 ELSE 0
      BY <1>2, <1>3, SendCounts
    <3>3. buzzed[About][u][d] \in Nat
      BY <1>2 DEF TypeInv, CountTypes
    <3>4. buzzed'[About][u][d] > 0
      BY <2>2, <3>1, <3>2, <3>3
    <3> QED BY <1>4, <3>1, <3>4 DEF Reached
  <2> QED BY <2>1, <2>2
<1>6. ASSUME NEW u \in outbox[job.id].to
      PROVE  Reached(About, u)'
  BY <1>1, <1>2, <1>5, <1>6 DEF PushInv
<1>7. \A t \in job.targets : owner[t[2]] \in {t[1], Gone} \/ <<About, owner[t[2]]>> \in excused'
  BY <1>1, StepOwner DEF PushInv
<1>8. Owes("settle", {}, {}) /\ Owes("record", {}, job.targets)
  BY <1>5, <1>6, <1>7 DEF Owes
<1> QED BY <1>3, <1>8, PushAfter DEF PushSteps, Steps

LEMMA RecordPays ==
  ASSUME TypeInv, PushInv, [Next]_vars, RecordDeliveries \/ InvalidateTokens
  PROVE  PushInv'
<1>1. job # None /\ job.step \in {"record", "invalidate"} /\ job.remaining = {}
  BY DEF RecordDeliveries, InvalidateTokens, At, PushInv
<1>2. /\ About \in 1..MaxSeq /\ outbox[job.id].to \subseteq Users /\ job.targets \subseteq Users \X Devices
      /\ \A u \in Users : Reached(About, u) => Reached(About, u)'
  BY PushStepKeeps DEF PushSteps
<1>3. Now("settle", {}, {}, {}) \/ Now("invalidate", {}, job.targets, job.quiet)
  BY <1>1, RecordJob, InvalidateJob
<1>4. \A t \in job.targets : t[1] \in Users /\ Reached(About, t[1])
  BY <1>1, <1>2 DEF PushInv
<1>5. ASSUME NEW t \in job.targets
      PROVE  Reached(About, t[1])'
  BY <1>2, <1>4
<1>6. ASSUME NEW u \in outbox[job.id].to
      PROVE  Reached(About, u)'
  BY <1>1, <1>2, <1>6 DEF PushInv
<1>7. \A t \in job.targets : owner[t[2]] \in {t[1], Gone} \/ <<About, owner[t[2]]>> \in excused'
  BY <1>1, StepOwner DEF PushInv
<1>8. Owes("settle", {}, {}) /\ Owes("invalidate", {}, job.targets)
  BY <1>5, <1>6, <1>7 DEF Owes
<1> QED BY <1>3, <1>8, PushAfter DEF PushSteps, Steps

LEMMA StepPush ==
  ASSUME TypeInv, PassedInv, KeysInv, LedgerInv, PushInv, [Next]_vars
  PROVE  PushInv'
<1>1. CASE Post \/ (\E s \in Seqs : Edit(s))
  BY <1>1, PushKept, TalkKeeps
<1>2. CASE Moves
  BY <1>2, PushKept, MovesKeep
<1>3. ASSUME NEW i \in Ids, Handle(i)
      PROVE  PushInv'
  BY <1>3, HandleJob DEF PushInv
<1>4. ASSUME NEW i \in Ids, Dispatch(i)
      PROVE  PushInv'
  <2>1. /\ job'.id = i /\ job'.step = "evaluate" /\ job'.targets = {} /\ job'.remaining = outbox[i].to
    BY <1>4, DispatchJob
  <2>2. UNCHANGED outbox
    BY <1>4, WorkKeeps DEF Starts
  <2> QED BY <2>1, <2>2 DEF PushInv
<1>5. CASE WriteNotifications \/ SchedulePush
  BY <1>5, TailJob DEF PushInv
<1>6. CASE Settle \/ Fail \/ RecordFails
  BY <1>6, SettleEnds, FailEnds DEF Ends, PushInv
<1>7. CASE UNCHANGED vars
  BY <1>7, PushKept DEF vars
<1> QED BY <1>1, <1>2, <1>3, <1>4, <1>5, <1>6, <1>7, Alternatives, EvaluatePays, FindPays,
     SendPays, RecordPays DEF Starts, Works

LEMMA StepDone ==
  ASSUME TypeInv, PushInv, DoneInv, [Next]_vars
  PROVE  DoneInv'
<1> SUFFICES ASSUME NEW i \in Ids', outbox'[i].type = "push", outbox'[i].status = "done", NEW u \in outbox'[i].to
             PROVE  Reached(outbox[i].seq, u)'
  BY DEF DoneInv
<1>1. i \in Ids
  BY NewRowIs
<1>2. Same(outbox'[i], outbox[i])
  BY <1>1, StepRows DEF RowsKept
<1>3. u \in Users /\ outbox[i].type = "push" /\ u \in outbox[i].to
  BY <1>1, <1>2, RowFacts DEF Same
<1>4. PICK s \in 1..MaxSeq : s = outbox[i].seq
  BY <1>1, RowFacts
<1>5. Reached(s, u)
  <2>1. CASE outbox[i].status = "done"
    BY <1>1, <1>3, <1>4, <2>1 DEF DoneInv
  <2>2. CASE outbox[i].status # "done"
    <3>1. job # None /\ i = job.id /\ Settle
      BY <1>1, <2>2, StepRows DEF RowsKept
    <3>2. job.step = "settle"
      BY <1>3, <3>1, JobFacts DEF TypeInv, Settle
    <3> QED BY <1>3, <1>4, <3>1, <3>2 DEF PushInv, About
  <2> QED BY <2>1, <2>2
<1>6. Reached(s, u)'
  BY <1>3, <1>5, ReachedStays
<1>7. outbox'[i].seq = s
  BY <1>2, <1>4 DEF Same
<1> QED BY <1>6, <1>7 DEF Reached

LEMMA AlwaysReached == Spec => [](TypeInv /\ NewsInv /\ ReachInv)
<1>1. Init => ReachInv
  <2> SUFFICES ASSUME Init PROVE ReachInv
    OBVIOUS
  <2>1. outbox = <<>> /\ ledger = {} /\ job = None
    BY DEF Init
  <2>2. Ids = {}
    BY <2>1 DEF Ids
  <2> QED BY <2>1, <2>2 DEF ReachInv, LedgerInv, PushInv, DoneInv
<1>2. TypeInv /\ PassedInv /\ QuietInv /\ NewsInv /\ ReachInv /\ [Next]_vars => ReachInv'
  BY StepLedger, StepPush, StepDone DEF ReachInv, NewsInv
<1> QED BY <1>1, <1>2, AlwaysQuiet, AlwaysNews, PTL DEF Spec

\* Once every row is done, each member was rung for each message, or had read it, muted the
\* channel, or had no phone the provider took: no failure, retry, sign-in or edit loses anybody.
THEOREM EverybodyIsReached == Spec => []NobodyIsForgotten
<1>1. TypeInv /\ NewsInv /\ ReachInv => NobodyIsForgotten
  <2> SUFFICES ASSUME TypeInv, NewsInv, ReachInv, \A i \in Ids : outbox[i].status = "done",
                      NEW s \in Seqs, NEW u \in members
               PROVE  Reached(s, u)
    BY DEF NobodyIsForgotten, Reached
  <2>1. PICK c \in Ids : outbox[c].type = "created" /\ outbox[c].seq = s
    BY DEF NewsInv, KeysInv
  <2>2. Served(c, u)
    BY <2>1 DEF NewsInv, ServedInv, Obliged
  <2>3. job = None
    BY JobFacts DEF TypeInv
  <2>4. PICK j \in Ids : outbox[j].type = "push" /\ outbox[j].seq = s /\ u \in outbox[j].to
    BY <2>1, <2>2, <2>3 DEF Served, Awaits, Covered
  <2> QED BY <2>4 DEF ReachInv, DoneInv
<1> QED BY <1>1, AlwaysReached, PTL

(***************************************************************************)
(* The budget of rings.                                                    *)
(***************************************************************************)
\* Nobody is rung but the recipients, and no phone whose delivery the ledger has.
FreshInv ==
  job # None /\ job.step # "plan" =>
    /\ job.remaining \subseteq outbox[job.id].to
    /\ \A t \in job.targets :
         /\ t[1] \in outbox[job.id].to
         /\ job.step \in {"send", "record"} => <<Key, t[2]>> \notin ledger
PushKey(k, s, u) == \E j \in Ids : outbox[j].type = "push" /\ outbox[j].seq = s /\ outbox[j].key = k /\ u \in outbox[j].to
\* Every recorded ring is under a key of its own.
Recounted(s, u, d, K) ==
  /\ IsFiniteSet(K) /\ \A k \in K : PushKey(k, s, u)
  /\ buzzed[s][u][d] - unrecorded[s][u][d] <= Cardinality(K)
  /\ owner[d] # Gone => \A k \in K : <<k, d>> \in ledger
BudgetInv == \A s \in 1..MaxSeq, u \in Users, d \in Devices : \E K : Recounted(s, u, d, K)

LEMMA FreshKept ==
  ASSUME TypeInv, FreshInv, [Next]_vars, UNCHANGED job
  PROVE  FreshInv'
<1> SUFFICES ASSUME job # None, job.step # "plan" PROVE FreshInv'
  BY DEF FreshInv
<1>1. Key' = Key /\ outbox'[job.id].to = outbox[job.id].to
  BY RowStays DEF Same
<1>2. ledger' \subseteq ledger \/ RecordDeliveries
  BY StepOwner
<1>3. ~RecordDeliveries
  <2> SUFFICES ASSUME RecordDeliveries PROVE FALSE
    OBVIOUS
  <2>1. job.step = "record"
    BY DEF RecordDeliveries, At
  <2>2. job'.step \in {"settle", "invalidate"}
    BY RecordJob DEF Now
  <2> QED BY <2>1, <2>2
<1> QED BY <1>1, <1>2, <1>3 DEF FreshInv

LEMMA StepFresh ==
  ASSUME TypeInv, FreshInv, PushInv, [Next]_vars
  PROVE  FreshInv'
<1>0. ASSUME PushSteps, NEW st, NEW rem, NEW tar, NEW q, Now(st, rem, tar, q),
             rem \subseteq outbox[job.id].to, \A t \in tar : t[1] \in outbox[job.id].to,
             st \in {"send", "record"} => UNCHANGED ledger /\ \A t \in tar : <<Key, t[2]>> \notin ledger
      PROVE  FreshInv'
  <2>1. job # None /\ UNCHANGED outbox /\ job'.id = job.id
    BY <1>0, PushStepKeeps DEF Now
  <2>2. Key' = Key /\ outbox'[job'.id].to = outbox[job.id].to
    BY <2>1, RowStays
  <2> QED BY <1>0, <2>2 DEF Now, FreshInv
<1>1. CASE Post \/ (\E s \in Seqs : Edit(s))
  BY <1>1, FreshKept, TalkKeeps
<1>2. CASE Moves
  BY <1>2, FreshKept, MovesKeep
<1>3. ASSUME NEW i \in Ids, Handle(i)
      PROVE  FreshInv'
  BY <1>3, HandleJob DEF FreshInv
<1>4. ASSUME NEW i \in Ids, Dispatch(i)
      PROVE  FreshInv'
  <2>1. /\ job'.id = i /\ job'.step = "evaluate" /\ job'.targets = {} /\ job'.remaining = outbox[i].to
    BY <1>4, DispatchJob
  <2>2. UNCHANGED outbox
    BY <1>4, WorkKeeps DEF Starts
  <2> QED BY <2>1, <2>2 DEF FreshInv
<1>5. CASE WriteNotifications \/ SchedulePush
  BY <1>5, TailJob DEF FreshInv
<1>6. CASE Evaluate
  <2> DEFINE left == (job.remaining \ ReadPast(About)) \ muted
  <2>1. /\ job # None /\ job.step = "evaluate" /\ job.targets = {}
        /\ job.remaining \subseteq outbox[job.id].to
    BY <1>6 DEF Evaluate, At, PushInv, FreshInv
  <2>2. left \subseteq outbox[job.id].to
    BY <2>1
  <2> HIDE DEF left
  <2>3. Now("settle", {}, {}, {}) \/ Now("devices", left, {}, Passers)
    BY <1>6, <2>1, EvaluateJob DEF left
  <2> QED BY <1>0, <1>6, <2>2, <2>3 DEF PushSteps
<1>7. CASE FindDevices
  <2> DEFINE to == Unsent(LiveDevices(job.remaining))
             tar == {<<owner[d], d>> : d \in to}
  <2>1. job # None /\ job.step = "devices" /\ job.remaining \subseteq outbox[job.id].to
    BY <1>7 DEF FindDevices, At, FreshInv
  <2>2. \A t \in tar : t[1] \in outbox[job.id].to /\ <<Key, t[2]>> \notin ledger
    <3>1. \A d \in to : owner[d] \in job.remaining /\ <<Key, d>> \notin ledger
      BY DEF Unsent, LiveDevices
    <3> HIDE DEF to
    <3> QED BY <2>1, <3>1
  <2>3. UNCHANGED ledger
    BY <1>7 DEF FindDevices, data
  <2>4. Now("settle", {}, {}, {}) \/ Now("send", {}, tar, job.quiet)
    BY <1>7, FindJob
  <2> HIDE DEF tar
  <2>5. CASE Now("settle", {}, {}, {})
    BY <1>0, <1>7, <2>5 DEF PushSteps
  <2>6. CASE Now("send", {}, tar, job.quiet)
    BY <1>0, <1>7, <2>2, <2>3, <2>6 DEF PushSteps
  <2> QED BY <2>4, <2>5, <2>6
<1>8. CASE Send
  <2>1. job # None /\ job.step = "send" /\ job.remaining = {} /\ UNCHANGED ledger
    BY <1>8 DEF Send, At, PushInv, data
  <2>2. \A t \in job.targets : t[1] \in outbox[job.id].to /\ <<Key, t[2]>> \notin ledger
    BY <2>1 DEF FreshInv
  <2>3. Now("settle", {}, {}, {}) \/ Now("record", {}, job.targets, {})
    BY <1>8, <2>1, SendJob
  <2> QED BY <1>0, <1>8, <2>1, <2>2, <2>3 DEF PushSteps
<1>9. CASE RecordDeliveries \/ InvalidateTokens
  <2>1. job # None /\ job.step \in {"record", "invalidate"} /\ job.remaining = {}
    BY <1>9 DEF RecordDeliveries, InvalidateTokens, At, PushInv
  <2>2. \A t \in job.targets : t[1] \in outbox[job.id].to
    BY <2>1 DEF FreshInv
  <2>3. Now("settle", {}, {}, {}) \/ Now("invalidate", {}, job.targets, job.quiet)
    BY <1>9, <2>1, RecordJob, InvalidateJob
  <2> QED BY <1>0, <1>9, <2>2, <2>3 DEF PushSteps
<1>10. CASE Settle \/ Fail \/ RecordFails
  BY <1>10, SettleEnds, FailEnds DEF Ends, FreshInv
<1>11. CASE UNCHANGED vars
  BY <1>11, FreshKept DEF vars
<1> QED BY <1>1, <1>2, <1>3, <1>4, <1>5, <1>6, <1>7, <1>8, <1>9, <1>10, <1>11, Alternatives
     DEF Starts, Works

LEMMA PushKeyStays ==
  ASSUME TypeInv, [Next]_vars, NEW k, NEW s, NEW u, PushKey(k, s, u)
  PROVE  PushKey(k, s, u)'
<1>1. PICK j \in Ids : outbox[j].type = "push" /\ outbox[j].seq = s /\ outbox[j].key = k /\ u \in outbox[j].to
  BY DEF PushKey
<1>2. j \in Ids' /\ Same(outbox'[j], outbox[j])
  BY StepRows DEF RowsKept
<1> QED BY <1>1, <1>2 DEF PushKey, Same

\* Rings and unrecorded rings grow together, but for what a record takes off.
LEMMA StepRings ==
  ASSUME TypeInv, [Next]_vars, NEW s \in 1..MaxSeq, NEW u \in Users, NEW d \in Devices,
         ~(RecordDeliveries /\ s = About /\ <<u, d>> \in Answered({"ok"}))
  PROVE  buzzed'[s][u][d] - unrecorded'[s][u][d] = buzzed[s][u][d] - unrecorded[s][u][d]
<1>1. buzzed[s][u][d] \in Int /\ unrecorded[s][u][d] \in Int
  BY DEF TypeInv, CountTypes
<1>2. CASE Send
  <2>1. About \in 1..MaxSeq
    BY <1>2, AboutType DEF Send, At
  <2>2. PICK rang : buzzed' = Added(buzzed, 1, rang) /\ unrecorded' = Added(unrecorded, 1, rang)
    BY <1>2, SendJob
  <2>3. /\ buzzed'[s][u][d] = buzzed[s][u][d] + IF s = About /\ <<u, d>> \in rang THEN 1 ELSE 0
        /\ unrecorded'[s][u][d] = unrecorded[s][u][d] + IF s = About /\ <<u, d>> \in rang THEN 1 ELSE 0
    BY <2>1, <2>2, SendCounts
  <2> QED BY <1>1, <2>3
<1>3. CASE RecordDeliveries
  <2>1. buzzed' = buzzed /\ unrecorded'[s][u][d] = unrecorded[s][u][d] + IF s = About /\ <<u, d>> \in Answered({"ok"}) THEN -1 ELSE 0
    BY <1>3, RecordCounts
  <2> QED BY <1>1, <1>3, <2>1
<1>4. CASE UNCHANGED <<buzzed, unrecorded>>
  BY <1>4
<1> QED BY <1>2, <1>3, <1>4, Uncounted

\* The ledger forgets only deliveries to a phone that goes.
LEMMA StepEntries ==
  ASSUME TypeInv, [Next]_vars, NEW d \in Devices, owner'[d] # Gone
  PROVE  owner[d] # Gone /\ \A k : <<k, d>> \in ledger => <<k, d>> \in ledger'
<1> DEFINE goal == owner[d] # Gone /\ \A k : <<k, d>> \in ledger => <<k, d>> \in ledger'
<1>0. ASSUME UNCHANGED owner, ledger \subseteq ledger'
      PROVE  goal
  BY <1>0
<1>1. CASE Post \/ \E s \in Seqs : Edit(s)
  BY <1>0, <1>1, TalkKeeps
<1>2. ASSUME NEW u \in members, OpenChat(u) \/ ClearChat(u) \/ ToggleMute(u)
      PROVE  goal
  BY <1>0, <1>2 DEF OpenChat, ClearChat, ToggleMute, data
<1>3. ASSUME NEW o \in opening, AdvanceReadCursor(o) \/ NoteCaughtUp(o) \/ ClearCommit(o)
      PROVE  goal
  BY <1>0, <1>3 DEF AdvanceReadCursor, NoteCaughtUp, ClearCommit, history
<1>4. ASSUME NEW e \in Devices, NEW u \in Users, RegisterDevice(e, u)
      PROVE  goal
  <2>1. owner' = [owner EXCEPT ![e] = u] /\ UNCHANGED ledger /\ owner[e] # Gone
    BY <1>4 DEF RegisterDevice
  <2>2. owner \in [Devices -> Users \cup {Gone}]
    BY DEF TypeInv, PhoneTypes
  <2>3. d # e => owner'[d] = owner[d]
    BY <2>1, <2>2
  <2> QED BY <2>1, <2>3
<1>5. ASSUME NEW e \in Devices, UnregisterDevice(e)
      PROVE  goal
  <2>1. owner' = [owner EXCEPT ![e] = Gone] /\ ledger' = {entry \in ledger : entry[2] # e}
    BY <1>5 DEF UnregisterDevice
  <2>2. owner \in [Devices -> Users \cup {Gone}]
    BY DEF TypeInv, PhoneTypes
  <2>3. d # e /\ owner'[d] = owner[d]
    BY <2>1, <2>2
  <2>4. ASSUME NEW k, <<k, d>> \in ledger
        PROVE  <<k, d>> \in ledger'
    BY <2>1, <2>3, <2>4
  <2> QED BY <2>3, <2>4
<1>6. CASE Starts
  BY <1>0, <1>6 DEF Starts, Handle, Dispatch, data
<1>7. CASE WriteNotifications
  BY <1>0, <1>7 DEF WriteNotifications
<1>8. CASE Evaluate \/ FindDevices \/ Send
  BY <1>0, <1>8 DEF Evaluate, FindDevices, Send, data
<1>9. CASE RecordDeliveries \/ InvalidateTokens
  BY <1>0, <1>9 DEF RecordDeliveries, InvalidateTokens
<1>10. CASE SchedulePush \/ Settle \/ Fail \/ RecordFails
  BY <1>0, <1>10, EndKeeps DEF data
<1>11. CASE UNCHANGED vars
  BY <1>0, <1>11 DEF vars, data
<1> HIDE DEF goal
<1>12. goal
  BY <1>1, <1>2, <1>3, <1>4, <1>5, <1>6, <1>7, <1>8, <1>9, <1>10, <1>11, Alternatives DEF goal,
       Moves, Works
<1> QED BY <1>12 DEF goal

LEMMA StepBudget ==
  ASSUME TypeInv, FreshInv, BudgetInv, [Next]_vars
  PROVE  BudgetInv'
<1> SUFFICES ASSUME NEW s \in 1..MaxSeq, NEW u \in Users, NEW d \in Devices
             PROVE  \E K : Recounted(s, u, d, K)'
  BY DEF BudgetInv
<1>1. PICK K : Recounted(s, u, d, K)
  BY DEF BudgetInv
<1>2. IsFiniteSet(K) /\ Cardinality(K) \in Nat /\ \A k \in K : PushKey(k, s, u)'
  BY <1>1, PushKeyStays, FS_CardinalityType DEF Recounted
<1>3. owner'[d] # Gone => \A k \in K : <<k, d>> \in ledger'
  BY <1>1, StepEntries DEF Recounted
<1>4. CASE ~(RecordDeliveries /\ s = About /\ <<u, d>> \in Answered({"ok"}))
  <2>1. buzzed'[s][u][d] - unrecorded'[s][u][d] <= Cardinality(K)
    BY <1>1, <1>4, StepRings DEF Recounted
  <2>2. Recounted(s, u, d, K)'
    BY <1>2, <1>3, <2>1 DEF Recounted
  <2> QED BY <2>2
<1>5. CASE RecordDeliveries /\ s = About /\ <<u, d>> \in Answered({"ok"})
  <2>1. PICK n : n = Key
    OBVIOUS
  <2>2. /\ job # None /\ job.step = "record" /\ <<u, d>> \in job.targets /\ <<u, d>> \in Answered(Recorded)
    BY <1>5 DEF RecordDeliveries, At, Answered, Recorded
  <2>3. owner[d] # Gone /\ UNCHANGED owner /\ ledger' = ledger \cup {<<n, t[2]>> : t \in Answered(Recorded)}
    BY <1>5, <2>1, <2>2 DEF RecordDeliveries
  <2>4. u \in outbox[job.id].to /\ <<n, d>> \notin ledger
    BY <2>1, <2>2 DEF FreshInv
  <2>5. job.id \in Ids /\ outbox[job.id].type = "push"
    BY <2>2, JobFacts DEF TypeInv
  <2>6. PushKey(n, s, u)'
    <3>1. PushKey(n, s, u)
      BY <1>5, <2>1, <2>4, <2>5 DEF PushKey, About, Key
    <3> QED BY <3>1, PushKeyStays
  <2>7. n \notin K
    BY <1>1, <2>3, <2>4 DEF Recounted
  <2>8. PICK L : L = K \cup {n}
    OBVIOUS
  <2>9. IsFiniteSet(L) /\ Cardinality(L) = Cardinality(K) + 1
    BY <1>2, <2>7, <2>8, FS_AddElement
  <2>10. \A k \in L : PushKey(k, s, u)'
    BY <1>2, <2>6, <2>8
  <2>11. \A k \in L : <<k, d>> \in ledger'
    <3>1. <<n, d>> \in ledger'
      BY <2>2, <2>3
    <3> QED BY <1>1, <2>3, <2>8, <3>1 DEF Recounted
  <2>12. buzzed'[s][u][d] - unrecorded'[s][u][d] <= Cardinality(L)
    <3>1. buzzed' = buzzed /\ unrecorded'[s][u][d] = unrecorded[s][u][d] + -1
      BY <1>5, RecordCounts
    <3>2. buzzed[s][u][d] \in Int /\ unrecorded[s][u][d] \in Int
      BY DEF TypeInv, CountTypes
    <3>3. buzzed[s][u][d] - unrecorded[s][u][d] <= Cardinality(K)
      BY <1>1 DEF Recounted
    <3> QED BY <1>2, <2>9, <3>1, <3>2, <3>3
  <2>13. Recounted(s, u, d, L)'
    BY <2>9, <2>10, <2>11, <2>12 DEF Recounted
  <2> QED BY <2>13
<1> QED BY <1>4, <1>5

LEMMA AlwaysBudget == Spec => [](TypeInv /\ NewsInv /\ BudgetInv)
<1>1. Init => FreshInv /\ BudgetInv
  <2> SUFFICES ASSUME Init PROVE FreshInv /\ BudgetInv
    OBVIOUS
  <2>1. FreshInv
    BY DEF Init, FreshInv
  <2>2. ASSUME NEW s \in 1..MaxSeq, NEW u \in Users, NEW d \in Devices
        PROVE  Recounted(s, u, d, {})
    <3>1. buzzed[s][u][d] = 0 /\ unrecorded[s][u][d] = 0
      BY DEF Init
    <3> QED BY <3>1, FS_EmptySet DEF Recounted
  <2> QED BY <2>1, <2>2 DEF BudgetInv
<1>2. TypeInv /\ ReachInv /\ FreshInv /\ BudgetInv /\ [Next]_vars => (FreshInv /\ BudgetInv)'
  BY StepFresh, StepBudget DEF ReachInv
<1> QED BY <1>1, <1>2, AlwaysReached, PTL DEF Spec

LEMMA AtMostTwo ==
  ASSUME NEW a, NEW b
  PROVE  IsFiniteSet({a, b}) /\ Cardinality({a, b}) \in Nat /\ Cardinality({a, b}) <= 2
<1>1. IsFiniteSet({a}) /\ Cardinality({a}) = 1
  BY FS_Singleton
<1>2. {a, b} = {a} \cup {b}
  OBVIOUS
<1>3. /\ IsFiniteSet({a} \cup {b})
      /\ (Cardinality({a} \cup {b}) = 1 \/ Cardinality({a} \cup {b}) = 1 + 1)
  BY <1>1, FS_AddElement
<1> QED BY <1>2, <1>3

Edited == {i \in Ids : outbox[i].type = "edited"}
EditKeys == {NotificationKey(i, 0) : i \in Edited}

LEMMA EditKeysAre ==
  ASSUME TypeInv
  PROVE  /\ IsFiniteSet(EditKeys) /\ Cardinality(EditKeys) \in Nat
         /\ Cardinality(Edited) \in Nat /\ Cardinality(EditKeys) <= Cardinality(Edited)
<1>1. IsFiniteSet(Ids)
  <2>1. 1 \in Int /\ Len(outbox) \in Int
    BY DEF TypeInv, RowTypes
  <2> QED BY <2>1, FS_Interval DEF Ids
<1>2. IsFiniteSet(Edited)
  BY <1>1, FS_Subset DEF Edited
<1> DEFINE f == [i \in Edited |-> NotificationKey(i, 0)]
<1>3. f \in Surjection(Edited, EditKeys)
  BY DEF Surjection, EditKeys
<1>4. IsFiniteSet(EditKeys) /\ Cardinality(EditKeys) <= Cardinality(Edited)
  BY <1>2, <1>3, FS_Surjection
<1> QED BY <1>2, <1>4, FS_CardinalityType

\* The keys a recipient can be pushed under.
LEMMA KeysOf ==
  ASSUME TypeInv, KeysInv, NEW k, NEW s \in Seqs, NEW u, PushKey(k, s, u),
         NEW c \in Ids, outbox[c].type = "created", outbox[c].seq = s
  PROVE  \/ k \in EditKeys /\ <<s, u>> \in touched
         \/ k = NotificationKey(c, 1) /\ (u \in named[s] \/ <<s, u>> \in touched)
         \/ k = NotificationKey(c, Main(s)) /\ (direct \/ u \notin named[s] \/ <<s, u>> \in touched)
<1>1. PICK j \in Ids : outbox[j].type = "push" /\ outbox[j].seq = s /\ outbox[j].key = k /\ u \in outbox[j].to
  BY DEF PushKey
<1>2. PICK b \in Ids, slot \in 0..3 : From(j, b, slot)
  BY <1>1 DEF KeysInv
<1>3. outbox[b].seq = s /\ k = NotificationKey(b, slot) /\ Fits(b, slot, outbox[j].to)
  BY <1>1, <1>2 DEF From
<1>4. outbox[b].type = "created" => b = c
  BY <1>3 DEF KeysInv
<1>5. CASE outbox[b].type = "edited" /\ slot = 0 /\ \A v \in outbox[j].to : <<outbox[b].seq, v>> \in touched
  BY <1>1, <1>3, <1>5 DEF EditKeys, Edited
<1>6. CASE outbox[b].type = "created" /\ slot = 1 /\ \A v \in outbox[j].to : v \in named[outbox[b].seq] \/ <<outbox[b].seq, v>> \in touched
  BY <1>1, <1>3, <1>4, <1>6
<1>7. CASE /\ outbox[b].type = "created" /\ slot = Main(outbox[b].seq)
           /\ direct \/ \A v \in outbox[j].to : v \notin named[outbox[b].seq] \/ <<outbox[b].seq, v>> \in touched
  BY <1>1, <1>3, <1>4, <1>7
<1> QED BY <1>3, <1>5, <1>6, <1>7 DEF Fits

LEMMA BudgetHolds ==
  ASSUME TypeInv, NewsInv, BudgetInv, NEW s \in Seqs, NEW u \in Users, NEW d \in Devices
  PROVE  buzzed[s][u][d] <= 1 + unrecorded[s][u][d]
              + (IF <<s, u>> \in touched THEN 1 + Cardinality({i \in Ids : outbox[i].type = "edited"})
                 ELSE IF direct /\ u \in named[s] THEN 1 ELSE 0)
<1> DEFINE extra == IF <<s, u>> \in touched THEN 1 + Cardinality(Edited)
                    ELSE IF direct /\ u \in named[s] THEN 1 ELSE 0
<1>1. s \in 1..MaxSeq
  BY Bounds DEF TypeInv, ChannelTypes, Seqs
<1>2. PICK K : Recounted(s, u, d, K)
  BY <1>1 DEF BudgetInv
<1>3. /\ IsFiniteSet(K) /\ Cardinality(K) \in Nat
      /\ buzzed[s][u][d] - unrecorded[s][u][d] <= Cardinality(K)
  BY <1>2, FS_CardinalityType DEF Recounted
<1>4. PICK c \in Ids : outbox[c].type = "created" /\ outbox[c].seq = s
  BY DEF NewsInv, KeysInv
<1>5. PICK x, y : x = NotificationKey(c, 1) /\ y = NotificationKey(c, Main(s))
  OBVIOUS
<1>6. \A k \in K : \/ k \in EditKeys /\ <<s, u>> \in touched
                   \/ k = x /\ (u \in named[s] \/ <<s, u>> \in touched)
                   \/ k = y /\ (direct \/ u \notin named[s] \/ <<s, u>> \in touched)
  BY <1>2, <1>4, <1>5, KeysOf DEF Recounted, NewsInv
<1>7. Cardinality(K) <= 1 + extra
  <2>1. CASE <<s, u>> \in touched
    <3>1. K \in SUBSET ({x, y} \cup EditKeys)
      BY <1>6
    <3>2. /\ IsFiniteSet({x, y}) /\ Cardinality({x, y}) \in Nat /\ Cardinality({x, y}) <= 2
          /\ IsFiniteSet(EditKeys) /\ Cardinality(EditKeys) \in Nat
          /\ Cardinality(Edited) \in Nat /\ Cardinality(EditKeys) <= Cardinality(Edited)
      BY AtMostTwo, EditKeysAre
    <3>3. PICK L : L = {x, y} \cup EditKeys
      OBVIOUS
    <3>4. /\ IsFiniteSet(L)
          /\ Cardinality(L) = Cardinality({x, y}) + Cardinality(EditKeys) - Cardinality({x, y} \cap EditKeys)
      BY <3>2, <3>3, FS_Union
    <3>5. Cardinality({x, y} \cap EditKeys) \in Nat
      BY <3>2, FS_Subset, FS_CardinalityType
    <3>6. Cardinality(K) <= Cardinality(L) /\ Cardinality(L) \in Nat
      BY <3>1, <3>3, <3>4, FS_Subset, FS_CardinalityType
    <3>7. Cardinality(K) <= 1 + (1 + Cardinality(Edited))
      BY <1>3, <3>2, <3>4, <3>5, <3>6
    <3> QED BY <2>1, <3>7
  <2>2. CASE <<s, u>> \notin touched /\ direct /\ u \in named[s]
    <3>1. K \in SUBSET {x, y}
      BY <1>6, <2>2
    <3>2. /\ Cardinality(K) <= Cardinality({x, y}) /\ Cardinality({x, y}) \in Nat
          /\ Cardinality({x, y}) <= 2
      BY <3>1, AtMostTwo, FS_Subset
    <3>3. Cardinality(K) <= 2
      BY <1>3, <3>2
    <3> QED BY <2>2, <3>3
  <2>3. CASE <<s, u>> \notin touched /\ ~(direct /\ u \in named[s])
    <3>1. PICK z : K \in SUBSET {z}
      BY <1>6, <2>3
    <3>2. IsFiniteSet({z}) /\ Cardinality({z}) = 1
      BY FS_Singleton
    <3>3. Cardinality(K) <= 1
      BY <3>1, <3>2, FS_Subset
    <3> QED BY <2>3, <3>3
  <2> QED BY <2>1, <2>2, <2>3
<1>8. extra \in Nat
  BY EditKeysAre
<1> HIDE DEF extra
<1>9. buzzed[s][u][d] \in Int /\ unrecorded[s][u][d] \in Int
  BY <1>1 DEF TypeInv, CountTypes
<1>10. buzzed[s][u][d] <= 1 + unrecorded[s][u][d] + extra
  BY <1>3, <1>7, <1>8, <1>9
<1> QED BY <1>10 DEF extra, Edited

\* One message rings one phone of one member once: a second ring is one the ledger never heard
\* of, the second push of a mention between two, or one of an edit.
THEOREM RingsAreBudgeted == Spec => []BuzzBudget
<1>1. TypeInv /\ NewsInv /\ BudgetInv => BuzzBudget
  BY BudgetHolds DEF BuzzBudget
<1> QED BY <1>1, AlwaysBudget, PTL
==============================================================================
