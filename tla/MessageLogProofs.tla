--------------------------- MODULE MessageLogProofs ---------------------------
(***************************************************************************)
(* Theorems about MessageLog, for every set of users, client ids and       *)
(* concurrent requests and every bound; and, at the end, about one         *)
(* member's view of a channel (Conversation).                              *)
(***************************************************************************)
EXTENDS MessageLog, SequenceTheorems, TLAPS

SendReq == [op: {"send"}, user: Users, key: Keys]
ChangeReq == [op: Commands, seq: Nat \ {0}, on: BOOLEAN]

\* A request that is inside its transaction holds the channel row, and the
\* channel is there.
LockInv == \A p \in Procs : pc[p] \in {"insert", "write"} => lock = p /\ alive

\* A request's parameters fit the step it is at.
ReqInv ==
    \A p \in Procs :
        /\ pc[p] \in {"bump", "insert", "answer", "reply"} => req[p] \in SendReq
        /\ pc[p] \in {"touch", "write", "announce"} => req[p] \in ChangeReq
        /\ pc[p] \in {"touch", "write"} => req[p].seq <= lastSeq

\* What an open transaction has allocated is still the next number.
TxInv ==
    \A p \in Procs :
        /\ pc[p] = "insert" => tx[p] = [seq |-> lastSeq + 1, rev |-> lastRev + 1]
        /\ pc[p] = "write" => tx[p] = [seq |-> req[p].seq, rev |-> lastRev + 1]

\* A deleted channel has no messages left.
GoneInv == ~alive => messages = {}

CtlInv == TypeOK /\ LockInv /\ ReqInv /\ TxInv
LogInv == Gapless /\ OneRowPerKey /\ RevisionsDistinct /\ AcksAgree /\ GoneInv

\* An append that has committed and not answered yet will give the answer every
\* other caller with its client id was, or will be, given.
AnswerInv ==
    \A p \in Procs : pc[p] = "answer" =>
        /\ req[p] \in SendReq /\ tx[p].seq \in Nat \ {0}
        /\ \A a \in acked : a.user = req[p].user /\ a.key = req[p].key => a.seq = tx[p].seq
        /\ \A q \in Procs : /\ pc[q] = "answer"
                            /\ req[q].user = req[p].user /\ req[q].key = req[p].key
                            => tx[q].seq = tx[p].seq
        /\ alive => \E m \in messages : /\ m.sender = req[p].user /\ m.key = req[p].key
                                        /\ m.seq = tx[p].seq

CoreInv == CtlInv /\ LogInv
IInv == CoreInv /\ AnswerInv

-------------------------------------------------------------------------------
\* The inductive invariant holds of an empty channel.
THEOREM InvInit == Init => IInv
<1> SUFFICES ASSUME Init PROVE IInv
  OBVIOUS
<1>1. TypeOK
  BY DEF Init, TypeOK, NoTx, Request
<1>2. LockInv /\ ReqInv /\ TxInv
  BY DEF Init, LockInv, ReqInv, TxInv
<1>3. LogInv
  BY DEF Init, LogInv, Gapless, OneRowPerKey, RevisionsDistinct, AcksAgree, GoneInv
<1>4. AnswerInv
  BY DEF Init, AnswerInv
<1>5. QED
  BY <1>1, <1>2, <1>3, <1>4 DEF IInv, CoreInv, CtlInv

\* Arrivals and ends of requests leave the log alone.
LEMMA LogUnchanged ==
  ASSUME LogInv, UNCHANGED <<alive, lastSeq, lastRev, messages, acked>>
  PROVE  LogInv'
BY DEF LogInv, Gapless, OneRowPerKey, RevisionsDistinct, AcksAgree, GoneInv

\* A request that is accepted changes its own control state only.
LEMMA InvAccept ==
  ASSUME IInv, NEW p \in Procs, NEW r \in SendReq \union ChangeReq, NEW at,
         \/ r \in SendReq /\ at = "bump"
         \/ r \in ChangeReq /\ r.seq <= lastSeq /\ at = "touch",
         Accept(p, r, at)
  PROVE  CoreInv'
<1> USE DEF IInv, CoreInv, CtlInv
<1>1. TypeOK'
  BY DEF TypeOK, Accept, Goto, channelVars, Request, SendReq, ChangeReq
<1>2. LockInv' /\ ReqInv' /\ TxInv'
  BY DEF LockInv, ReqInv, TxInv, Accept, Goto, channelVars, TypeOK
<1>3. LogInv'
  BY LogUnchanged DEF Accept, channelVars
<1>4. QED
  BY <1>1, <1>2, <1>3

\* A row has a seq of the log, and only an existing channel has rows.
LEMMA SeqOfRow ==
  ASSUME IInv, NEW m \in messages
  PROVE  m.seq \in Nat \ {0} /\ m.seq <= lastSeq /\ alive
<1>1. alive
  BY DEF IInv, CoreInv, LogInv, GoneInv
<1>2. m.seq \in 1..lastSeq
  BY <1>1 DEF IInv, CoreInv, LogInv, Gapless
<1>3. QED
  BY <1>1, <1>2 DEF IInv, CoreInv, CtlInv, TypeOK

\* Every arrival keeps the core invariant.
LEMMA InvArrive ==
  ASSUME IInv, NEW p \in Procs, Arrive(p)
  PROVE  CoreInv'
<1>1. CASE SendDeduplicated(p)
  <2>1. PICK m \in messages : Tell(m)
    BY <1>1 DEF SendDeduplicated
  <2>2. m \in Message
    BY DEF IInv, CoreInv, CtlInv, TypeOK
  <2>3. CtlInv'
    BY <1>1, <2>1, <2>2 DEF SendDeduplicated, channelVars, Tell, Message,
       IInv, CoreInv, CtlInv, TypeOK, LockInv, ReqInv, TxInv
  <2>4. AcksAgree'
    BY <1>1, <2>1, SeqOfRow DEF SendDeduplicated, channelVars, Tell,
       IInv, CoreInv, LogInv, AcksAgree, OneRowPerKey
  <2>5. LogInv'
    BY <1>1, <2>4 DEF SendDeduplicated, channelVars, IInv, CoreInv, LogInv, Gapless,
       OneRowPerKey,
       RevisionsDistinct, GoneInv
  <2>6. QED
    BY <2>3, <2>5 DEF IInv, CoreInv
<1>2. ASSUME NEW u \in Users, NEW k \in Keys, SendStart(p, u, k)
      PROVE  CoreInv'
  BY <1>2, InvAccept DEF SendStart, SendReq
<1>3. ASSUME NEW op \in Commands, NEW m \in messages, NEW on \in BOOLEAN,
             Accept(p, Command(op, m.seq, on), "touch")
      PROVE  CoreInv'
  <2>1. Command(op, m.seq, on) \in ChangeReq /\ Command(op, m.seq, on).seq <= lastSeq
    BY SeqOfRow DEF Command, ChangeReq
  <2>2. QED
    BY <1>3, <2>1, InvAccept
<1>4. CASE EditLoad(p) \/ DeleteLoad(p) \/ PinLoad(p) \/ ReactLoad(p)
  BY <1>3, <1>4 DEF EditLoad, DeleteLoad, PinLoad, ReactLoad, Commands
<1>5. QED
  BY <1>1, <1>2, <1>4 DEF Arrive

\* Taking the row: counters and tables are as they were, and nobody else is
\* inside a transaction.
LEMMA InvTakeRow ==
  ASSUME IInv, NEW p \in Procs, AppendBump(p) \/ NextRevision(p)
  PROVE  CoreInv'
<1>1. TypeOK'
  <2>0. \A q \in Procs : pc[q] = "touch" => req[q].seq \in Nat
    BY DEF IInv, CoreInv, CtlInv, ReqInv, ChangeReq
  <2>a. lastSeq \in Nat /\ lastRev \in Nat /\ tx \in [Procs -> [seq: Nat, rev: Nat]]
    BY DEF IInv, CoreInv, CtlInv, TypeOK
  <2>b. PICK t \in [seq: Nat, rev: Nat] : tx' = [tx EXCEPT ![p] = t]
    <3>1. CASE AppendBump(p)
      <4> DEFINE t == [seq |-> lastSeq + 1, rev |-> lastRev + 1]
      <4>1. t \in [seq: Nat, rev: Nat]
        BY <2>a
      <4>2. tx' = [tx EXCEPT ![p] = t]
        BY <3>1 DEF AppendBump
      <4> HIDE DEF t
      <4>3. QED
        BY <4>1, <4>2
    <3>2. CASE NextRevision(p)
      <4> DEFINE t == [seq |-> req[p].seq, rev |-> lastRev + 1]
      <4>1. t \in [seq: Nat, rev: Nat]
        BY <2>a, <2>0, <3>2 DEF NextRevision
      <4>2. tx' = [tx EXCEPT ![p] = t]
        BY <3>2 DEF NextRevision
      <4> HIDE DEF t
      <4>3. QED
        BY <4>1, <4>2
    <3>3. QED
      BY <3>1, <3>2
  <2>1. tx' \in [Procs -> [seq: Nat, rev: Nat]]
    BY <2>a, <2>b
  <2>2. QED
    BY <2>1 DEF IInv, CoreInv, CtlInv, TypeOK, AppendBump, NextRevision, Goto, channelVars
<1>2. LockInv'
  BY NobodyAssumption DEF IInv, CoreInv, CtlInv, TypeOK, LockInv, AppendBump, NextRevision,
     Goto, channelVars
<1>3. ReqInv'
  BY DEF IInv, CoreInv, CtlInv, TypeOK, ReqInv, AppendBump, NextRevision, Goto, channelVars
<1>4. TxInv'
  BY DEF IInv, CoreInv, CtlInv, TypeOK, TxInv, AppendBump, NextRevision, Goto, channelVars
<1>5. LogInv'
  BY LogUnchanged DEF IInv, CoreInv, AppendBump, NextRevision, channelVars
<1>6. QED
  BY <1>1, <1>2, <1>3, <1>4, <1>5 DEF IInv, CoreInv, CtlInv

\* Ending a request and, if it held the row, letting it go.
LEMMA InvFinish ==
  ASSUME IInv, NEW p \in Procs, Finish(p),
         lock' = IF lock = p THEN Nobody ELSE lock,
         UNCHANGED <<alive, lastSeq, lastRev, messages, acked>>,
         outbox' \in Seq(Event)
  PROVE  CoreInv'
<1>1. TypeOK'
  BY DEF IInv, CoreInv, CtlInv, TypeOK, Finish, Goto, NoReq, NoTx, Request
<1>2. LockInv' /\ ReqInv' /\ TxInv'
  BY DEF IInv, CoreInv, CtlInv, TypeOK, LockInv, ReqInv, TxInv, Finish, Goto
<1>3. LogInv'
  BY LogUnchanged DEF IInv, CoreInv
<1>4. QED
  BY <1>1, <1>2, <1>3 DEF IInv, CoreInv, CtlInv

\* A crash rolls back: it ends the request and frees the row it held.
LEMMA InvCrash ==
  ASSUME IInv, NEW p \in Procs, Crash(p)
  PROVE  CoreInv'
BY InvFinish DEF Crash, channelVars, IInv, CoreInv, CtlInv, TypeOK

\* A request that finds the channel gone ends.
LEMMA InvChannelGone ==
  ASSUME IInv, NEW p \in Procs, ChannelGone(p)
  PROVE  CoreInv'
<1>1. TypeOK'
  BY DEF ChannelGone, channelVars, IInv, CoreInv, CtlInv, TypeOK, Finish, Goto, NoReq, NoTx,
     Request
<1>2. LockInv' /\ ReqInv' /\ TxInv'
  BY DEF ChannelGone, channelVars, IInv, CoreInv, CtlInv, TypeOK, LockInv, ReqInv, TxInv,
     Finish, Goto
<1>3. LogInv'
  BY LogUnchanged DEF IInv, CoreInv, ChannelGone, channelVars
<1>4. QED
  BY <1>1, <1>2, <1>3 DEF IInv, CoreInv, CtlInv

\* Appending an event keeps the outbox a sequence of events.
LEMMA EmitTyped ==
  ASSUME outbox \in Seq(Event), NEW e \in Event, Emit(e.type, e.seq)
  PROVE  outbox' \in Seq(Event)
<1>1. e = [type |-> e.type, seq |-> e.seq]
  BY DEF Event
<1>2. QED
  BY <1>1 DEF Emit

\* The pin event written after its transaction.
LEMMA InvPinAnnounce ==
  ASSUME IInv, NEW p \in Procs, PinAnnounce(p)
  PROVE  CoreInv'
<1>1. req[p].seq \in Nat \ {0}
  BY DEF PinAnnounce, IInv, CoreInv, CtlInv, ReqInv, ChangeReq
<1> DEFINE e == [type |-> "message.pinned", seq |-> req[p].seq]
<1>2. TypeOK'
  <2>1. e \in Event /\ Emit(e.type, e.seq)
    BY <1>1 DEF PinAnnounce, Event
  <2>2. outbox' \in Seq(Event)
    BY <2>1, EmitTyped DEF IInv, CoreInv, CtlInv, TypeOK
  <2>3. QED
    BY <2>2 DEF PinAnnounce, channelVars, IInv, CoreInv, CtlInv, TypeOK, Finish, Goto, NoReq,
       NoTx, Request
<1>3. LockInv' /\ ReqInv' /\ TxInv'
  BY DEF PinAnnounce, channelVars, IInv, CoreInv, CtlInv, TypeOK, LockInv, ReqInv, TxInv,
     Finish, Goto
<1>4. LogInv'
  BY LogUnchanged DEF IInv, CoreInv, PinAnnounce, channelVars
<1>5. QED
  BY <1>2, <1>3, <1>4 DEF IInv, CoreInv, CtlInv

\* Deleting the channel takes every row with it.
LEMMA InvDropChannel ==
  ASSUME IInv, DropChannel
  PROVE  CoreInv'
<1>1. TypeOK'
  BY DEF DropChannel, IInv, CoreInv, CtlInv, TypeOK
<1>2. LockInv' /\ ReqInv' /\ TxInv'
  BY NobodyAssumption DEF DropChannel, IInv, CoreInv, CtlInv, TypeOK, LockInv, ReqInv, TxInv
<1>3. LogInv'
  BY DEF DropChannel, IInv, CoreInv, LogInv, Gapless, OneRowPerKey, RevisionsDistinct,
     AcksAgree, GoneInv
<1>4. QED
  BY <1>1, <1>2, <1>3 DEF IInv, CoreInv, CtlInv

\* A lost race rolls the whole transaction back.
LEMMA InvConflict ==
  ASSUME IInv, NEW p \in Procs, AppendConflict(p)
  PROVE  CoreInv'
<1>1. TypeOK'
  BY DEF AppendConflict, channelVars, IInv, CoreInv, CtlInv, TypeOK, Goto, NoTx
<1>2. LockInv' /\ ReqInv' /\ TxInv'
  BY DEF AppendConflict, channelVars, IInv, CoreInv, CtlInv, TypeOK, LockInv, ReqInv, TxInv,
     Goto
<1>3. LogInv'
  BY LogUnchanged DEF IInv, CoreInv, AppendConflict, channelVars
<1>4. QED
  BY <1>1, <1>2, <1>3 DEF IInv, CoreInv, CtlInv

\* The loser of a race answers with the winner's row.
LEMMA InvReply ==
  ASSUME IInv, NEW p \in Procs, AppendReply(p)
  PROVE  CoreInv'
<1>1. acked' = acked \/ \E m \in messages : Tell(m)
  BY DEF AppendReply, FindByIdempotencyKey
<1>2. acked' \subseteq [user: Users, key: Keys, seq: Nat \ {0}]
  BY <1>1 DEF Tell, IInv, CoreInv, CtlInv, TypeOK, Message
<1>3. TypeOK'
  BY <1>2 DEF AppendReply, channelVars, IInv, CoreInv, CtlInv, TypeOK, Finish, Goto, NoReq,
     NoTx, Request
<1>4. LockInv' /\ ReqInv' /\ TxInv'
  BY DEF AppendReply, channelVars, IInv, CoreInv, CtlInv, TypeOK, LockInv, ReqInv, TxInv,
     Finish, Goto
<1>5. AcksAgree'
  BY <1>1, SeqOfRow DEF AppendReply, channelVars, Tell, IInv, CoreInv, LogInv, AcksAgree,
     OneRowPerKey
<1>6. LogInv'
  BY <1>5 DEF AppendReply, channelVars, IInv, CoreInv, LogInv, Gapless, OneRowPerKey,
     RevisionsDistinct, GoneInv
<1>7. QED
  BY <1>3, <1>4, <1>6 DEF IInv, CoreInv, CtlInv


\* A new row at the next seq and rev, under a key no row has, keeps the log
\* whole.
LEMMA AddRow ==
  ASSUME LogInv, alive, lastSeq \in Nat, lastRev \in Nat, messages \subseteq Message,
         NEW row \in Message, row.seq = lastSeq + 1, row.rev = lastRev + 1,
         \A m \in messages : m.sender # row.sender \/ m.key # row.key,
         messages' = messages \union {row},
         lastSeq' = lastSeq + 1, lastRev' = lastRev + 1,
         UNCHANGED <<alive, acked>>
  PROVE  LogInv'
<1>1. {m.seq : m \in messages} = 1..lastSeq
  BY DEF LogInv, Gapless
<1>2. \A m \in messages : m.seq \in 1..lastSeq /\ m.rev <= lastRev /\ m.rev \in Nat
  BY <1>1 DEF LogInv, RevisionsDistinct, Message
<1>3. Gapless'
  <2>1. \A m, n \in messages' : m.seq = n.seq => m = n
    BY <1>2 DEF LogInv, Gapless
  <2>2. \A m \in messages' : m.seq \in 1..lastSeq'
    BY <1>2
  <2>3. \A i \in 1..lastSeq' : \E m \in messages' : m.seq = i
    BY <1>1
  <2>4. QED
    BY <2>1, <2>2, <2>3 DEF Gapless
<1>4. OneRowPerKey'
  BY DEF LogInv, OneRowPerKey
<1>5. RevisionsDistinct'
  BY <1>2 DEF LogInv, RevisionsDistinct
<1>6. AcksAgree'
  BY DEF LogInv, AcksAgree
<1>7. QED
  BY <1>3, <1>4, <1>5, <1>6 DEF LogInv, GoneInv

\* The append's commit: the one step that adds a row.
LEMMA InvAppendCommit ==
  ASSUME IInv, NEW p \in Procs, AppendCommit(p)
  PROVE  CoreInv'
<1>1. /\ tx[p].seq = lastSeq + 1 /\ tx[p].rev = lastRev + 1
      /\ req[p] \in SendReq /\ alive /\ lock = p
      /\ lastSeq \in Nat /\ lastRev \in Nat /\ messages \subseteq Message
  BY DEF AppendCommit, IInv, CoreInv, CtlInv, TypeOK, LockInv, ReqInv, TxInv
<1> DEFINE r == [seq |-> tx[p].seq, rev |-> tx[p].rev, sender |-> req[p].user,
                 key |-> req[p].key, body |-> "first", deleted |-> FALSE, pinned |-> FALSE]
<1>r. r \in Message
  BY <1>1 DEF Message, SendReq
<1>2. PICK row \in Message : /\ row.seq = lastSeq + 1 /\ row.rev = lastRev + 1
                             /\ row.sender = req[p].user /\ row.key = req[p].key
                             /\ messages' = messages \union {row}
  <2>1. messages' = messages \union {r}
    BY DEF AppendCommit
  <2>2. QED
    BY <1>1, <1>r, <2>1
<1>3. lastSeq' = lastSeq + 1 /\ lastRev' = lastRev + 1
  BY <1>1 DEF AppendCommit
<1>4. TypeOK'
  <2> DEFINE e == [type |-> "message.created", seq |-> tx[p].seq]
  <2>0. e \in Event /\ Emit(e.type, e.seq)
    BY <1>1 DEF AppendCommit, Event
  <2>1. outbox' \in Seq(Event)
    BY <2>0, EmitTyped DEF IInv, CoreInv, CtlInv, TypeOK
  <2>2. messages' \subseteq Message /\ lastSeq' \in Nat /\ lastRev' \in Nat
    BY <1>1, <1>2, <1>3
  <2>3. QED
    BY <2>1, <2>2 DEF AppendCommit, Goto, IInv, CoreInv, CtlInv, TypeOK
<1>5. pc' = [pc EXCEPT ![p] = "answer"] /\ UNCHANGED <<alive, req, tx, acked>>
  BY DEF AppendCommit, Goto
<1>6. \A q \in Procs \ {p} : pc[q] \notin {"insert", "write"}
  BY <1>1 DEF IInv, CoreInv, CtlInv, LockInv
<1>7. LockInv' /\ TxInv'
  BY <1>5, <1>6 DEF IInv, CoreInv, CtlInv, TypeOK, LockInv, TxInv
<1>8. ReqInv'
  BY <1>1, <1>3, <1>5 DEF IInv, CoreInv, CtlInv, TypeOK, ReqInv, ChangeReq
<1>9. LogInv'
  BY <1>1, <1>2, <1>3, <1>5, AddRow DEF AppendCommit, FindByIdempotencyKey, IInv, CoreInv
<1>10. QED
  BY <1>4, <1>7, <1>8, <1>9 DEF IInv, CoreInv, CtlInv

-------------------------------------------------------------------------------
(* The four commands that change a row in place.  Change is what they share. *)

ChangeCommit(p) == EditCommit(p) \/ DeleteCommit(p) \/ ReactCommit(p) \/ PinCommit(p)

\* g takes every row to what it becomes when the row at s changes.
Changes(g, s) ==
    /\ g \in [messages -> Message]
    /\ messages' = {g[m] : m \in messages}
    /\ \A m \in messages :
         /\ g[m].seq = m.seq /\ g[m].sender = m.sender /\ g[m].key = m.key
         /\ m.deleted => g[m].deleted
         /\ m.seq # s => g[m] = m
         /\ m.seq = s => g[m].rev = lastRev + 1

\* What the four commits have in common.
LEMMA CommitShape ==
  ASSUME IInv, NEW p \in Procs, ChangeCommit(p)
  PROVE  /\ pc[p] = "write" /\ lock = p /\ alive
         /\ tx[p].seq \in 1..lastSeq /\ tx[p].seq = req[p].seq /\ tx[p].rev = lastRev + 1
         /\ lastSeq \in Nat /\ lastRev \in Nat /\ messages \subseteq Message
         /\ lastRev' = lastRev + 1 /\ lock' = Nobody
         /\ UNCHANGED <<alive, lastSeq, acked>>
<1>1. /\ pc[p] = "write" /\ lastRev' = tx[p].rev /\ lock' = Nobody
      /\ UNCHANGED <<alive, lastSeq, acked>>
  BY DEF ChangeCommit, EditCommit, DeleteCommit, ReactCommit, PinCommit, CommitChange
<1>2. lastSeq \in Nat /\ lastRev \in Nat /\ messages \subseteq Message
  BY DEF IInv, CoreInv, CtlInv, TypeOK
<1>3. lock = p /\ alive
  BY <1>1 DEF IInv, CoreInv, CtlInv, LockInv
<1>4. tx[p].seq = req[p].seq /\ tx[p].rev = lastRev + 1
  <2>1. tx[p] = [seq |-> req[p].seq, rev |-> lastRev + 1]
    BY <1>1 DEF IInv, CoreInv, CtlInv, TxInv
  <2>2. QED
    BY <2>1
<1>5. req[p].seq \in 1..lastSeq
  BY <1>1, <1>2 DEF IInv, CoreInv, CtlInv, ReqInv, ChangeReq
<1>6. QED
  BY <1>1, <1>2, <1>3, <1>4, <1>5

\* A change given row by row is an instance of Changes.
LEMMA ChangesByRow ==
  ASSUME messages \subseteq Message, NEW s, NEW c \in [messages -> Message],
         messages' = {IF m.seq = s THEN c[m] ELSE m : m \in messages},
         \A m \in messages :
            /\ c[m].seq = m.seq /\ c[m].sender = m.sender /\ c[m].key = m.key
            /\ m.deleted => c[m].deleted
            /\ c[m].rev = lastRev + 1
  PROVE  \E g : Changes(g, s)
<1> DEFINE g == [m \in messages |-> IF m.seq = s THEN c[m] ELSE m]
<1>1. g \in [messages -> Message]
  OBVIOUS
<1>2. messages' = {g[m] : m \in messages}
  OBVIOUS
<1>3. \A m \in messages : g[m] = IF m.seq = s THEN c[m] ELSE m
  OBVIOUS
<1> HIDE DEF g
<1>4. Changes(g, s)
  BY <1>1, <1>2, <1>3 DEF Changes
<1>5. QED
  BY <1>4

\* What each command writes is a row with the same address and author.
LEMMA EditCommitRow ==
  ASSUME NEW m \in Message, NEW r \in Nat \ {0}
  PROVE  /\ [m EXCEPT !.body = "edited", !.rev = r] \in Message
         /\ [m EXCEPT !.body = "edited", !.rev = r].seq = m.seq
         /\ [m EXCEPT !.body = "edited", !.rev = r].sender = m.sender
         /\ [m EXCEPT !.body = "edited", !.rev = r].key = m.key
         /\ m.deleted => [m EXCEPT !.body = "edited", !.rev = r].deleted
         /\ [m EXCEPT !.body = "edited", !.rev = r].rev = r
<1>1. [m EXCEPT !.body = "edited", !.rev = r] \in Message
  BY DEF Message
<1>2. [m EXCEPT !.body = "edited", !.rev = r].seq = m.seq
  BY DEF Message
<1>3. [m EXCEPT !.body = "edited", !.rev = r].sender = m.sender /\ [m EXCEPT !.body = "edited", !.rev = r].key = m.key
  BY DEF Message
<1>4. m.deleted => [m EXCEPT !.body = "edited", !.rev = r].deleted
  BY DEF Message
<1>5. [m EXCEPT !.body = "edited", !.rev = r].rev = r
  BY DEF Message
<1>6. QED
  BY <1>1, <1>2, <1>3, <1>4, <1>5

\* What a soft delete does to a row.
LEMMA DeleteCommitRow ==
  ASSUME NEW m \in Message, NEW r \in Nat \ {0}
  PROVE  /\ [m EXCEPT !.deleted = TRUE, !.pinned = FALSE, !.body = "null", !.rev = r] \in Message
         /\ [m EXCEPT !.deleted = TRUE, !.pinned = FALSE, !.body = "null", !.rev = r].seq = m.seq
         /\ [m EXCEPT !.deleted = TRUE, !.pinned = FALSE, !.body = "null", !.rev = r].sender = m.sender
         /\ [m EXCEPT !.deleted = TRUE, !.pinned = FALSE, !.body = "null", !.rev = r].key = m.key
         /\ m.deleted => [m EXCEPT !.deleted = TRUE, !.pinned = FALSE, !.body = "null", !.rev = r].deleted
         /\ [m EXCEPT !.deleted = TRUE, !.pinned = FALSE, !.body = "null", !.rev = r].rev = r
<1>1. [m EXCEPT !.deleted = TRUE, !.pinned = FALSE, !.body = "null", !.rev = r] \in Message
  BY DEF Message
<1>2. [m EXCEPT !.deleted = TRUE, !.pinned = FALSE, !.body = "null", !.rev = r].seq = m.seq
  BY DEF Message
<1>3. [m EXCEPT !.deleted = TRUE, !.pinned = FALSE, !.body = "null", !.rev = r].sender = m.sender /\ [m EXCEPT !.deleted = TRUE, !.pinned = FALSE, !.body = "null", !.rev = r].key = m.key
  BY DEF Message
<1>4. m.deleted => [m EXCEPT !.deleted = TRUE, !.pinned = FALSE, !.body = "null", !.rev = r].deleted
  BY DEF Message
<1>5. [m EXCEPT !.deleted = TRUE, !.pinned = FALSE, !.body = "null", !.rev = r].rev = r
  BY DEF Message
<1>6. QED
  BY <1>1, <1>2, <1>3, <1>4, <1>5

\* What a reaction does to a row.
LEMMA ReactCommitRow ==
  ASSUME NEW m \in Message, NEW r \in Nat \ {0}
  PROVE  /\ [m EXCEPT !.rev = r] \in Message
         /\ [m EXCEPT !.rev = r].seq = m.seq
         /\ [m EXCEPT !.rev = r].sender = m.sender
         /\ [m EXCEPT !.rev = r].key = m.key
         /\ m.deleted => [m EXCEPT !.rev = r].deleted
         /\ [m EXCEPT !.rev = r].rev = r
<1>1. [m EXCEPT !.rev = r] \in Message
  BY DEF Message
<1>2. [m EXCEPT !.rev = r].seq = m.seq
  BY DEF Message
<1>3. [m EXCEPT !.rev = r].sender = m.sender /\ [m EXCEPT !.rev = r].key = m.key
  BY DEF Message
<1>4. m.deleted => [m EXCEPT !.rev = r].deleted
  BY DEF Message
<1>5. [m EXCEPT !.rev = r].rev = r
  BY DEF Message
<1>6. QED
  BY <1>1, <1>2, <1>3, <1>4, <1>5

\* Each of the four commits is an instance of Changes.
LEMMA CommitChanges ==
  ASSUME IInv, NEW p \in Procs, ChangeCommit(p)
  PROVE  \E g : Changes(g, tx[p].seq)
<1> DEFINE r == lastRev + 1
<1>1. /\ tx[p].seq \in 1..lastSeq /\ tx[p].rev = r /\ r \in Nat \ {0}
      /\ messages \subseteq Message
  BY CommitShape
<1> HIDE DEF r
<1>2. CASE EditCommit(p)
  <2> DEFINE c == [m \in messages |-> [m EXCEPT !.body = "edited", !.rev = r]]
  <2>1. messages' = {IF m.seq = tx[p].seq THEN c[m] ELSE m : m \in messages}
    BY <1>1, <1>2 DEF EditCommit, CommitChange, UpdateRow
  <2>2. \A m \in messages : [m EXCEPT !.body = "edited", !.rev = r] \in Message
    BY <1>1, EditCommitRow
  <2>3. c \in [messages -> Message]
    BY <2>2
  <2>4. \A m \in messages : /\ c[m].seq = m.seq /\ c[m].sender = m.sender /\ c[m].key = m.key
                            /\ m.deleted => c[m].deleted
                            /\ c[m].rev = r
    BY <1>1, EditCommitRow
  <2> HIDE DEF c
  <2>5. QED
    BY <1>1, <2>1, <2>3, <2>4, ChangesByRow DEF r
<1>3. CASE DeleteCommit(p)
  <2> DEFINE c == [m \in messages |-> [m EXCEPT !.deleted = TRUE, !.pinned = FALSE, !.body = "null", !.rev = r]]
  <2>1. messages' = {IF m.seq = tx[p].seq THEN c[m] ELSE m : m \in messages}
    BY <1>1, <1>3 DEF DeleteCommit, CommitChange, UpdateRow
  <2>2. \A m \in messages : [m EXCEPT !.deleted = TRUE, !.pinned = FALSE, !.body = "null", !.rev = r] \in Message
    BY <1>1, DeleteCommitRow
  <2>3. c \in [messages -> Message]
    BY <2>2
  <2>4. \A m \in messages : /\ c[m].seq = m.seq /\ c[m].sender = m.sender /\ c[m].key = m.key
                            /\ m.deleted => c[m].deleted
                            /\ c[m].rev = r
    BY <1>1, DeleteCommitRow
  <2> HIDE DEF c
  <2>5. QED
    BY <1>1, <2>1, <2>3, <2>4, ChangesByRow DEF r
<1>4. CASE ReactCommit(p)
  <2> DEFINE c == [m \in messages |-> [m EXCEPT !.rev = r]]
  <2>1. messages' = {IF m.seq = tx[p].seq THEN c[m] ELSE m : m \in messages}
    BY <1>1, <1>4 DEF ReactCommit, CommitChange, UpdateRow
  <2>2. \A m \in messages : [m EXCEPT !.rev = r] \in Message
    BY <1>1, ReactCommitRow
  <2>3. c \in [messages -> Message]
    BY <2>2
  <2>4. \A m \in messages : /\ c[m].seq = m.seq /\ c[m].sender = m.sender /\ c[m].key = m.key
                            /\ m.deleted => c[m].deleted
                            /\ c[m].rev = r
    BY <1>1, ReactCommitRow
  <2> HIDE DEF c
  <2>5. QED
    BY <1>1, <2>1, <2>3, <2>4, ChangesByRow DEF r
<1>5. CASE PinCommit(p)
  <2>0. PICK b \in BOOLEAN : b = req[p].on
    BY CommitShape DEF IInv, CoreInv, CtlInv, ReqInv, ChangeReq
  <2> DEFINE d(m) == [m EXCEPT !.pinned = b, !.rev = r]
             c == [m \in messages |-> d(m)]
  <2>1. messages' = {IF m.seq = tx[p].seq THEN c[m] ELSE m : m \in messages}
    BY <1>1, <1>5, <2>0 DEF PinCommit, CommitChange, UpdateRow
  <2>2. ASSUME NEW m \in messages
        PROVE  /\ d(m) \in Message
               /\ d(m).seq = m.seq /\ d(m).sender = m.sender /\ d(m).key = m.key
               /\ m.deleted => d(m).deleted
               /\ d(m).rev = r
    <3>1. m \in Message
      BY <1>1
    <3>2. [m EXCEPT !.pinned = b, !.rev = r] \in Message
      BY <1>1, <2>0, <3>1 DEF Message
    <3>3. d(m).seq = m.seq /\ d(m).sender = m.sender
      BY <3>1 DEF Message
    <3>4. d(m).key = m.key /\ d(m).rev = r
      BY <3>1 DEF Message
    <3>5. m.deleted => d(m).deleted
      BY <3>1 DEF Message
    <3>6. QED
      BY <3>2, <3>3, <3>4, <3>5, Zenon
  <2> HIDE DEF d
  <2>3. c \in [messages -> Message]
    BY <2>2
  <2>4. \A m \in messages : c[m] = d(m)
    OBVIOUS
  <2> HIDE DEF c
  <2>5. QED
    BY <1>1, <2>1, <2>2, <2>3, <2>4, ChangesByRow DEF r
<1>6. QED
  BY <1>2, <1>3, <1>4, <1>5 DEF ChangeCommit

\* A change in place keeps the log whole.
LEMMA ChangeKeepsLog ==
  ASSUME LogInv, alive, lastSeq \in Nat, lastRev \in Nat, messages \subseteq Message,
         NEW g, NEW s \in 1..lastSeq, Changes(g, s),
         lastRev' = lastRev + 1, UNCHANGED <<alive, lastSeq, acked>>
  PROVE  LogInv'
<1>1. \A m \in messages : m.rev \in Nat /\ m.rev <= lastRev
  BY DEF LogInv, RevisionsDistinct, Message
<1>2. \A m, n \in messages : m.seq = n.seq => m = n
  BY DEF LogInv, Gapless
<1>3. Gapless'
  <2>1. \A m, n \in messages' : m.seq = n.seq => m = n
    BY <1>2 DEF Changes
  <2>2. {m.seq : m \in messages'} = {m.seq : m \in messages}
    BY DEF Changes
  <2>3. QED
    BY <2>1, <2>2 DEF LogInv, Gapless
<1>4. OneRowPerKey'
  BY DEF LogInv, OneRowPerKey, Changes
<1>5. RevisionsDistinct'
  <2>1. \A m \in messages : IF m.seq = s THEN g[m].rev = lastRev + 1 ELSE g[m] = m
    BY DEF Changes
  <2>2. \A m, n \in messages : g[m].rev = g[n].rev => m = n
    BY <1>1, <1>2, <2>1 DEF LogInv, RevisionsDistinct
  <2>3. \A m \in messages : g[m].rev <= lastRev'
    BY <1>1, <2>1
  <2>4. QED
    BY <2>2, <2>3 DEF RevisionsDistinct, Changes
<1>6. AcksAgree'
  BY DEF LogInv, AcksAgree, Changes
<1>7. QED
  BY <1>3, <1>4, <1>5, <1>6 DEF LogInv, GoneInv

\* The four commits keep the core invariant.
LEMMA InvChangeCommit ==
  ASSUME IInv, NEW p \in Procs, ChangeCommit(p)
  PROVE  CoreInv'
<1>0. /\ pc[p] = "write" /\ lock = p /\ alive
      /\ tx[p].seq \in 1..lastSeq /\ tx[p].seq = req[p].seq /\ tx[p].rev = lastRev + 1
      /\ lastSeq \in Nat /\ lastRev \in Nat /\ messages \subseteq Message
      /\ lastRev' = lastRev + 1 /\ lock' = Nobody
      /\ UNCHANGED <<alive, lastSeq, acked>>
  BY CommitShape
<1>1. PICK g : Changes(g, tx[p].seq)
  BY CommitChanges
<1>2. LogInv'
  BY <1>0, <1>1, ChangeKeepsLog DEF IInv, CoreInv
<1>3. messages' \subseteq Message
  BY <1>1 DEF Changes
<1>4. outbox' \in Seq(Event)
  <2>1. CASE PinCommit(p)
    BY <2>1 DEF PinCommit, IInv, CoreInv, CtlInv, TypeOK
  <2>2. ASSUME NEW type \in {"message.edited", "message.deleted", "message.reacted"},
               Emit(type, tx[p].seq)
        PROVE  outbox' \in Seq(Event)
    <3> DEFINE e == [type |-> type, seq |-> tx[p].seq]
    <3>1. e \in Event /\ Emit(e.type, e.seq)
      BY <1>0, <2>2 DEF Event
    <3>2. QED
      BY <3>1, EmitTyped DEF IInv, CoreInv, CtlInv, TypeOK
  <2>3. QED
    BY <2>1, <2>2 DEF ChangeCommit, EditCommit, DeleteCommit, ReactCommit
<1>5. \/ Finish(p)
      \/ Goto(p, "announce") /\ UNCHANGED <<req, tx>>
  BY DEF ChangeCommit, EditCommit, DeleteCommit, ReactCommit, PinCommit
<1>6. TypeOK'
  <2> DEFINE Step == {"idle", "bump", "insert", "answer", "reply", "touch", "write", "announce"}
  <2>1. /\ pc' \in [Procs -> Step]
        /\ req' \in [Procs -> Request]
        /\ tx' \in [Procs -> [seq: Nat, rev: Nat]]
    <3>1. NoReq \in Request /\ NoTx \in [seq: Nat, rev: Nat]
      BY DEF Request, NoTx
    <3>2. /\ pc \in [Procs -> Step]
          /\ req \in [Procs -> Request] /\ tx \in [Procs -> [seq: Nat, rev: Nat]]
      BY DEF IInv, CoreInv, CtlInv, TypeOK
    <3>3. QED
      BY <1>5, <3>1, <3>2 DEF Finish, Goto
  <2>2. lock' \in Procs \union {Nobody} /\ acked' \subseteq [user: Users, key: Keys, seq: Nat \ {0}]
    BY <1>0 DEF IInv, CoreInv, CtlInv, TypeOK
  <2>b. alive' \in BOOLEAN
    BY <1>0 DEF IInv, CoreInv, CtlInv, TypeOK
  <2>3. lastSeq' \in Nat /\ lastRev' \in Nat
    BY <1>0
  <2>4. QED
    BY <1>3, <1>4, <2>1, <2>2, <2>b, <2>3 DEF TypeOK
<1>7. \A q \in Procs \ {p} : pc[q] \notin {"insert", "write"}
  BY <1>0 DEF IInv, CoreInv, CtlInv, LockInv
<1>8. LockInv' /\ TxInv'
  BY <1>0, <1>5, <1>7 DEF IInv, CoreInv, CtlInv, TypeOK, LockInv, TxInv, Finish, Goto
<1>9. ReqInv'
  <2>1. CASE Finish(p)
    BY <1>0, <2>1 DEF IInv, CoreInv, CtlInv, TypeOK, ReqInv, Finish, Goto
  <2>2. CASE Goto(p, "announce") /\ UNCHANGED <<req, tx>>
    BY <1>0, <2>2 DEF IInv, CoreInv, CtlInv, TypeOK, ReqInv, Goto
  <2>3. QED
    BY <1>5, <2>1, <2>2
<1>10. QED
  BY <1>2, <1>6, <1>8, <1>9 DEF IInv, CoreInv, CtlInv
-------------------------------------------------------------------------------
\* The answer of an append whose row is committed: every other answer for the
\* client id is the same one.
LEMMA InvOwnAnswer ==
  ASSUME IInv, NEW p \in Procs, AppendAnswer(p)
  PROVE  CoreInv'
<1>1. acked' = acked \union {[user |-> req[p].user, key |-> req[p].key, seq |-> tx[p].seq]}
  BY DEF AppendAnswer, Tell
<1>2. req[p].user \in Users /\ req[p].key \in Keys /\ tx[p].seq \in Nat \ {0}
  BY DEF AppendAnswer, IInv, AnswerInv, SendReq
<1>3. acked' \subseteq [user: Users, key: Keys, seq: Nat \ {0}]
  BY <1>1, <1>2 DEF IInv, CoreInv, CtlInv, TypeOK
<1>4. TypeOK'
  BY <1>3 DEF AppendAnswer, channelVars, IInv, CoreInv, CtlInv, TypeOK, Finish, Goto, NoReq,
     NoTx, Request
<1>5. LockInv' /\ ReqInv' /\ TxInv'
  BY DEF AppendAnswer, channelVars, IInv, CoreInv, CtlInv, TypeOK, LockInv, ReqInv, TxInv,
     Finish, Goto
<1>6. AcksAgree'
  BY <1>1 DEF AppendAnswer, channelVars, IInv, CoreInv, LogInv, AcksAgree, AnswerInv
<1>7. LogInv'
  BY <1>6 DEF AppendAnswer, channelVars, IInv, CoreInv, LogInv, Gapless, OneRowPerKey,
     RevisionsDistinct, GoneInv
<1>8. QED
  BY <1>4, <1>5, <1>7 DEF CoreInv, CtlInv

\* Every step keeps the first part of the invariant.
LEMMA CoreNext ==
  ASSUME IInv, [Next]_vars
  PROVE  CoreInv'
<1>1. ASSUME NEW p \in Procs, Arrive(p) \/ Work(p) \/ Crash(p)
      PROVE  CoreInv'
  <2>1. CASE AppendBump(p) \/ NextRevision(p)
    BY <2>1, InvTakeRow
  <2>2. CASE EditCommit(p) \/ DeleteCommit(p) \/ ReactCommit(p) \/ PinCommit(p)
    BY <2>2, InvChangeCommit DEF ChangeCommit
  <2>3. CASE AppendCommit(p)
    BY <2>3, InvAppendCommit
  <2>4. CASE AppendConflict(p)
    BY <2>4, InvConflict
  <2>5. CASE AppendReply(p)
    BY <2>5, InvReply
  <2>6. CASE AppendAnswer(p)
    BY <2>6, InvOwnAnswer
  <2>7. CASE PinAnnounce(p)
    BY <2>7, InvPinAnnounce
  <2>8. CASE ChannelGone(p)
    BY <2>8, InvChannelGone
  <2>9. CASE Crash(p)
    BY <2>9, InvCrash
  <2>10. CASE Arrive(p)
    BY <2>10, InvArrive
  <2>11. QED
    BY <1>1, <2>1, <2>2, <2>3, <2>4, <2>5, <2>6, <2>7, <2>8, <2>9, <2>10 DEF Work
<1>2. CASE DropChannel
  BY <1>2, InvDropChannel
<1>3. CASE UNCHANGED vars
  <2>1. CtlInv'
    BY <1>3 DEF vars, IInv, CoreInv, CtlInv, TypeOK, LockInv, ReqInv, TxInv
  <2>2. LogInv'
    BY <1>3, LogUnchanged DEF vars, IInv, CoreInv
  <2>3. QED
    BY <2>1, <2>2 DEF CoreInv
<1>4. QED
  BY <1>1, <1>2, <1>3 DEF Next

-------------------------------------------------------------------------------
(* What a step may do to the rows, and to the answers. *)

\* Three kinds of step change the tables of the log.
LEMMA RowsKept ==
  ASSUME IInv, [Next]_vars
  PROVE  \/ UNCHANGED <<messages, lastSeq, lastRev, alive>>
         \/ \E p \in Procs : AppendCommit(p)
         \/ \E p \in Procs : ChangeCommit(p)
         \/ DropChannel
BY DEF Next, vars, Arrive, Work, ChangeCommit, SendDeduplicated, SendStart, EditLoad,
   DeleteLoad,
   PinLoad, ReactLoad, Accept, AppendBump, AppendConflict, AppendReply,
   AppendAnswer, NextRevision,
   PinAnnounce, ChannelGone, Crash, channelVars

\* What the append adds.
LEMMA OwnRow ==
  ASSUME IInv, NEW p \in Procs, AppendCommit(p)
  PROVE  \E row \in Message :
            /\ row.seq = lastSeq + 1 /\ row.rev = lastRev + 1
            /\ row.sender = req[p].user /\ row.key = req[p].key
            /\ \A m \in messages : m.sender # row.sender \/ m.key # row.key
            /\ messages' = messages \union {row} /\ row \in messages'
            /\ lastSeq' = lastSeq + 1 /\ lastRev' = lastRev + 1
            /\ alive /\ UNCHANGED alive
<1>1. /\ tx[p].seq = lastSeq + 1 /\ tx[p].rev = lastRev + 1
      /\ req[p] \in SendReq /\ alive /\ lastSeq \in Nat /\ lastRev \in Nat
  <2>1. pc[p] = "insert"
    BY DEF AppendCommit
  <2>2. tx[p] = [seq |-> lastSeq + 1, rev |-> lastRev + 1]
    BY <2>1 DEF IInv, CoreInv, CtlInv, TxInv
  <2>3. req[p] \in SendReq /\ alive /\ lastSeq \in Nat /\ lastRev \in Nat
    BY <2>1 DEF IInv, CoreInv, CtlInv, TypeOK, LockInv, ReqInv
  <2>4. QED
    BY <2>2, <2>3
<1> DEFINE r == [seq |-> tx[p].seq, rev |-> tx[p].rev, sender |-> req[p].user,
                 key |-> req[p].key, body |-> "first", deleted |-> FALSE, pinned |-> FALSE]
<1>2. r \in Message
  BY <1>1 DEF Message, SendReq
<1>3. r.seq = lastSeq + 1 /\ r.rev = lastRev + 1 /\ r.sender = req[p].user /\ r.key = req[p].key
  BY <1>1
<1>4. messages' = messages \union {r} /\ lastSeq' = tx[p].seq /\ lastRev' = tx[p].rev
      /\ UNCHANGED alive
  BY DEF AppendCommit
<1>5. \A m \in messages : m.sender # req[p].user \/ m.key # req[p].key
  BY DEF AppendCommit, FindByIdempotencyKey
<1> HIDE DEF r
<1>6. QED
  BY <1>1, <1>2, <1>3, <1>4, <1>5

\* The same, for who does not care whose row it is.
LEMMA AppendShape ==
  ASSUME IInv, NEW p \in Procs, AppendCommit(p)
  PROVE  \E row \in Message :
            /\ row.seq = lastSeq + 1 /\ row.rev = lastRev + 1
            /\ \A m \in messages : m.sender # row.sender \/ m.key # row.key
            /\ messages' = messages \union {row}
            /\ lastSeq' = lastSeq + 1 /\ lastRev' = lastRev + 1
            /\ alive /\ UNCHANGED alive
BY OwnRow

\* Rows stay where they are, under the client id they came with.
RowsStay ==
    alive' => /\ alive
              /\ \A m \in messages : \E n \in messages' :
                   n.seq = m.seq /\ n.sender = m.sender /\ n.key = m.key

\* No step but the channel's deletion takes a row away.
LEMMA RowsStayPut ==
  ASSUME IInv, [Next]_vars
  PROVE  RowsStay
<1>1. CASE UNCHANGED <<messages, lastSeq, lastRev, alive>>
  BY <1>1 DEF RowsStay
<1>2. ASSUME NEW p \in Procs, AppendCommit(p) PROVE RowsStay
  BY <1>2, AppendShape DEF RowsStay
<1>3. ASSUME NEW p \in Procs, ChangeCommit(p) PROVE RowsStay
  <2>1. PICK g : Changes(g, tx[p].seq)
    BY <1>3, CommitChanges
  <2>2. alive
    BY <1>3, CommitShape
  <2>3. QED
    BY <2>1, <2>2 DEF Changes, RowsStay
<1>4. CASE DropChannel
  BY <1>4 DEF DropChannel, RowsStay
<1>5. QED
  BY <1>1, <1>2, <1>3, <1>4, RowsKept

\* A new answer given for a client id is the one a pending append will give.
NewAcksFit ==
    \A p \in Procs, a \in acked' :
        pc[p] = "answer" /\ a.user = req[p].user /\ a.key = req[p].key => a.seq = tx[p].seq

\* The answer of the row under a client id is what a pending append will say.
LEMMA RowAckFits ==
  ASSUME IInv, NEW m \in messages, Tell(m)
  PROVE  NewAcksFit
BY SeqOfRow DEF Tell, NewAcksFit, IInv, CoreInv, LogInv, OneRowPerKey, AnswerInv

\* Only the two answers and the recognised retry tell anybody anything.
LEMMA AcksFit ==
  ASSUME IInv, [Next]_vars
  PROVE  NewAcksFit
<1>1. \/ UNCHANGED acked
      \/ \E m \in messages : Tell(m)
      \/ \E p \in Procs : AppendAnswer(p)
  BY DEF Next, vars, Arrive, Work, SendDeduplicated, SendStart, EditLoad, DeleteLoad,
     PinLoad, ReactLoad, Accept, AppendBump, AppendCommit, AppendConflict, AppendReply,
     NextRevision, EditCommit, DeleteCommit, ReactCommit, PinCommit, CommitChange,
     PinAnnounce, ChannelGone, Crash, DropChannel, FindByIdempotencyKey
<1>2. CASE UNCHANGED acked
  BY <1>2 DEF NewAcksFit, IInv, AnswerInv
<1>3. ASSUME NEW p \in Procs, AppendAnswer(p) PROVE NewAcksFit
  <2>1. acked' = acked \union {[user |-> req[p].user, key |-> req[p].key, seq |-> tx[p].seq]}
    BY <1>3 DEF AppendAnswer, Tell
  <2>2. pc[p] = "answer"
    BY <1>3 DEF AppendAnswer
  <2>3. QED
    BY <2>1, <2>2 DEF NewAcksFit, IInv, AnswerInv
<1>4. QED
  BY <1>1, <1>2, <1>3, RowAckFits

\* Only a commit makes an append owe its answer; one that owes it already is
\* left alone by everybody else.
LEMMA AnswerersKept ==
  ASSUME IInv, [Next]_vars, NEW q \in Procs, pc'[q] = "answer", ~AppendCommit(q)
  PROVE  pc[q] = "answer" /\ req'[q] = req[q] /\ tx'[q] = tx[q]
<1>1. pc \in [Procs -> {"idle", "bump", "insert", "answer", "reply", "touch", "write",
                        "announce"}]
      /\ req \in [Procs -> Request] /\ tx \in [Procs -> [seq: Nat, rev: Nat]]
  BY DEF IInv, CoreInv, CtlInv, TypeOK
<1>2. ASSUME NEW p \in Procs, Arrive(p) PROVE pc[q] = "answer" /\ req'[q] = req[q] /\ tx'[q] = tx[q]
  BY <1>1, <1>2 DEF Arrive, SendDeduplicated, SendStart, EditLoad, DeleteLoad, PinLoad,
     ReactLoad,
     Accept, Goto
<1>3. ASSUME NEW p \in Procs, Work(p) PROVE pc[q] = "answer" /\ req'[q] = req[q] /\ tx'[q] = tx[q]
  BY <1>1, <1>3 DEF Work, AppendBump, AppendCommit, AppendConflict, AppendReply, AppendAnswer,
     NextRevision, EditCommit, DeleteCommit, ReactCommit, PinCommit, CommitChange, PinAnnounce,
     ChannelGone, Finish, Goto
<1>4. ASSUME NEW p \in Procs, Crash(p) PROVE pc[q] = "answer" /\ req'[q] = req[q] /\ tx'[q] = tx[q]
  BY <1>1, <1>4 DEF Crash, Finish, Goto
<1>5. CASE DropChannel \/ UNCHANGED vars
  BY <1>5 DEF DropChannel, vars
<1>6. QED
  BY <1>2, <1>3, <1>4, <1>5 DEF Next

\* A commit's own answer agrees with every other: nobody had the client id.
LEMMA FreshAnswer ==
  ASSUME IInv, NEW p \in Procs, AppendCommit(p)
  PROVE  AnswerInv'
<1>1. /\ pc \in [Procs -> {"idle", "bump", "insert", "answer", "reply", "touch", "write",
                           "announce"}]
      /\ pc[p] = "insert" /\ pc' = [pc EXCEPT ![p] = "answer"]
      /\ UNCHANGED <<alive, req, tx, acked>>
  BY DEF AppendCommit, Goto, IInv, CoreInv, CtlInv, TypeOK
<1>2. alive /\ req[p] \in SendReq /\ tx[p].seq = lastSeq + 1 /\ lastSeq \in Nat
  <2>1. tx[p] = [seq |-> lastSeq + 1, rev |-> lastRev + 1]
    BY <1>1 DEF IInv, CoreInv, CtlInv, TxInv
  <2>2. QED
    BY <1>1, <2>1 DEF IInv, CoreInv, CtlInv, TypeOK, LockInv, ReqInv
<1>3. \A m \in messages : m.sender # req[p].user \/ m.key # req[p].key
  BY DEF AppendCommit, FindByIdempotencyKey
<1>4. \E m \in messages' : /\ m.sender = req[p].user /\ m.key = req[p].key
                           /\ m.seq = tx[p].seq
  <2>1. PICK row \in Message : /\ row.seq = lastSeq + 1 /\ row.sender = req[p].user
                              /\ row.key = req[p].key /\ row \in messages'
    BY <1>2, OwnRow
  <2>2. QED
    BY <1>2, <2>1
<1>5. \A m \in messages : m \in messages'
  BY DEF AppendCommit
<1>6. \A a \in acked : a.user # req[p].user \/ a.key # req[p].key
  BY <1>2, <1>3 DEF IInv, CoreInv, LogInv, AcksAgree
<1>7. \A q \in Procs : pc[q] = "answer" => req[q].user # req[p].user \/ req[q].key # req[p].key
  BY <1>2, <1>3 DEF IInv, AnswerInv
<1>8. QED
  BY <1>1, <1>2, <1>4, <1>5, <1>6, <1>7 DEF IInv, AnswerInv

\* Every step keeps the inductive invariant: one case per action, in CoreNext
\* for the tables and the control state, here for the answers still owed.
THEOREM InvNext == IInv /\ [Next]_vars => IInv'
<1> SUFFICES ASSUME IInv, [Next]_vars PROVE IInv'
  OBVIOUS
<1>1. CoreInv'
  BY CoreNext
<1>2. AnswerInv'
  <2>1. CASE \E p \in Procs : AppendCommit(p)
    BY <2>1, FreshAnswer
  <2>2. CASE \A p \in Procs : ~AppendCommit(p)
    <3>1. \A q \in Procs : pc'[q] = "answer" =>
             pc[q] = "answer" /\ req'[q] = req[q] /\ tx'[q] = tx[q]
      BY <2>2, AnswerersKept
    <3>2. NewAcksFit /\ RowsStay
      BY AcksFit, RowsStayPut
    <3>3. QED
      BY <3>1, <3>2 DEF NewAcksFit, RowsStay, IInv, AnswerInv
  <2>3. QED
    BY <2>1, <2>2
<1>3. QED
  BY <1>1, <1>2 DEF IInv

\* The inductive invariant holds throughout.
THEOREM Invariance == Spec => []IInv
  BY InvInit, InvNext, PTL DEF Spec

\* TypeOK for every instance.
THEOREM TypeCorrect == Spec => []TypeOK
<1>1. IInv => TypeOK
  BY DEF IInv, CoreInv, CtlInv
<1>2. QED
  BY <1>1, Invariance, PTL

\* appendMessage never leaves a gap and never stores a client id twice,
\* whatever races, retries, crashes and rollbacks happen around it.
THEOREM GaplessLog == Spec => []Gapless
<1>1. IInv => Gapless
  BY DEF IInv, CoreInv, LogInv
<1>2. QED
  BY <1>1, Invariance, PTL

\* A client id is stored once, however often and concurrently it is sent.
THEOREM ExactlyOnce == Spec => []OneRowPerKey
<1>1. IInv => OneRowPerKey
  BY DEF IInv, CoreInv, LogInv
<1>2. QED
  BY <1>1, Invariance, PTL

\* Revisions are distinct and committed.
THEOREM DistinctRevisions == Spec => []RevisionsDistinct
<1>1. IInv => RevisionsDistinct
  BY DEF IInv, CoreInv, LogInv
<1>2. QED
  BY <1>1, Invariance, PTL

\* The log a client syncs from stays well formed: the counters and the unique index neither
\* leak nor collide.
THEOREM LogStaysWellFormed == Spec => []LogWellFormed
<1>1. IInv => LogWellFormed
  BY DEF IInv, CoreInv, LogInv, LogWellFormed
<1>2. QED
  BY <1>1, Invariance, PTL

\* Every answer to a sender stays true.
THEOREM DurableAcks == Spec => []AcksAgree
<1>1. IInv => AcksAgree
  BY DEF IInv, CoreInv, LogInv
<1>2. QED
  BY <1>1, Invariance, PTL

-------------------------------------------------------------------------------
\* Sync may ask "rev > mine": whatever it had not seen commits above its mark.
THEOREM Watermark == Spec => RevisionIsWatermark
<1>1. IInv /\ [Next]_vars => [\A m \in messages' : m \notin messages => m.rev > lastRev]_vars
  <2> SUFFICES ASSUME IInv, [Next]_vars, NEW m \in messages', m \notin messages
               PROVE  m.rev > lastRev
    OBVIOUS
  <2>1. lastRev \in Nat
    BY DEF IInv, CoreInv, CtlInv, TypeOK
  <2>2. CASE UNCHANGED <<messages, lastSeq, lastRev, alive>>
    BY <2>2
  <2>3. ASSUME NEW p \in Procs, AppendCommit(p) PROVE m.rev > lastRev
    BY <2>1, <2>3, AppendShape
  <2>4. ASSUME NEW p \in Procs, ChangeCommit(p) PROVE m.rev > lastRev
    <3>1. PICK g : Changes(g, tx[p].seq)
      BY <2>4, CommitChanges
    <3>2. QED
      BY <2>1, <3>1 DEF Changes
  <2>5. CASE DropChannel
    BY <2>5 DEF DropChannel
  <2>6. QED
    BY <2>2, <2>3, <2>4, <2>5, RowsKept
<1>2. QED
  BY <1>1, Invariance, PTL DEF Spec, RevisionIsWatermark

\* A message keeps its seq, its sender and its client id, and a delete is for
\* good.
THEOREM AppendOnly == Spec => LogIsAppendOnly
<1> DEFINE Kept == alive' => \A m \in messages : \E n \in messages' :
                     /\ n.seq = m.seq /\ n.sender = m.sender /\ n.key = m.key
                     /\ m.deleted => n.deleted
<1>1. IInv /\ [Next]_vars => [Kept]_vars
  <2> SUFFICES ASSUME IInv, [Next]_vars PROVE Kept
    OBVIOUS
  <2>1. CASE UNCHANGED <<messages, lastSeq, lastRev, alive>>
    BY <2>1
  <2>2. ASSUME NEW p \in Procs, AppendCommit(p) PROVE Kept
    BY <2>2, AppendShape
  <2>3. ASSUME NEW p \in Procs, ChangeCommit(p) PROVE Kept
    <3>1. PICK g : Changes(g, tx[p].seq)
      BY <2>3, CommitChanges
    <3>2. QED
      BY <3>1 DEF Changes
  <2>4. CASE DropChannel
    BY <2>4 DEF DropChannel
  <2>5. QED
    BY <2>1, <2>2, <2>3, <2>4, RowsKept
<1>2. QED
  BY <1>1, Invariance, PTL DEF Spec, LogIsAppendOnly
-------------------------------------------------------------------------------
(* The events of the log. *)

\* What a step does to the partition: nothing, a created event for the next seq, or
\* another kind of event.
LEMMA Emits ==
  ASSUME IInv, [Next]_vars
  PROVE  \/ UNCHANGED <<outbox, lastSeq>>
         \/ \E e \in Event : e.type # "message.created" /\ outbox' = Append(outbox, e) /\ lastSeq' = lastSeq
         \/ lastSeq' = lastSeq + 1 /\ outbox' = Append(outbox, [type |-> "message.created", seq |-> lastSeq + 1])
<1> DEFINE Quiet == UNCHANGED <<outbox, lastSeq>>
           Other == \E e \in Event : e.type # "message.created" /\ outbox' = Append(outbox, e) /\ lastSeq' = lastSeq
           Fresh == lastSeq' = lastSeq + 1 /\ outbox' = Append(outbox, [type |-> "message.created", seq |-> lastSeq + 1])
<1>1. ASSUME NEW p \in Procs, Arrive(p) PROVE Quiet
  BY <1>1 DEF Arrive, SendDeduplicated, SendStart, EditLoad, DeleteLoad, PinLoad, ReactLoad, Accept, channelVars
<1>2. ASSUME NEW p \in Procs, Crash(p) \/ ChannelGone(p) \/ AppendBump(p) \/ NextRevision(p) \/ PinCommit(p) PROVE Quiet
  BY <1>2 DEF Crash, ChannelGone, AppendBump, NextRevision, PinCommit, CommitChange, channelVars
<1>3. ASSUME NEW p \in Procs, AppendConflict(p) \/ AppendReply(p) \/ AppendAnswer(p) PROVE Quiet
  BY <1>3 DEF AppendConflict, AppendReply, AppendAnswer, channelVars
<1>4. ASSUME NEW p \in Procs, AppendCommit(p) PROVE Fresh
  <2>1. pc[p] = "insert" /\ lastSeq' = tx[p].seq /\ outbox' = Append(outbox, [type |-> "message.created", seq |-> tx[p].seq])
    BY <1>4 DEF AppendCommit, Emit
  <2>2. tx[p] = [seq |-> lastSeq + 1, rev |-> lastRev + 1]
    BY <2>1 DEF IInv, CoreInv, CtlInv, TxInv
  <2>3. tx[p].seq = lastSeq + 1
    BY <2>2
  <2>4. QED
    BY <2>1, <2>3
<1>5. ASSUME NEW t \in {"message.edited", "message.deleted", "message.reacted", "message.pinned"}, NEW s \in Nat \ {0},
             Emit(t, s), UNCHANGED lastSeq
      PROVE  Other
  <2> DEFINE e == [type |-> t, seq |-> s]
  <2>1. e \in Event /\ e.type # "message.created"
    BY DEF Event
  <2>2. QED
    BY <1>5, <2>1 DEF Emit
<1>6. ASSUME NEW p \in Procs, EditCommit(p) \/ DeleteCommit(p) \/ ReactCommit(p) PROVE Other
  <2>1. pc[p] = "write"
    BY <1>6 DEF EditCommit, DeleteCommit, ReactCommit, CommitChange
  <2>2. tx[p].seq \in Nat \ {0}
    <3>1. tx[p] = [seq |-> req[p].seq, rev |-> lastRev + 1] /\ req[p] \in ChangeReq
      BY <2>1 DEF IInv, CoreInv, CtlInv, TxInv, ReqInv
    <3>2. tx[p].seq = req[p].seq
      BY <3>1
    <3>3. QED
      BY <3>1, <3>2 DEF ChangeReq
  <2>3. QED
    BY <1>5, <1>6, <2>2 DEF EditCommit, DeleteCommit, ReactCommit, CommitChange
<1>7. ASSUME NEW p \in Procs, PinAnnounce(p) PROVE Other
  <2>1. req[p].seq \in Nat \ {0}
    BY <1>7 DEF PinAnnounce, IInv, CoreInv, CtlInv, ReqInv, ChangeReq
  <2>2. QED
    BY <1>5, <1>7, <2>1 DEF PinAnnounce, channelVars
<1>8. CASE DropChannel \/ UNCHANGED vars
  BY <1>8 DEF DropChannel, vars
<1>9. QED
  BY <1>1, <1>2, <1>3, <1>4, <1>6, <1>7, <1>8 DEF Next, Work

LEMMA MirrorNext ==
  ASSUME IInv, CreatedEventsMirrorLog, [Next]_vars
  PROVE  CreatedEventsMirrorLog'
<1> DEFINE n == Len(outbox)
<1>1. outbox \in Seq(Event) /\ DOMAIN outbox = 1..n /\ n \in Nat /\ lastSeq \in Nat
  BY LenProperties DEF IInv, CoreInv, CtlInv, TypeOK
<1>2. ASSUME NEW e \in Event, outbox' = Append(outbox, e)
      PROVE  /\ Created' = IF e.type = "message.created" THEN Created \union {n + 1} ELSE Created
             /\ \A i \in Created : outbox'[i] = outbox[i] /\ i \in Nat /\ i < n + 1
             /\ outbox'[n + 1] = e
  <2>1. /\ DOMAIN outbox' = 1..(n + 1) /\ outbox'[n + 1] = e
        /\ \A i \in 1..n : outbox'[i] = outbox[i]
    BY <1>1, <1>2, AppendProperties, LenProperties
  <2> HIDE DEF n
  <2>2. QED
    BY <1>1, <2>1 DEF Created
<1>3. CASE UNCHANGED <<outbox, lastSeq>>
  BY <1>3 DEF CreatedEventsMirrorLog, Created
<1>4. ASSUME NEW e \in Event, e.type # "message.created", outbox' = Append(outbox, e), lastSeq' = lastSeq
      PROVE  CreatedEventsMirrorLog'
  BY <1>2, <1>4 DEF CreatedEventsMirrorLog
<1>5. ASSUME lastSeq' = lastSeq + 1, outbox' = Append(outbox, [type |-> "message.created", seq |-> lastSeq + 1])
      PROVE  CreatedEventsMirrorLog'
  <2> DEFINE e == [type |-> "message.created", seq |-> lastSeq + 1]
  <2>1. e \in Event /\ e.type = "message.created" /\ e.seq = lastSeq + 1
    BY <1>1 DEF Event
  <2> HIDE DEF e
  <2>2. /\ Created' = Created \union {n + 1} /\ outbox'[n + 1].seq = lastSeq + 1
        /\ \A i \in Created : outbox'[i] = outbox[i] /\ i \in Nat /\ i < n + 1
    BY <1>2, <1>5, <2>1 DEF e
  <2>3. \A i \in Created : outbox[i].seq \in 1..lastSeq
    BY DEF CreatedEventsMirrorLog
  <2>4. {outbox'[i].seq : i \in Created'} = {outbox[i].seq : i \in Created} \union {lastSeq + 1}
    BY <2>2
  <2>5. (1..lastSeq) \union {lastSeq + 1} = 1..(lastSeq + 1)
    BY <1>1
  <2>6. \A i, j \in Created' : i < j => outbox'[i].seq < outbox'[j].seq
    BY <1>1, <2>2, <2>3 DEF CreatedEventsMirrorLog
  <2>7. QED
    BY <1>5, <2>4, <2>5, <2>6 DEF CreatedEventsMirrorLog
<1>6. QED
  BY <1>3, <1>4, <1>5, Emits

\* The events a fan-out reads are the log: each message is announced once, in the order of
\* the log, by whichever request commits it.
THEOREM EventsMirrorLog == Spec => []CreatedEventsMirrorLog
<1>1. Init => CreatedEventsMirrorLog
  BY DEF Init, CreatedEventsMirrorLog, Created
<1>2. IInv /\ CreatedEventsMirrorLog /\ [Next]_vars => CreatedEventsMirrorLog'
  BY MirrorNext
<1>3. QED
  BY <1>1, <1>2, Invariance, PTL DEF Spec

-------------------------------------------------------------------------------
(* The refinement: every committed transaction is one step of ChannelLog, and *)
(* everything else is a stutter.                                              *)

EntryOf(m) == [seq |-> m.seq, sender |-> m.sender, key |-> m.key, rev |-> m.rev]
Entries == {EntryOf(m) : m \in messages}

\* An append is an abstract append.
LEMMA AbsAppend ==
  ASSUME IInv, NEW p \in Procs, AppendCommit(p)
  PROVE  Abstract!Next
<1>1. PICK row \in Message :
         /\ row.seq = lastSeq + 1 /\ row.rev = lastRev + 1
         /\ \A m \in messages : m.sender # row.sender \/ m.key # row.key
         /\ messages' = messages \union {row}
         /\ lastSeq' = lastSeq + 1 /\ lastRev' = lastRev + 1
         /\ alive /\ UNCHANGED alive
  BY AppendShape
<1>2. row.sender \in Users /\ row.key \in Keys
  BY DEF Message
<1>3. \A e \in Entries : e.sender # row.sender \/ e.key # row.key
  BY <1>1 DEF Entries, EntryOf
<1>4. Entries' = Entries \union {EntryOf(row)}
  BY <1>1 DEF Entries
<1>5. EntryOf(row) = [seq |-> lastSeq + 1, sender |-> row.sender, key |-> row.key,
                      rev |-> lastRev + 1]
  BY <1>1 DEF EntryOf
<1>6. Abstract!Append(row.sender, row.key)
  BY <1>1, <1>3, <1>4, <1>5 DEF Abstract!Append, Entries, EntryOf
<1>7. QED
  BY <1>2, <1>6 DEF Abstract!Next

\* A change in place is an abstract change.
LEMMA AbsChange ==
  ASSUME IInv, NEW p \in Procs, ChangeCommit(p)
  PROVE  Abstract!Next
<1>1. /\ alive /\ tx[p].seq \in 1..lastSeq /\ lastRev' = lastRev + 1
      /\ UNCHANGED <<alive, lastSeq>>
  BY CommitShape
<1>2. PICK g : Changes(g, tx[p].seq)
  BY CommitChanges
<1> DEFINE s == tx[p].seq
           moved(e) == IF e.seq = s THEN [e EXCEPT !.rev = lastRev + 1] ELSE e
<1>3. \A m \in messages : EntryOf(g[m]) = moved(EntryOf(m))
  BY <1>2 DEF Changes, EntryOf
<1>4. Entries' = {EntryOf(g[m]) : m \in messages}
  BY <1>2 DEF Entries, Changes
<1>5. Entries' = {moved(EntryOf(m)) : m \in messages}
  BY <1>3, <1>4
<1>6. Entries' = {moved(e) : e \in Entries}
  BY <1>5 DEF Entries
<1>7. Abstract!Change(s)
  BY <1>1, <1>6 DEF Abstract!Change, Entries, EntryOf
<1>8. s \in 1..lastSeq
  BY <1>1
<1>9. QED
  BY <1>7, <1>8 DEF Abstract!Next, Abstract!Change

\* MessageLog implements ChannelLog: the log is an atomic, exactly-once,
\* gapless append with a revision watermark, for any number of requests.
THEOREM Refinement == Spec => ImplementsChannelLog
<1>1. Init => Abstract!Init
  BY DEF Init, Abstract!Init
<1>2. IInv /\ [Next]_vars => [Abstract!Next]_(Abstract!logVars)
  <2> SUFFICES ASSUME IInv, [Next]_vars PROVE [Abstract!Next]_(Abstract!logVars)
    OBVIOUS
  <2>1. CASE UNCHANGED <<messages, lastSeq, lastRev, alive>>
    BY <2>1 DEF Abstract!logVars
  <2>2. ASSUME NEW p \in Procs, AppendCommit(p) PROVE Abstract!Next
    BY <2>2, AbsAppend
  <2>3. ASSUME NEW p \in Procs, ChangeCommit(p) PROVE Abstract!Next
    BY <2>3, AbsChange
  <2>4. CASE DropChannel
    BY <2>4 DEF DropChannel, Abstract!Next, Abstract!Close
  <2>5. QED
    BY <2>1, <2>2, <2>3, <2>4, RowsKept
<1>3. QED
  BY <1>1, <1>2, Invariance, PTL DEF Spec, ImplementsChannelLog, Abstract!Spec

(***************************************************************************)
(* One member's own view of a channel: the read cursor, the floor that a    *)
(* clear raises, and the copies the member's devices hold, for any devices  *)
(* and any number of messages, reads and clears.  Conversation is           *)
(* instantiated beside the log and shares nothing with it: its log only     *)
(* grows.                                                                   *)
(***************************************************************************)
CONSTANTS Devices, MaxSeq, MaxEvents
VARIABLES head, floor, cursor, caughtUp, held, up, pending, frames, opening, wire, page, clear,
          hidden, late, marked, lost, events

View == INSTANCE Conversation

USE DEF View!Log, View!NoFloor, View!NoRead, View!Greater, View!Lesser

LEMMA ViewTypesInit ==
  ASSUME MaxSeq \in Nat, MaxEvents \in Nat
  PROVE  View!Init => View!TypeOK
  BY DEF View!Init, View!TypeOK, View!Opening, View!Page, View!Clear, View!Idle, View!NoPage, View!NoClear

LEMMA ViewTypesStep ==
  ASSUME MaxSeq \in Nat, MaxEvents \in Nat
  PROVE  View!TypeOK /\ [View!Next]_View!vars => View!TypeOK'
<1> USE DEF View!TypeOK, View!account, View!socket, View!history
<1>1. SUFFICES ASSUME View!TypeOK, [View!Next]_View!vars PROVE View!TypeOK'
  OBVIOUS
<1>2. CASE View!Post \/ \E s \in View!Log : View!Publish(s)
  <2>1. CASE View!Post
    BY <1>1, <2>1 DEF View!Post
  <2>2. ASSUME NEW s \in View!Log, View!Publish(s) PROVE View!TypeOK'
    BY <1>1, <2>2 DEF View!Publish, View!Event
  <2>3. QED
    BY <1>2, <2>1, <2>2
<1>3. ASSUME NEW d \in Devices, View!Deliver(d) PROVE View!TypeOK'
  BY <1>1, <1>3 DEF View!Deliver
<1>4. ASSUME NEW d \in Devices, View!Connect(d) PROVE View!TypeOK'
  BY <1>1, <1>4 DEF View!Connect, View!Flushed
<1>5. ASSUME NEW d \in Devices, View!Drop(d) PROVE View!TypeOK'
  BY <1>1, <1>5 DEF View!Drop, View!Event
<1>6. ASSUME NEW d \in Devices, View!MarkRead(d) PROVE View!TypeOK'
  BY <1>1, <1>6 DEF View!MarkRead, View!Flushed, View!Event
<1>7. ASSUME NEW d \in Devices, View!OpenRead(d) PROVE View!TypeOK'
  <2>1. View!Unread \in 0..MaxSeq
    BY <1>1 DEF View!Unread
  <2>2. QED
    BY <1>1, <1>7, <2>1 DEF View!OpenRead, View!Opening
<1>8. ASSUME NEW d \in Devices, View!OpenAdvance(d) PROVE View!TypeOK'
  <2>1. opening[d] \in View!Opening
    BY <1>1
  <2>2. opening[d].seen \in 0..MaxSeq /\ [opening[d] EXCEPT !.at = "record"] \in View!Opening /\ View!Idle \in View!Opening
    BY <2>1 DEF View!Opening, View!Idle
  <2>3. opening' \in [Devices -> View!Opening]
    BY <1>1, <1>8, <2>2 DEF View!OpenAdvance
  <2>4. cursor' \in 0..MaxSeq
    BY <1>1, <1>8, <2>2 DEF View!OpenAdvance, View!Advanced
  <2>5. QED
    BY <1>1, <1>8, <2>3, <2>4 DEF View!OpenAdvance
<1>9. ASSUME NEW d \in Devices, View!OpenRecord(d) \/ View!OpenFails(d) PROVE View!TypeOK'
  <2>1. View!Idle \in View!Opening
    BY DEF View!Opening, View!Idle
  <2>2. CASE View!OpenRecord(d)
    <3>1. opening[d] \in View!Opening
      BY <1>1
    <3>2. opening[d].seen \in 0..MaxSeq /\ opening' \in [Devices -> View!Opening]
      BY <1>1, <2>1, <2>2, <3>1 DEF View!OpenRecord, View!Opening
    <3>3. caughtUp' \subseteq 0..MaxSeq
      BY <1>1, <2>2, <3>2 DEF View!OpenRecord
    <3>4. QED
      BY <1>1, <2>2, <3>2, <3>3 DEF View!OpenRecord
  <2>3. CASE View!OpenFails(d)
    BY <1>1, <2>1, <2>3 DEF View!OpenFails, View!Event
  <2>4. QED
    BY <1>9, <2>2, <2>3
<1>10. ASSUME NEW d \in Devices, View!AskPage(d) \/ View!StorePage(d) \/ View!PageFails(d) PROVE View!TypeOK'
  <2>1. page[d] \in View!Page
    BY <1>1
  <2>2. page[d].rows \subseteq View!Log /\ View!NoPage \in View!Page /\ [at |-> "asked", floor |-> View!ClearedFloor, rows |-> {}] \in View!Page
    BY <1>1, <2>1 DEF View!Page, View!NoPage, View!ClearedFloor
  <2>3. CASE View!AskPage(d)
    BY <1>1, <2>2, <2>3 DEF View!AskPage, View!Event
  <2>4. CASE View!StorePage(d)
    BY <1>1, <2>2, <2>4 DEF View!StorePage
  <2>5. CASE View!PageFails(d)
    BY <1>1, <2>2, <2>5 DEF View!PageFails, View!Event
  <2>6. QED
    BY <1>10, <2>3, <2>4, <2>5
<1>11. ASSUME NEW d \in Devices, View!ReadPage(d) PROVE View!TypeOK'
  <2>1. PICK asked \in SUBSET (1..head) :
          page' = [page EXCEPT ![d].at = "answered", ![d].rows = View!Answered(asked, page[d].floor)]
    BY <1>11 DEF View!ReadPage
  <2>2. View!Answered(asked, page[d].floor) \subseteq View!Log
    BY <1>1 DEF View!Answered, View!VisibleAbove
  <2>3. page[d] \in View!Page
    BY <1>1
  <2>4. [page[d] EXCEPT !.at = "answered", !.rows = View!Answered(asked, page[d].floor)] \in View!Page
    BY <2>2, <2>3 DEF View!Page
  <2>5. page' \in [Devices -> View!Page]
    BY <1>1, <2>1, <2>4
  <2>6. QED
    BY <1>1, <1>11, <2>5 DEF View!ReadPage
<1>12. ASSUME NEW d \in Devices, View!ClearRead(d) \/ View!ClearFails(d) PROVE View!TypeOK'
  <2>1. View!NoClear \in View!Clear /\ [at |-> "commit", upTo |-> head] \in View!Clear
    BY <1>1 DEF View!Clear, View!NoClear
  <2>2. CASE View!ClearRead(d)
    BY <1>1, <2>1, <2>2 DEF View!ClearRead, View!Event
  <2>3. CASE View!ClearFails(d)
    BY <1>1, <2>1, <2>3 DEF View!ClearFails, View!Event
  <2>4. QED
    BY <1>12, <2>2, <2>3
<1>13. ASSUME NEW d \in Devices, View!ClearCommit(d) PROVE View!TypeOK'
  BY <1>1, <1>13 DEF View!ClearCommit, View!Clear
<1>14. ASSUME NEW d \in Devices, View!Forget(d) PROVE View!TypeOK'
  BY <1>1, <1>14 DEF View!Forget, View!Clear, View!NoClear, View!ClearedFloor, View!VisibleAbove
<1>15. CASE UNCHANGED View!vars
  BY <1>1, <1>15 DEF View!vars
<1>16. QED
  BY <1>1, <1>2, <1>3, <1>4, <1>5, <1>6, <1>7, <1>8, <1>9, <1>10, <1>11, <1>12, <1>13, <1>14, <1>15
  DEF View!Next, View!Device, View!Server

(* No variable leaves its type.                                               *)
THEOREM ViewTypes ==
  ASSUME MaxSeq \in Nat, MaxEvents \in Nat
  PROVE  View!Spec => []View!TypeOK
<1>1. QED
  BY ViewTypesInit, ViewTypesStep, PTL DEF View!Spec
-----------------------------------------------------------------------------
(* The badge.  A clear and a read both take their number from the channel's    *)
(* head, and the clear writes it to floor and cursor alike: the cursor is      *)
(* never under the floor, so what lies above the cursor lies above the floor.  *)

BadgeInv ==
    /\ View!ClearedFloor <= cursor /\ cursor <= head
    /\ \A d \in Devices : clear[d].upTo <= head /\ opening[d].seen <= head

LEMMA BadgeInit ==
  ASSUME MaxSeq \in Nat, MaxEvents \in Nat
  PROVE  View!Init => BadgeInv
  BY DEF View!Init, BadgeInv, View!ClearedFloor, View!Idle, View!NoClear

LEMMA BadgeStep ==
  ASSUME MaxSeq \in Nat, MaxEvents \in Nat
  PROVE  View!TypeOK /\ BadgeInv /\ [View!Next]_View!vars => BadgeInv'
<1> USE DEF BadgeInv, View!ClearedFloor, View!account, View!socket, View!history
<1>1. SUFFICES ASSUME View!TypeOK, BadgeInv, [View!Next]_View!vars PROVE BadgeInv'
  OBVIOUS
<1>2. /\ head \in 0..MaxSeq /\ cursor \in 0..MaxSeq /\ floor \in View!NoFloor..MaxSeq
      /\ opening \in [Devices -> View!Opening] /\ clear \in [Devices -> View!Clear]
      /\ \A d \in Devices : opening[d].seen \in 0..MaxSeq /\ clear[d].upTo \in 0..MaxSeq
  BY <1>1 DEF View!TypeOK, View!Opening, View!Clear
<1>3. CASE UNCHANGED <<floor, cursor, clear, opening>> /\ (head' = head \/ head' = head + 1)
  BY <1>1, <1>2, <1>3
<1>4. CASE View!Post \/ \E s \in View!Log : View!Publish(s)
  BY <1>3, <1>4 DEF View!Post, View!Publish
<1>5. ASSUME NEW d \in Devices,
             View!Deliver(d) \/ View!Connect(d) \/ View!Drop(d) \/ View!MarkRead(d) \/ View!AskPage(d) \/ View!StorePage(d)
             \/ View!PageFails(d) \/ View!ReadPage(d)
      PROVE  BadgeInv'
  BY <1>3, <1>5 DEF View!Deliver, View!Connect, View!Drop, View!MarkRead, View!AskPage, View!StorePage, View!PageFails, View!ReadPage
<1>6. ASSUME NEW d \in Devices, View!OpenRead(d) PROVE BadgeInv'
  BY <1>1, <1>2, <1>6 DEF View!OpenRead
<1>7. ASSUME NEW d \in Devices, View!OpenAdvance(d) PROVE BadgeInv'
  <2>1. cursor' = View!Advanced(opening[d].seen) /\ floor' = floor /\ head' = head /\ clear' = clear
    BY <1>7 DEF View!OpenAdvance
  <2>2. \A e \in Devices : opening'[e].seen \in {0, opening[e].seen}
    BY <1>2, <1>7 DEF View!OpenAdvance, View!Idle, View!Opening
  <2>3. QED
    BY <1>1, <1>2, <2>1, <2>2 DEF View!Advanced
<1>8. ASSUME NEW d \in Devices, View!OpenRecord(d) \/ View!OpenFails(d) PROVE BadgeInv'
  <2>1. opening' = [opening EXCEPT ![d] = View!Idle] /\ UNCHANGED <<head, floor, cursor, clear>>
    BY <1>8 DEF View!OpenRecord, View!OpenFails
  <2>2. QED
    BY <1>1, <1>2, <2>1 DEF View!Idle
<1>9. ASSUME NEW d \in Devices, View!ClearRead(d) PROVE BadgeInv'
  BY <1>1, <1>2, <1>9 DEF View!ClearRead
<1>10. ASSUME NEW d \in Devices, View!ClearCommit(d) PROVE BadgeInv'
  <2>1. /\ floor' = clear[d].upTo /\ cursor' = clear[d].upTo /\ UNCHANGED <<head, opening>>
        /\ \A e \in Devices : clear'[e].upTo = clear[e].upTo
    BY <1>2, <1>10 DEF View!ClearCommit, View!Clear
  <2>2. QED
    BY <1>1, <1>2, <2>1
<1>11. ASSUME NEW d \in Devices, View!Forget(d) \/ View!ClearFails(d) PROVE BadgeInv'
  <2>1. clear' = [clear EXCEPT ![d] = View!NoClear] /\ UNCHANGED <<head, floor, cursor, opening>>
    BY <1>11 DEF View!Forget, View!ClearFails
  <2>2. QED
    BY <1>1, <1>2, <2>1 DEF View!NoClear
<1>12. CASE UNCHANGED View!vars
  BY <1>3, <1>12 DEF View!vars
<1>13. QED
  BY <1>1, <1>4, <1>5, <1>6, <1>7, <1>8, <1>9, <1>10, <1>11, <1>12 DEF View!Next, View!Device, View!Server

(* The badge and the list never claim an unread message that a cleared view    *)
(* cannot show.                                                                *)
THEOREM CountedIsVisible ==
  ASSUME MaxSeq \in Nat, MaxEvents \in Nat
  PROVE  View!Spec => []View!UnreadIsVisible
<1>1. View!TypeOK /\ BadgeInv => View!UnreadIsVisible
  <2>1. SUFFICES ASSUME View!TypeOK, BadgeInv, View!Unread > 0
                 PROVE  View!Listed /\ \A s \in (cursor + 1)..head : s \in View!VisibleAbove(View!ClearedFloor)
    BY DEF View!UnreadIsVisible
  <2>2. head \in 0..MaxSeq /\ cursor \in 0..MaxSeq /\ View!ClearedFloor \in 0..MaxSeq
    BY <2>1 DEF View!TypeOK, View!ClearedFloor
  <2>3. View!ClearedFloor <= cursor /\ cursor < head
    BY <2>1, <2>2 DEF BadgeInv, View!Unread
  <2>4. \A s \in (cursor + 1)..head : s \in View!VisibleAbove(View!ClearedFloor)
    BY <2>2, <2>3 DEF View!VisibleAbove
  <2>5. head \in View!VisibleAbove(View!ClearedFloor)
    BY <2>2, <2>3, <2>4
  <2>6. QED
    BY <2>4, <2>5 DEF View!Listed
<1>2. QED
  BY <1>1, ViewTypesInit, ViewTypesStep, BadgeInit, BadgeStep, PTL DEF View!Spec
-----------------------------------------------------------------------------
(* What was cleared.  A floor that stood when a context was loaded bounds the  *)
(* rows of its read; hidden never exceeds the floor that stands; what was on   *)
(* its way when a device forgot, or is published to it after, is in late.      *)

OnItsWay(d, s) ==
    \/ s \in held[d] \/ s \in wire[d]
    \/ page[d].at = "asked" /\ s > page[d].floor
    \/ page[d].at = "answered" /\ s \in page[d].rows

AwayInv ==
    /\ \A d \in Devices : hidden[d] <= View!ClearedFloor
    /\ \A d \in Devices : \A s \in 1..hidden[d] : OnItsWay(d, s) => s \in late[d]
    /\ \A d \in Devices : page[d].at # "none" => \A s \in page[d].rows : s > page[d].floor

LEMMA AwayInit ==
  ASSUME MaxSeq \in Nat, MaxEvents \in Nat
  PROVE  View!Init => AwayInv
  BY DEF View!Init, AwayInv, OnItsWay, View!ClearedFloor, View!NoPage

(* A step that moves neither floor nor memory, and sends to a device only what *)
(* is above its floor or was on its way.                                       *)
LEMMA AwayKept ==
  ASSUME MaxSeq \in Nat, MaxEvents \in Nat, View!TypeOK, View!TypeOK', AwayInv, UNCHANGED <<hidden, late>>, View!ClearedFloor' = View!ClearedFloor,
         \A d \in Devices : page'[d].at # "none" => \A s \in page'[d].rows : s > page'[d].floor,
         \A d \in Devices, s \in View!Log : OnItsWay(d, s)' => OnItsWay(d, s) \/ s > View!ClearedFloor
  PROVE  AwayInv'
<1>1. \A d \in Devices : hidden[d] \in 0..MaxSeq /\ hidden'[d] = hidden[d] /\ late'[d] = late[d]
  BY DEF View!TypeOK
<1>2. \A d \in Devices : hidden[d] <= View!ClearedFloor
  BY DEF AwayInv
<1>3. View!ClearedFloor \in 0..MaxSeq
  BY DEF View!TypeOK, View!ClearedFloor
<1>4. ASSUME NEW d \in Devices, NEW s \in 1..hidden[d], OnItsWay(d, s)' PROVE s \in late[d]
  <2>1. s \in View!Log /\ ~(s > View!ClearedFloor)
    BY <1>1, <1>2, <1>3
  <2>2. OnItsWay(d, s)
    BY <1>4, <2>1
  <2>3. QED
    BY <2>2 DEF AwayInv
<1>5. QED
  BY <1>1, <1>2, <1>4 DEF AwayInv

LEMMA AwayStep ==
  ASSUME MaxSeq \in Nat, MaxEvents \in Nat
  PROVE  View!TypeOK /\ View!TypeOK' /\ BadgeInv /\ AwayInv /\ [View!Next]_View!vars => AwayInv'
<1> USE DEF View!account, View!socket, View!history
<1>1. SUFFICES ASSUME View!TypeOK, View!TypeOK', BadgeInv, AwayInv, [View!Next]_View!vars PROVE AwayInv'
  OBVIOUS
<1>2. /\ head \in 0..MaxSeq /\ View!ClearedFloor \in 0..MaxSeq /\ View!ClearedFloor <= head
      /\ wire \in [Devices -> SUBSET View!Log] /\ held \in [Devices -> SUBSET View!Log]
      /\ page \in [Devices -> View!Page] /\ clear \in [Devices -> View!Clear]
      /\ hidden \in [Devices -> 0..MaxSeq] /\ late \in [Devices -> SUBSET View!Log]
  BY <1>1 DEF View!TypeOK, BadgeInv, View!ClearedFloor
<1>3. CASE UNCHANGED <<floor, hidden, late, held, wire, page>>
  BY <1>1, <1>3 DEF AwayInv, OnItsWay, View!ClearedFloor
<1>4. ASSUME NEW s \in View!Log, View!Publish(s) PROVE AwayInv'
  <2>1. UNCHANGED <<hidden, page, held, floor>> /\ View!ClearedFloor' = View!ClearedFloor
    BY <1>4 DEF View!Publish, View!ClearedFloor
  <2>2. \A d \in Devices : /\ wire'[d] = IF d \in up THEN wire[d] \union {s} ELSE wire[d]
                           /\ late'[d] = IF d \in up /\ s <= hidden[d] THEN late[d] \union {s} ELSE late[d]
    BY <1>4 DEF View!Publish
  <2>3. ASSUME NEW d \in Devices, NEW t \in 1..hidden[d], OnItsWay(d, t)' PROVE t \in late'[d]
    <3>1. CASE OnItsWay(d, t)
      BY <1>1, <2>2, <3>1 DEF AwayInv
    <3>2. CASE t = s /\ d \in up
      <4>1. hidden[d] \in 0..MaxSeq
        BY <1>2
      <4>2. s <= hidden[d]
        BY <3>2, <4>1
      <4>3. late'[d] = late[d] \union {s}
        BY <2>2, <3>2, <4>2
      <4>4. QED
        BY <3>2, <4>3
    <3>3. QED
      BY <2>1, <2>2, <2>3, <3>1, <3>2 DEF OnItsWay
  <2>4. QED
    BY <1>1, <2>1, <2>3 DEF AwayInv
<1>5. ASSUME NEW d \in Devices, View!Deliver(d) \/ View!Drop(d) PROVE AwayInv'
  <2>1. UNCHANGED <<hidden, late, page, floor>>
    BY <1>5 DEF View!Deliver, View!Drop
  <2>2. \A e \in Devices : held'[e] \subseteq held[e] \union wire[e] /\ wire'[e] \subseteq wire[e]
    BY <1>2, <1>5 DEF View!Deliver, View!Drop
  <2>3. \A e \in Devices, s \in View!Log : OnItsWay(e, s)' => OnItsWay(e, s) \/ s > View!ClearedFloor
    BY <2>1, <2>2 DEF OnItsWay
  <2>4. \A e \in Devices : page'[e].at # "none" => \A s \in page'[e].rows : s > page'[e].floor
    BY <1>1, <2>1 DEF AwayInv
  <2>5. QED
    BY <1>1, <2>1, <2>3, <2>4, AwayKept DEF View!ClearedFloor
<1>6. CASE View!Post
  BY <1>3, <1>6 DEF View!Post
<1>14. ASSUME NEW d \in Devices, View!Connect(d) \/ View!MarkRead(d) \/ View!OpenRead(d) \/ View!OpenAdvance(d) \/ View!OpenRecord(d)
                                \/ View!OpenFails(d) \/ View!ClearRead(d) \/ View!ClearFails(d)
      PROVE  AwayInv'
  BY <1>3, <1>14 DEF View!Connect, View!MarkRead, View!OpenRead, View!OpenAdvance, View!OpenRecord, View!OpenFails, View!ClearRead, View!ClearFails
<1>7. ASSUME NEW d \in Devices, View!AskPage(d) \/ View!PageFails(d) PROVE AwayInv'
  <2>1. UNCHANGED <<hidden, late, held, wire, floor>>
    BY <1>7 DEF View!AskPage, View!PageFails
  <2>2. \A e \in Devices : page'[e] \in {page[e], View!NoPage, [at |-> "asked", floor |-> View!ClearedFloor, rows |-> {}]}
    BY <1>2, <1>7 DEF View!AskPage, View!PageFails
  <2>3. \A e \in Devices, s \in View!Log : OnItsWay(e, s)' => OnItsWay(e, s) \/ s > View!ClearedFloor
    BY <2>1, <2>2 DEF OnItsWay, View!NoPage
  <2>4. \A e \in Devices : page'[e].at # "none" => \A s \in page'[e].rows : s > page'[e].floor
    BY <1>1, <2>2 DEF AwayInv, View!NoPage
  <2>5. QED
    BY <1>1, <2>1, <2>3, <2>4, AwayKept DEF View!ClearedFloor
<1>8. ASSUME NEW d \in Devices, View!ReadPage(d) PROVE AwayInv'
  <2>1. UNCHANGED <<hidden, late, held, wire, floor>> /\ page[d].at = "asked" /\ page[d] \in View!Page
    BY <1>2, <1>8 DEF View!ReadPage
  <2>2. PICK asked \in SUBSET (1..head) :
          page' = [page EXCEPT ![d].at = "answered", ![d].rows = View!Answered(asked, page[d].floor)]
    BY <1>8 DEF View!ReadPage
  <2>3. /\ page'[d].at = "answered" /\ page'[d].floor = page[d].floor
        /\ page'[d].rows = View!Answered(asked, page[d].floor)
        /\ \A e \in Devices \ {d} : page'[e] = page[e]
    BY <1>2, <2>1, <2>2 DEF View!Page
  <2>4. \A s \in page'[d].rows : s > page[d].floor
    BY <2>3 DEF View!Answered, View!VisibleAbove
  <2>5. \A e \in Devices, s \in View!Log : OnItsWay(e, s)' => OnItsWay(e, s) \/ s > View!ClearedFloor
    BY <2>1, <2>3, <2>4 DEF OnItsWay
  <2>6. \A e \in Devices : page'[e].at # "none" => \A s \in page'[e].rows : s > page'[e].floor
    BY <1>1, <2>3, <2>4 DEF AwayInv
  <2>7. QED
    BY <1>1, <2>1, <2>5, <2>6, AwayKept DEF View!ClearedFloor
<1>9. ASSUME NEW d \in Devices, View!StorePage(d) PROVE AwayInv'
  <2>1. UNCHANGED <<hidden, late, wire, floor>> /\ page[d].at = "answered"
    BY <1>9 DEF View!StorePage
  <2>2. /\ held'[d] = held[d] \union page[d].rows /\ page'[d] = View!NoPage
        /\ \A e \in Devices \ {d} : held'[e] = held[e] /\ page'[e] = page[e]
    BY <1>2, <1>9 DEF View!StorePage
  <2>3. \A e \in Devices, s \in View!Log : OnItsWay(e, s)' => OnItsWay(e, s) \/ s > View!ClearedFloor
    BY <2>1, <2>2 DEF OnItsWay, View!NoPage
  <2>4. \A e \in Devices : page'[e].at # "none" => \A s \in page'[e].rows : s > page'[e].floor
    BY <1>1, <2>2 DEF AwayInv, View!NoPage
  <2>5. QED
    BY <1>1, <2>1, <2>3, <2>4, AwayKept DEF View!ClearedFloor
<1>10. ASSUME NEW d \in Devices, View!ClearCommit(d) PROVE AwayInv'
  <2>1. /\ clear[d].upTo \in 0..MaxSeq /\ View!ClearedFloor' = clear[d].upTo
    BY <1>2, <1>10 DEF View!ClearCommit, View!ClearedFloor, View!Clear
  <2>2. /\ UNCHANGED <<late, held, wire, page>>
        /\ \A e \in Devices : hidden'[e] = View!Lesser(hidden[e], clear[d].upTo)
    BY <1>10 DEF View!ClearCommit
  <2>3. \A e \in Devices : /\ hidden'[e] <= hidden[e] /\ hidden'[e] <= clear[d].upTo
                           /\ 1..hidden'[e] \subseteq 1..hidden[e]
    BY <1>2, <2>1, <2>2
  <2>4. QED
    BY <1>1, <2>1, <2>2, <2>3 DEF AwayInv, OnItsWay
<1>11. ASSUME NEW d \in Devices, View!Forget(d) PROVE AwayInv'
  <2>1. UNCHANGED <<head, floor, wire, page>>
    BY <1>11 DEF View!Forget
  <2>2. /\ held'[d] = {} /\ hidden'[d] = View!Lesser(clear[d].upTo, View!ClearedFloor)
        /\ late'[d] = {s \in wire[d] \union (IF page[d].at = "none" THEN {} ELSE View!VisibleAbove(page[d].floor)) :
                         s <= hidden'[d]}
        /\ \A e \in Devices \ {d} : held'[e] = held[e] /\ hidden'[e] = hidden[e] /\ late'[e] = late[e]
    BY <1>2, <1>11 DEF View!Forget
  <2>3. clear[d].upTo \in 0..MaxSeq
    BY <1>2 DEF View!Clear
  <2>4. hidden'[d] <= View!ClearedFloor /\ 1..hidden'[d] \subseteq 1..head
    BY <1>2, <2>2, <2>3
  <2>5. ASSUME NEW s \in 1..hidden'[d], OnItsWay(d, s)' PROVE s \in late'[d]
    <3>1. s \in 1..head /\ s <= hidden'[d]
      BY <1>2, <2>2, <2>3, <2>4
    <3>2. CASE s \in wire[d]
      BY <2>2, <3>2
    <3>3. CASE page[d].at = "asked" /\ s > page[d].floor
      BY <2>2, <3>1, <3>3 DEF View!VisibleAbove
    <3>4. CASE page[d].at = "answered" /\ s \in page[d].rows
      BY <1>1, <2>2, <3>1, <3>4 DEF View!VisibleAbove, AwayInv
    <3>5. QED
      BY <2>1, <2>2, <2>5, <3>2, <3>3, <3>4 DEF OnItsWay
  <2>6. View!ClearedFloor' = View!ClearedFloor
    BY <2>1 DEF View!ClearedFloor
  <2>7. \A e \in Devices : \A s \in 1..hidden'[e] : OnItsWay(e, s)' => s \in late'[e]
    BY <1>1, <2>1, <2>2, <2>5 DEF AwayInv, OnItsWay
  <2>8. QED
    BY <1>1, <2>1, <2>2, <2>4, <2>6, <2>7 DEF AwayInv
<1>12. CASE UNCHANGED View!vars
  BY <1>3, <1>12 DEF View!vars
<1>13. QED
  BY <1>1, <1>4, <1>5, <1>6, <1>7, <1>8, <1>9, <1>10, <1>11, <1>12, <1>14 DEF View!Next, View!Device, View!Server

(* After a device has cleared a chat, no read it asks for later, of any kind   *)
(* and overlapping anything, stores a cleared row again: only what was on its  *)
(* way at that moment, or is published after it, can come back.                *)
THEOREM ClearedStays ==
  ASSUME MaxSeq \in Nat, MaxEvents \in Nat
  PROVE  View!Spec => []View!ClearedStaysAway
<1>1. AwayInv => View!ClearedStaysAway
  BY DEF AwayInv, OnItsWay, View!ClearedStaysAway
<1>2. QED
  BY <1>1, ViewTypesInit, ViewTypesStep, BadgeInit, BadgeStep, AwayInit, AwayStep, PTL DEF View!Spec
-----------------------------------------------------------------------------
(* Reads.  A mark never runs ahead of the log, so any frame of the device,     *)
(* handled later, reads a head at least as high: the seq in it is not needed.  *)

MarkInv == View!ReadsAreKept /\ \A d \in Devices : marked[d] <= head /\ pending[d] <= head

LEMMA MarkInit ==
  ASSUME MaxSeq \in Nat, MaxEvents \in Nat
  PROVE  View!Init => MarkInv
  BY DEF View!Init, MarkInv, View!ReadsAreKept

LEMMA MarkStep ==
  ASSUME MaxSeq \in Nat, MaxEvents \in Nat
  PROVE  View!TypeOK /\ View!TypeOK' /\ MarkInv /\ [View!Next]_View!vars => MarkInv'
<1> USE DEF MarkInv, View!ReadsAreKept, View!account, View!socket, View!history
<1>1. SUFFICES ASSUME View!TypeOK, View!TypeOK', MarkInv, [View!Next]_View!vars PROVE MarkInv'
  OBVIOUS
<1>2. /\ head \in 0..MaxSeq /\ cursor \in 0..MaxSeq /\ lost \subseteq Devices
      /\ marked \in [Devices -> 0..MaxSeq] /\ pending \in [Devices -> View!NoRead..MaxSeq]
      /\ frames \in [Devices -> SUBSET (0..MaxSeq)] /\ opening \in [Devices -> View!Opening]
      /\ clear \in [Devices -> View!Clear]
  BY <1>1 DEF View!TypeOK
<1>3. CASE UNCHANGED <<cursor, pending, frames, opening, marked, lost>> /\ (head' = head \/ head' = head + 1)
  BY <1>1, <1>2, <1>3
<1>4. CASE View!Post \/ \E s \in View!Log : View!Publish(s)
  BY <1>3, <1>4 DEF View!Post, View!Publish
<1>5. ASSUME NEW d \in Devices,
             View!Deliver(d) \/ View!AskPage(d) \/ View!ReadPage(d) \/ View!StorePage(d) \/ View!PageFails(d) \/ View!ClearRead(d)
             \/ View!Forget(d) \/ View!ClearFails(d)
      PROVE  MarkInv'
  BY <1>3, <1>5 DEF View!Deliver, View!AskPage, View!ReadPage, View!StorePage, View!PageFails, View!ClearRead, View!Forget, View!ClearFails
<1>6. ASSUME NEW d \in Devices, View!Connect(d) PROVE MarkInv'
  <2>1. UNCHANGED <<head, cursor, opening, marked, lost>> /\ View!Flushed(d, pending[d], TRUE)
    BY <1>6 DEF View!Connect
  <2>2. /\ pending'[d] = View!NoRead /\ (pending[d] # View!NoRead => frames'[d] # {}) /\ frames[d] \subseteq frames'[d]
        /\ \A e \in Devices \ {d} : pending'[e] = pending[e] /\ frames'[e] = frames[e]
    BY <1>2, <2>1 DEF View!Flushed
  <2>3. QED
    BY <1>1, <1>2, <2>1, <2>2
<1>7. ASSUME NEW d \in Devices, View!Drop(d) PROVE MarkInv'
  <2>1. UNCHANGED <<head, cursor, opening, marked, pending>>
    BY <1>7 DEF View!Drop
  <2>2. /\ lost \subseteq lost' /\ (frames'[d] = frames[d] \/ d \in lost')
        /\ \A e \in Devices \ {d} : frames'[e] = frames[e]
    BY <1>2, <1>7 DEF View!Drop
  <2>3. QED
    BY <1>1, <1>2, <2>1, <2>2
<1>8. ASSUME NEW d \in Devices, View!MarkRead(d) PROVE MarkInv'
  <2>1. UNCHANGED <<head, cursor, opening, lost>>
    BY <1>8 DEF View!MarkRead
  <2>2. PICK upTo \in 0..head : /\ View!Flushed(d, View!Greater(pending[d], upTo), d \in up)
                                /\ marked' = [marked EXCEPT ![d] = View!Greater(@, upTo)]
    BY <1>8 DEF View!MarkRead
  <2>3. /\ marked'[d] = View!Greater(marked[d], upTo)
        /\ \A e \in Devices \ {d} : /\ marked'[e] = marked[e] /\ pending'[e] = pending[e]
                                    /\ frames'[e] = frames[e]
    BY <1>2, <2>2 DEF View!Flushed
  <2>4. marked'[d] <= head
    BY <1>1, <1>2, <2>3
  <2>5. CASE d \in up
    <3>1. frames'[d] # {} /\ pending'[d] = View!NoRead
      BY <1>2, <2>2, <2>5 DEF View!Flushed
    <3>2. QED
      BY <1>1, <1>2, <2>1, <2>3, <2>4, <3>1
  <2>6. CASE d \notin up
    <3>1. pending'[d] = View!Greater(pending[d], upTo) /\ frames'[d] = frames[d]
      BY <1>2, <2>2, <2>6 DEF View!Flushed
    <3>2. \/ marked'[d] <= cursor \/ d \in lost \/ pending'[d] >= marked'[d] \/ frames'[d] # {}
          \/ opening[d].at = "advance" /\ opening[d].seen >= marked'[d]
      <4>1. CASE upTo >= marked[d]
        BY <1>2, <2>3, <3>1, <4>1
      <4>2. CASE ~(upTo >= marked[d])
        BY <1>1, <1>2, <2>3, <3>1, <4>2
      <4>3. QED
        BY <4>1, <4>2
    <3>3. pending'[d] <= head
      BY <1>1, <1>2, <3>1
    <3>4. QED
      BY <1>1, <1>2, <2>1, <2>3, <2>4, <3>2, <3>3
  <2>7. QED
    BY <2>5, <2>6
<1>9. ASSUME NEW d \in Devices, View!OpenRead(d) PROVE MarkInv'
  <2>1. UNCHANGED <<head, cursor, marked, pending, lost>>
    BY <1>9 DEF View!OpenRead
  <2>2. /\ opening'[d].at = "advance" /\ opening'[d].seen = head
        /\ \A e \in Devices \ {d} : opening'[e] = opening[e] /\ frames'[e] = frames[e]
    BY <1>2, <1>9 DEF View!OpenRead
  <2>3. QED
    BY <1>1, <1>2, <2>1, <2>2
<1>10. ASSUME NEW d \in Devices, View!OpenAdvance(d) PROVE MarkInv'
  <2>1. UNCHANGED <<head, marked, pending, lost, frames>> /\ cursor' = View!Advanced(opening[d].seen)
    BY <1>10 DEF View!OpenAdvance
  <2>2. opening[d].seen \in 0..MaxSeq /\ \A e \in Devices \ {d} : opening'[e] = opening[e]
    BY <1>2, <1>10 DEF View!OpenAdvance, View!Opening
  <2>3. cursor' >= cursor /\ cursor' >= opening[d].seen
    BY <1>2, <2>1, <2>2 DEF View!Advanced
  <2>4. \A e \in Devices : marked[e] <= cursor => marked[e] <= cursor'
    BY <1>1, <1>2, <2>1, <2>2, <2>3 DEF View!Advanced
  <2>5. opening[d].seen >= marked[d] => marked[d] <= cursor'
    BY <1>2, <2>1, <2>2, <2>3 DEF View!Advanced
  <2>6. QED
    BY <1>1, <2>1, <2>2, <2>4, <2>5
<1>11. ASSUME NEW d \in Devices, View!OpenRecord(d) \/ View!OpenFails(d) PROVE MarkInv'
  <2>1. CASE View!OpenRecord(d)
    <3>1. UNCHANGED <<head, cursor, marked, pending, lost, frames>> /\ opening[d].at = "record"
      BY <2>1 DEF View!OpenRecord
    <3>2. \A e \in Devices \ {d} : opening'[e] = opening[e]
      BY <1>2, <2>1 DEF View!OpenRecord
    <3>3. QED
      BY <1>1, <3>1, <3>2
  <2>2. CASE View!OpenFails(d)
    <3>1. UNCHANGED <<head, cursor, marked, pending, frames>> /\ lost' = lost \union {d}
      BY <2>2 DEF View!OpenFails
    <3>2. \A e \in Devices \ {d} : opening'[e] = opening[e]
      BY <1>2, <2>2 DEF View!OpenFails
    <3>3. QED
      BY <1>1, <3>1, <3>2
  <2>3. QED
    BY <1>11, <2>1, <2>2
<1>12. ASSUME NEW d \in Devices, View!ClearCommit(d) PROVE MarkInv'
  <2>1. UNCHANGED <<head, pending, frames, opening, lost>> /\ cursor' = clear[d].upTo
    BY <1>12 DEF View!ClearCommit
  <2>2. clear[d].upTo \in 0..MaxSeq
    BY <1>2 DEF View!Clear
  <2>3. \A e \in Devices : marked'[e] = IF clear[d].upTo < cursor THEN View!Lesser(marked[e], clear[d].upTo) ELSE marked[e]
    BY <1>12 DEF View!ClearCommit
  <2>4. ASSUME NEW e \in Devices PROVE marked'[e] <= marked[e] /\ (marked[e] <= cursor => marked'[e] <= cursor')
    BY <1>2, <2>1, <2>2, <2>3
  <2>5. \A e \in Devices : opening[e].seen \in 0..MaxSeq /\ marked[e] \in 0..MaxSeq /\ marked'[e] \in 0..MaxSeq
    BY <1>1, <1>2 DEF View!Opening, View!TypeOK
  <2>6. QED
    BY <1>1, <1>2, <2>1, <2>4, <2>5
<1>13. CASE UNCHANGED View!vars
  BY <1>3, <1>13 DEF View!vars
<1>14. QED
  BY <1>1, <1>4, <1>5, <1>6, <1>7, <1>8, <1>9, <1>10, <1>11, <1>12, <1>13 DEF View!Next, View!Device, View!Server

(* A read that a device made reaches the cursor or is still carried towards    *)
(* it, unless its own socket or handler failed.                                *)
THEOREM ReadsKept ==
  ASSUME MaxSeq \in Nat, MaxEvents \in Nat
  PROVE  View!Spec => []View!ReadsAreKept
<1>1. MarkInv => View!ReadsAreKept
  BY DEF MarkInv
<1>2. QED
  BY <1>1, ViewTypesInit, ViewTypesStep, MarkInit, MarkStep, PTL DEF View!Spec
===============================================================================
