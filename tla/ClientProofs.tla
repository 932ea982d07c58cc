----------------------------- MODULE ClientProofs -----------------------------
(***************************************************************************)
(* What holds of the two halves of a client (packages/client-core): of its  *)
(* sends (SendQueue), for any messages, attempts and sockets, and of its    *)
(* copy of a channel (ChatSync), for any page size and any number of        *)
(* reconciliations at once.                                                 *)
(***************************************************************************)
EXTENDS SendQueue, SequenceTheorems, FiniteSetTheorems, WellFoundedInduction, TLAPS

(***************************************************************************)
(* The client object: its type, and what its methods make of it.            *)
(***************************************************************************)

LoopStates == [at : {"off", "connecting", "syncing", "backoff"}, left : Int,
               socket : Sockets \union {NoSocket}]

Clients ==
  [outbox : [Messages -> {"none", "pending", "failed"}], waiters : SUBSET Messages,
   call : [Messages -> Calls], tries : [Messages -> 0..MaxAttempts], got : [Messages -> Nat],
   socket : Sockets \union {NoSocket}, authenticated : BOOLEAN,
   handshake : Loops \union {Nobody}, alarms : SUBSET Sockets, connecting : BOOLEAN,
   reconnecting : BOOLEAN, timer : BOOLEAN, closedByUs : BOOLEAN, loop : [Loops -> LoopStates]]

\* A loop that a send has started is at work only while the send is out for it, and
\* the handshake that is pending belongs to a loop that waits for one.
LoopsOK(c) ==
  /\ \A m \in Messages : c.loop[m].at # "off" => c.call[m] = "recovering"
  /\ c.handshake # Nobody => c.loop[c.handshake].at = "connecting"

ClientOK(c) == c \in Clients /\ LoopsOK(c)

\* What a method that answers no message and writes none may change.
Calm(c, d) ==
  /\ d.outbox = c.outbox /\ d.waiters = c.waiters /\ d.got = c.got /\ d.tries = c.tries
  /\ d.socket \in {c.socket, NoSocket}
  /\ \A m \in Messages : \/ d.call[m] = c.call[m]
                         \/ c.call[m] = "recovering" /\ d.call[m] = "pausing"

LEMMA Names == /\ Nobody \notin Loops /\ NoSocket \notin Sockets
               /\ "start" \notin Messages /\ "app" \notin Messages /\ "timer" \notin Messages
  BY SendQueueAssumption DEF SendQueueAssumption, Loops, Nobody, NoSocket, Sockets

LEMMA ScheduledShape ==
  ASSUME NEW c, ClientOK(c)
  PROVE  ClientOK(Scheduled(c)) /\ Calm(c, Scheduled(c))
         /\ Scheduled(c).handshake = c.handshake /\ Scheduled(c).call = c.call
<1> DEFINE d == [c EXCEPT !.timer = TRUE]
<1>1. d \in Clients
  BY DEF ClientOK, Clients
<1>2. LoopsOK(d)
  BY DEF ClientOK, Clients, LoopsOK
<1>3. Calm(c, d) /\ Calm(c, c) /\ d.handshake = c.handshake /\ d.call = c.call
  BY DEF ClientOK, Clients, Calm
<1>4. Scheduled(c) = c \/ Scheduled(c) = d
  BY DEF Scheduled
<1> QED BY <1>1, <1>2, <1>3, <1>4 DEF ClientOK

LEMMA FinishedShape ==
  ASSUME NEW c, ClientOK(c), NEW l \in Loops, c.handshake # l, NEW how, how # "up",
         l \in Messages => c.call[l] = "recovering"
  PROVE  ClientOK(Finished(c, l, how)) /\ Calm(c, Finished(c, l, how))
         /\ Finished(c, l, how).handshake = c.handshake
<1> DEFINE d == [c EXCEPT !.reconnecting = l = "start" /\ @, !.loop[l] = Off]
           e == [d EXCEPT !.call[l] = "pausing"]
<1>1. Off \in LoopStates /\ Off.at = "off"
  BY DEF Off, LoopStates
<1>2. d \in Clients
  BY <1>1 DEF ClientOK, Clients
<1>3. LoopsOK(d) /\ Calm(c, d) /\ d.handshake = c.handshake /\ d.call = c.call /\ d.loop = [c.loop EXCEPT ![l] = Off]
  BY <1>1, Names DEF ClientOK, Clients, LoopsOK, Calm, Loops
<1> HIDE DEF d
<1>4. CASE l \in Messages
  <2>1. e \in Clients
    BY <1>2, <1>4 DEF Clients, Calls
  <2>2. LoopsOK(e)
    BY <1>1, <1>2, <1>3, <1>4 DEF ClientOK, Clients, LoopsOK, Loops
  <2>3. Calm(c, e) /\ e.handshake = c.handshake
    BY <1>2, <1>3, <1>4 DEF Clients, Calm
  <2>4. Finished(c, l, how) = e
    BY <1>4 DEF Finished, d
  <2> QED BY <2>1, <2>2, <2>3, <2>4 DEF ClientOK
<1>5. CASE l \notin Messages
  <2>1. Finished(c, l, how) = d \/ Finished(c, l, how) = Scheduled(d)
    BY <1>5 DEF Finished, d
  <2>2. ClientOK(d)
    BY <1>2, <1>3 DEF ClientOK
  <2>3. Calm(c, Scheduled(d)) /\ Scheduled(d).handshake = c.handshake
    BY <2>2, <1>3, ScheduledShape DEF Calm
  <2> QED BY <2>1, <2>2, <2>3, <1>3, ScheduledShape
<1> QED BY <1>4, <1>5

LEMMA AttemptFailedShape ==
  ASSUME NEW c, ClientOK(c), NEW l \in Loops, c.handshake # l,
         l \in Messages => c.call[l] = "recovering"
  PROVE  ClientOK(AttemptFailed(c, l)) /\ Calm(c, AttemptFailed(c, l))
         /\ AttemptFailed(c, l).handshake = c.handshake
<1> DEFINE b == [at |-> "backoff", left |-> c.loop[l].left - 1, socket |-> NoSocket]
           d == [c EXCEPT !.loop[l] = b]
<1>1. CASE c.loop[l].left > 1
  <2>1. c.loop[l].left \in Int
    BY DEF ClientOK, Clients, LoopStates
  <2>2. b \in LoopStates
    BY <2>1 DEF LoopStates
  <2>3. d \in Clients
    BY <2>2 DEF ClientOK, Clients
  <2>4. LoopsOK(d) /\ Calm(c, d) /\ d.handshake = c.handshake
    BY Names DEF ClientOK, Clients, LoopsOK, Calm, Loops
  <2>5. AttemptFailed(c, l) = d
    BY <1>1 DEF AttemptFailed, ClientOK, Clients
  <2> QED BY <2>3, <2>4, <2>5 DEF ClientOK
<1>2. CASE ~(c.loop[l].left > 1)
  <2>1. AttemptFailed(c, l) = Finished(c, l, "down")
    BY <1>2 DEF AttemptFailed
  <2> QED BY <2>1, FinishedShape
<1> QED BY <1>1, <1>2

LEMMA HandshakeFailedShape ==
  ASSUME NEW c, ClientOK(c), NEW how, how # "up"
  PROVE  ClientOK(HandshakeFailed(c, how)) /\ Calm(c, HandshakeFailed(c, how))
<1>1. CASE c.handshake = Nobody
  BY <1>1 DEF HandshakeFailed, Calm
<1>2. CASE c.handshake # Nobody
  <2> DEFINE l == c.handshake
             s == c.loop[l].socket
             d == [c EXCEPT !.handshake = Nobody, !.connecting = FALSE, !.alarms = @ \ {s},
                            !.socket = IF @ = s THEN NoSocket ELSE @,
                            !.authenticated = @ /\ c.socket # s]
  <2>1. l \in Loops /\ c.loop[l].at = "connecting"
    BY <1>2 DEF ClientOK, Clients, LoopsOK
  <2>2. l \in Messages => c.call[l] = "recovering"
    BY <2>1 DEF ClientOK, LoopsOK
  <2>3. d \in Clients
    BY DEF ClientOK, Clients
  <2>4. LoopsOK(d) /\ Calm(c, d) /\ d.handshake # l /\ d.call = c.call
    BY <2>1, Names DEF ClientOK, Clients, LoopsOK, Calm
  <2>5. HandshakeFailed(c, how) = Finished(d, l, how) \/ HandshakeFailed(c, how) = AttemptFailed(d, l)
    BY <1>2 DEF HandshakeFailed
  <2> HIDE DEF d, s
  <2>6. \A e : Calm(d, e) => Calm(c, e)
    BY <2>4 DEF Calm
  <2>7. ClientOK(d)
    BY <2>3, <2>4 DEF ClientOK
  <2>8. CASE HandshakeFailed(c, how) = Finished(d, l, how)
    BY <2>1, <2>2, <2>4, <2>6, <2>7, <2>8, FinishedShape
  <2>9. CASE HandshakeFailed(c, how) = AttemptFailed(d, l)
    BY <2>1, <2>2, <2>4, <2>6, <2>7, <2>9, AttemptFailedShape
  <2> QED BY <2>5, <2>8, <2>9
<1> QED BY <1>1, <1>2

LEMMA HandshakeDoneShape ==
  ASSUME NEW c, ClientOK(c)
  PROVE  ClientOK(HandshakeDone(c)) /\ Calm(c, HandshakeDone(c))
<1> DEFINE l == c.handshake
           a == [c EXCEPT !.authenticated = TRUE]
           d == [a EXCEPT !.handshake = Nobody, !.connecting = FALSE,
                          !.alarms = @ \ {c.loop[l].socket}, !.loop[l].at = "syncing"]
<1>1. a \in Clients /\ LoopsOK(a) /\ Calm(c, a)
  BY DEF ClientOK, Clients, LoopsOK, Calm
<1>2. CASE l = Nobody
  BY <1>1, <1>2 DEF HandshakeDone, ClientOK
<1>3. CASE l # Nobody
  <2>1. l \in Loops /\ c.loop[l].at = "connecting" /\ c.loop[l] \in LoopStates
    BY <1>3 DEF ClientOK, Clients, LoopsOK
  <2>2. [c.loop[l] EXCEPT !.at = "syncing"] \in LoopStates
    BY <2>1 DEF LoopStates
  <2>3. d \in Clients
    BY <1>1, <2>2 DEF ClientOK, Clients
  <2>4. LoopsOK(d) /\ Calm(c, d)
    BY <2>1, Names DEF ClientOK, Clients, LoopsOK, Calm
  <2>5. HandshakeDone(c) = d
    BY <1>3 DEF HandshakeDone
  <2> QED BY <2>3, <2>4, <2>5 DEF ClientOK
<1> QED BY <1>2, <1>3

\* connect() is called by a loop that is at work already, or that no send has started.
LEMMA DialShape ==
  ASSUME NEW c, ClientOK(c), NEW l \in Loops, NEW s \in Sockets, NEW left \in Int,
         l \in Messages => c.call[l] = "recovering"
  PROVE  LET d == Dial(c, l, s, left)
         IN  /\ ClientOK(d) /\ d.socket = s /\ d.call = c.call
             /\ d.outbox = c.outbox /\ d.waiters = c.waiters /\ d.got = c.got
<1> DEFINE b == [at |-> "connecting", left |-> left, socket |-> s]
           d == Dial(c, l, s, left)
<1>1. b \in LoopStates
  BY DEF LoopStates
<1>2. d \in Clients
  BY <1>1 DEF ClientOK, Clients, Dial
<1>3. LoopsOK(d)
  BY Names DEF ClientOK, Clients, LoopsOK, Dial
<1>4. /\ d.socket = s /\ d.call = c.call
      /\ d.outbox = c.outbox /\ d.waiters = c.waiters /\ d.got = c.got
  BY DEF ClientOK, Clients, Dial
<1> QED BY <1>2, <1>3, <1>4 DEF ClientOK

LEMMA AllRejectedShape ==
  ASSUME NEW c, ClientOK(c)
  PROVE  LET d == AllRejected(c)
         IN  /\ ClientOK(d) /\ d.socket = c.socket /\ d.waiters = {}
             /\ d.outbox = c.outbox /\ d.got = c.got /\ d.handshake = c.handshake
             /\ \A m \in Messages :
                   d.call[m] = IF m \in c.waiters /\ c.call[m] = "waiting" THEN "pausing"
                               ELSE c.call[m]
<1> DEFINE d == AllRejected(c)
<1>1. d \in Clients
  BY DEF ClientOK, Clients, AllRejected, Calls
<1>2. LoopsOK(d)
  BY DEF ClientOK, Clients, LoopsOK, AllRejected
<1> QED BY <1>1, <1>2 DEF ClientOK, Clients, AllRejected

\* Once a socket has closed nobody waits: every waiter has been rejected.
LEMMA SocketClosedShape ==
  ASSUME NEW c, ClientOK(c), NEW s \in Sockets
  PROVE  LET d == SocketClosed(c, s)
         IN  /\ ClientOK(d) /\ d.waiters = {} /\ d.outbox = c.outbox /\ d.got = c.got
             /\ d.socket \in {c.socket, NoSocket} \ {s}
             /\ \A m \in Messages :
                   \/ d.call[m] = c.call[m] /\ ~(m \in c.waiters /\ c.call[m] = "waiting")
                   \/ c.call[m] \in {"recovering", "waiting"} /\ d.call[m] = "pausing"
<1> DEFINE woken == AllRejected(c)
           w == [woken EXCEPT !.socket = NoSocket, !.authenticated = FALSE]
<1>1. /\ ClientOK(woken) /\ woken.socket = c.socket /\ woken.waiters = {}
      /\ woken.outbox = c.outbox /\ woken.got = c.got /\ woken.handshake = c.handshake
      /\ \A m \in Messages :
            woken.call[m] = IF m \in c.waiters /\ c.call[m] = "waiting" THEN "pausing"
                            ELSE c.call[m]
  BY AllRejectedShape
<1> HIDE DEF woken
<1>2. CASE c.socket # s
  <2>1. SocketClosed(c, s) = woken
    BY <1>2 DEF SocketClosed, woken
  <2> QED BY <1>1, <1>2, <2>1
<1>3. CASE c.socket = s
  <2>1. SocketClosed(c, s) = HandshakeFailed(Scheduled(w), "down")
    BY <1>3 DEF SocketClosed, woken
  <2>2. w \in Clients
    BY <1>1 DEF ClientOK, Clients
  <2>3. LoopsOK(w) /\ w.waiters = {} /\ w.outbox = c.outbox /\ w.got = c.got
        /\ w.socket = NoSocket /\ w.call = woken.call
    BY <1>1 DEF ClientOK, Clients, LoopsOK
  <2> HIDE DEF w
  <2>4. ClientOK(Scheduled(w)) /\ Calm(w, Scheduled(w)) /\ Scheduled(w).call = w.call
    BY <2>2, <2>3, ScheduledShape DEF ClientOK
  <2> DEFINE v == Scheduled(w)
             d == HandshakeFailed(v, "down")
  <2> HIDE DEF v
  <2>5. ClientOK(d) /\ Calm(v, d)
    BY <2>4, HandshakeFailedShape DEF v
  <2> HIDE DEF d
  <2>6. d.waiters = {} /\ d.outbox = c.outbox /\ d.got = c.got /\ d.socket = NoSocket
    BY <2>3, <2>4, <2>5 DEF Calm, v
  <2>7. \A m \in Messages : d.call[m] = woken.call[m] \/ (woken.call[m] = "recovering" /\ d.call[m] = "pausing")
    BY <2>3, <2>4, <2>5 DEF Calm, v
  <2>8. SocketClosed(c, s) = d
    BY <2>1 DEF v, d
  <2> QED BY <1>1, <1>3, <2>5, <2>6, <2>7, <2>8, Names
<1> QED BY <1>2, <1>3

LEMMA RejectedShape ==
  ASSUME NEW c, ClientOK(c), NEW m \in Messages, NEW terminal \in BOOLEAN
  PROVE  LET d == Rejected(c, m, terminal)
         IN  /\ ClientOK(d) /\ d.socket = c.socket /\ d.got = c.got /\ d.waiters = c.waiters \ {m}
             /\ \A n \in Messages \ {m} : d.call[n] = c.call[n] /\ d.outbox[n] = c.outbox[n]
             /\ \/ d.call[m] = c.call[m] /\ d.outbox[m] = c.outbox[m]
                   /\ ~(m \in c.waiters /\ c.call[m] = "waiting")
                \/ c.call[m] = "waiting" /\ d.call[m] = "refused" /\ d.outbox[m] = "none"
                \/ c.call[m] = "waiting" /\ d.call[m] = "pausing" /\ d.outbox[m] = c.outbox[m]
<1> DEFINE d1 == [c EXCEPT !.waiters = @ \ {m}]
           d2 == [c EXCEPT !.waiters = @ \ {m}, !.call[m] = "refused", !.outbox[m] = "none"]
           d3 == [c EXCEPT !.waiters = @ \ {m}, !.call[m] = "pausing"]
<1>1. CASE m \notin c.waiters
  BY <1>1 DEF Rejected, ClientOK, Clients
<1>2. CASE m \in c.waiters /\ c.call[m] # "waiting"
  <2>1. Rejected(c, m, terminal) = d1
    BY <1>2 DEF Rejected
  <2>2. d1 \in Clients /\ LoopsOK(d1)
    BY DEF ClientOK, Clients, LoopsOK
  <2> QED BY <1>2, <2>1, <2>2 DEF ClientOK, Clients
<1>3. CASE m \in c.waiters /\ c.call[m] = "waiting" /\ terminal
  <2>1. Rejected(c, m, terminal) = d2
    BY <1>3 DEF Rejected
  <2>2. d2 \in Clients
    BY DEF ClientOK, Clients, Calls
  <2>3. LoopsOK(d2)
    BY <1>3 DEF ClientOK, Clients, LoopsOK
  <2>4. /\ d2.socket = c.socket /\ d2.got = c.got /\ d2.waiters = c.waiters \ {m}
        /\ \A n \in Messages \ {m} : d2.call[n] = c.call[n] /\ d2.outbox[n] = c.outbox[n]
        /\ d2.call[m] = "refused" /\ d2.outbox[m] = "none"
    BY DEF ClientOK, Clients
  <2> HIDE DEF d2
  <2> QED BY <1>3, <2>1, <2>2, <2>3, <2>4 DEF ClientOK
<1>4. CASE m \in c.waiters /\ c.call[m] = "waiting" /\ ~terminal
  <2>1. Rejected(c, m, terminal) = d3
    BY <1>4 DEF Rejected
  <2>2. d3 \in Clients
    BY DEF ClientOK, Clients, Calls
  <2>3. LoopsOK(d3)
    BY <1>4 DEF ClientOK, Clients, LoopsOK
  <2> QED BY <1>4, <2>1, <2>2, <2>3 DEF ClientOK, Clients
<1> QED BY <1>1, <1>2, <1>3, <1>4

\* flushOne, for a call that is not at work in a loop.
LEMMA FlushedShape ==
  ASSUME NEW c, ClientOK(c), NEW m \in Messages, c.loop[m].at = "off"
  PROVE  LET d == Flushed(c, m)
         IN  /\ ClientOK(d) /\ d.socket = c.socket /\ d.got = c.got /\ d.outbox = c.outbox
             /\ \A n \in Messages \ {m} : d.call[n] = c.call[n]
             /\ c.waiters \subseteq d.waiters
             /\ \/ d.call[m] = "pausing"
                \/ d.call[m] = "waiting" /\ m \in d.waiters /\ Wrote(c, m)
<1> DEFINE d1 == [c EXCEPT !.call[m] = "pausing"]
           how == IF Usable(c) THEN "waiting" ELSE "pausing"
           d2 == [c EXCEPT !.waiters = @ \union {m}, !.call[m] = how]
<1>1. CASE c.outbox[m] = "none"
  <2>1. Flushed(c, m) = d1
    BY <1>1 DEF Flushed
  <2>2. d1 \in Clients
    BY DEF ClientOK, Clients, Calls
  <2>3. LoopsOK(d1)
    BY DEF ClientOK, Clients, LoopsOK
  <2> QED BY <2>1, <2>2, <2>3 DEF ClientOK, Clients
<1>2. CASE c.outbox[m] # "none"
  <2>1. Flushed(c, m) = d2
    BY <1>2 DEF Flushed
  <2>2. how \in {"waiting", "pausing"} /\ (how = "waiting" => Wrote(c, m))
    BY <1>2 DEF Wrote
  <2> HIDE DEF how
  <2>3. d2 \in Clients
    BY <2>2 DEF ClientOK, Clients, Calls
  <2>4. LoopsOK(d2)
    BY DEF ClientOK, Clients, LoopsOK
  <2> QED BY <2>1, <2>2, <2>3, <2>4 DEF ClientOK, Clients
<1> QED BY <1>1, <1>2

(***************************************************************************)
(* The wire: what can be under way.  An ack always tells the truth about    *)
(* the log, which only grows.                                               *)
(***************************************************************************)

Acks == {a \in [t : {"msg.ack"}, m : Messages, seq : Nat] :
           a.seq \in DOMAIN log /\ log[a.seq] = a.m}

Frames ==
  [t : {"auth.ok"}] \union [t : {"auth.err"}, code : {"refused", "timeout"}]
  \union [t : {"msg.err"}, m : Messages, code : {"moment", "refused", "malformed"}]
  \union Acks

WireOK ==
  /\ conn \in [Sockets -> {"free", "open", "ending", "closing", "broken", "gone"}]
  /\ up \in [Sockets -> Seq(Messages)] /\ down \in [Sockets -> Seq(Frames)]
  /\ accepted \subseteq Sockets /\ applying \subseteq Acks
  /\ log \in Seq(Messages)
  /\ \A i, j \in DOMAIN log : log[i] = log[j] => i = j

\* The client's socket has not reported its end yet.
SocketOK == client.socket # NoSocket =>
                conn[client.socket] \in {"open", "ending", "closing", "broken"}

\* The properties, for one message.
Kept(m) == client.call[m] # "new" /\ client.outbox[m] = "none" =>
               m \in ToSet(log) \/ client.call[m] = "refused"

Stored(m) == client.call[m] = "sent" =>
                 client.got[m] \in DOMAIN log /\ log[client.got[m]] = m

\* Something on socket s will wake the send.
Alive(m, s) ==
  \/ conn[s] \in {"ending", "closing", "broken"}
  \/ /\ conn[s] = "open"
     /\ m \in ToSet(up[s]) \/ \E f \in ToSet(down[s]) : f.t \in {"msg.ack", "msg.err"} /\ f.m = m

Coming(m) ==
  Unanswered(m) \/ (\E ack \in applying : ack.m = m) \/ \E s \in Sockets : Alive(m, s)

Woken(m) == client.call[m] = "waiting" => m \in client.waiters /\ Coming(m)

IInv ==
  /\ ClientOK(client) /\ WireOK /\ SocketOK
  /\ \A m \in Messages : Kept(m) /\ Stored(m) /\ Woken(m)

LEMMA ToSetIs == ASSUME NEW S, NEW s \in Seq(S)
                 PROVE  ToSet(s) \subseteq S /\ \A x : x \in ToSet(s) <=> \E i \in DOMAIN s : s[i] = x
  BY DEF ToSet

LEMMA ToSetAppend == ASSUME NEW S, NEW s \in Seq(S), NEW e \in S
                     PROVE  /\ Append(s, e) \in Seq(S)
                            /\ ToSet(Append(s, e)) = ToSet(s) \union {e}
<1>1. Append(s, e) \in Seq(S) /\ DOMAIN Append(s, e) = 1..(Len(s) + 1) /\ DOMAIN s = 1..Len(s)
      /\ Len(s) \in Nat
  OBVIOUS
<1>2. \A i \in 1..(Len(s) + 1) : Append(s, e)[i] = IF i = Len(s) + 1 THEN e ELSE s[i]
  OBVIOUS
<1>3. \A i \in 1..(Len(s) + 1) : i \in 1..Len(s) \/ i = Len(s) + 1
  BY <1>1
<1>4. 1..Len(s) \subseteq 1..(Len(s) + 1) /\ Len(s) + 1 \in 1..(Len(s) + 1) /\ Len(s) + 1 \notin 1..Len(s)
  BY <1>1
<1>5. \A x : x \in ToSet(Append(s, e)) <=> \E i \in 1..(Len(s) + 1) : Append(s, e)[i] = x
  BY <1>1, ToSetIs
<1>6. \A x : x \in ToSet(s) <=> \E i \in 1..Len(s) : s[i] = x
  BY <1>1, ToSetIs
<1> HIDE <1>1
<1>7. \A x : x \in ToSet(Append(s, e)) <=> x \in ToSet(s) \/ x = e
  BY <1>2, <1>3, <1>4, <1>5, <1>6
<1> QED BY <1>1, <1>7

LEMMA ToSetTail == ASSUME NEW S, NEW s \in Seq(S), s # <<>>
                   PROVE  /\ Head(s) \in S /\ Head(s) \in ToSet(s) /\ Tail(s) \in Seq(S)
                          /\ ToSet(s) = ToSet(Tail(s)) \union {Head(s)}
<1>1. Len(s) \in Nat /\ Len(s) >= 1 /\ DOMAIN s = 1..Len(s) /\ Head(s) = s[1] /\ Tail(s) \in Seq(S)
      /\ DOMAIN Tail(s) = 1..(Len(s) - 1)
  BY EmptySeq
<1>2. \A i \in 1..(Len(s) - 1) : Tail(s)[i] = s[i + 1] /\ i + 1 \in 1..Len(s)
  BY <1>1
<1>3. \A i \in 1..Len(s) : i = 1 \/ (i - 1 \in 1..(Len(s) - 1) /\ Tail(s)[i - 1] = s[i])
  BY <1>1
<1>4. \A x : x \in ToSet(Tail(s)) <=> \E i \in 1..(Len(s) - 1) : Tail(s)[i] = x
  <2>1. DOMAIN Tail(s) = 1..(Len(s) - 1)
    BY <1>1
  <2> QED BY <2>1 DEF ToSet
<1>5. \A x : x \in ToSet(s) <=> \E i \in 1..Len(s) : s[i] = x
  BY <1>1, ToSetIs
<1>6. 1 \in 1..Len(s)
  BY <1>1
<1>7. \A x : x \in ToSet(s) <=> x \in ToSet(Tail(s)) \/ x = s[1]
  BY <1>2, <1>3, <1>4, <1>5, <1>6
<1> QED BY <1>1, <1>5, <1>6, <1>7

LEMMA FrameKinds ==
  ASSUME NEW f \in Frames
  PROVE  /\ f.t \in {"auth.ok", "auth.err", "msg.err", "msg.ack"}
         /\ f.t = "msg.ack" => f \in Acks
         /\ f.t = "auth.err" => f.code \in {"refused", "timeout"}
         /\ f.t \in {"msg.ack", "msg.err"} => f.m \in Messages
  BY DEF Frames, Acks

\* The log grows by a message it does not have, and no ack becomes untrue.
LEMMA LogGrows ==
  ASSUME WireOK, log' = log \/ \E m \in Messages : m \notin ToSet(log) /\ log' = Append(log, m)
  PROVE  /\ log' \in Seq(Messages) /\ \A i, j \in DOMAIN log' : log'[i] = log'[j] => i = j
         /\ ToSet(log) \subseteq ToSet(log')
         /\ \A i \in DOMAIN log : i \in DOMAIN log' /\ log'[i] = log[i]
         /\ Acks \subseteq Acks' /\ Frames \subseteq Frames'
<1>1. CASE log' = log
  BY <1>1 DEF WireOK, Acks, Frames
<1>2. CASE \E m \in Messages : m \notin ToSet(log) /\ log' = Append(log, m)
  <2>1. PICK m \in Messages : m \notin ToSet(log) /\ log' = Append(log, m)
    BY <1>2
  <2>2. log \in Seq(Messages) /\ Len(log) \in Nat /\ DOMAIN log = 1..Len(log)
    BY DEF WireOK
  <2>3. log' \in Seq(Messages) /\ ToSet(log) \subseteq ToSet(log')
    <3>1. Append(log, m) \in Seq(Messages) /\ ToSet(Append(log, m)) = ToSet(log) \union {m}
      BY <2>2, ToSetAppend
    <3> QED BY <2>1, <3>1
  <2>4. DOMAIN log' = 1..(Len(log) + 1) /\ log'[Len(log) + 1] = m
        /\ \A i \in 1..Len(log) : log'[i] = log[i]
    <3> DEFINE a == Append(log, m)
    <3>1. DOMAIN a = 1..(Len(log) + 1)
      BY <2>2
    <3>2. a[Len(log) + 1] = m /\ \A i \in 1..Len(log) : a[i] = log[i]
      BY <2>2
    <3> QED BY <2>1, <3>1, <3>2
  <2>5. \A i \in DOMAIN log : log[i] # m
    BY <2>1, <2>2, ToSetIs
  <2>9. \A i \in 1..(Len(log) + 1) : i \in 1..Len(log) \/ i = Len(log) + 1
    BY <2>2
  <2>10. \A i \in 1..Len(log) : i \in 1..(Len(log) + 1)
    BY <2>2
  <2>6. \A i, j \in DOMAIN log' : log'[i] = log'[j] => i = j
    BY <2>2, <2>4, <2>5, <2>9 DEF WireOK
  <2>7. \A i \in DOMAIN log : i \in DOMAIN log' /\ log'[i] = log[i]
    BY <2>2, <2>4, <2>10
  <2>8. Acks \subseteq Acks'
    BY <2>7 DEF Acks
  <2> QED BY <2>3, <2>6, <2>7, <2>8 DEF Frames
<1> QED BY <1>1, <1>2

\* A step that drops no entry and resolves no send keeps what the first two properties say.
Steady(m) ==
  /\ client.outbox[m] # "none" => client'.outbox[m] # "none"
  /\ client'.outbox[m] = "none" => client.outbox[m] = "none"
  /\ client'.got[m] = client.got[m]
  /\ \/ client'.call[m] = client.call[m]
     \/ client.call[m] \in {"pausing", "recovering", "waiting"}
        /\ client'.call[m] \in {"pausing", "recovering", "waiting", "failed"}

LEMMA SteadyKeeps ==
  ASSUME NEW m, Kept(m), Stored(m), Steady(m),
         ToSet(log) \subseteq ToSet(log'), \A i \in DOMAIN log : i \in DOMAIN log' /\ log'[i] = log[i]
  PROVE  Kept(m)' /\ Stored(m)'
  BY DEF Kept, Stored, Steady

\* What steps of the client and the network do to the sockets: what will wake a send
\* is not lost, except where a frame is read.
WireStep ==
  /\ \A t \in Sockets :
        /\ \/ conn'[t] = conn[t]
           \/ conn[t] \in {"open", "ending"} /\ conn'[t] \in {"ending", "closing", "broken"}
           \/ conn[t] = "free" /\ conn'[t] = "open"
        /\ ToSet(up[t]) \subseteq ToSet(up'[t])
        /\ conn'[t] = "open" /\ conn[t] = "open" => ToSet(down[t]) \subseteq ToSet(down'[t])
  /\ verdicts \subseteq verdicts' /\ applying \subseteq applying'

LEMMA WireStepKeeps ==
  ASSUME WireStep, NEW m
  PROVE  Coming(m) => Coming(m)'
<1>1. \A s \in Sockets : Alive(m, s) => Alive(m, s)'
  BY DEF WireStep, Alive
<1>2. Unanswered(m) => Unanswered(m)'
  BY DEF WireStep, Unanswered
<1> QED BY <1>1, <1>2 DEF Coming, WireStep

LEMMA ReadableType ==
  ASSUME NEW T, NEW d \in [Sockets -> Seq(T)]
  PROVE  Readable(d) \in [Sockets -> Seq(T)]
         /\ \A t \in Sockets : conn'[t] = "open" => Readable(d)[t] = d[t]
<1>1. <<>> \in Seq(T)
  OBVIOUS
<1> QED BY <1>1 DEF Readable

LEMMA SteadyStep ==
  ASSUME IInv, ClientOK(client'), WireOK', SocketOK', ToSet(log) \subseteq ToSet(log'),
         \A i \in DOMAIN log : i \in DOMAIN log' /\ log'[i] = log[i],
         \A m \in Messages : Steady(m),
         \A m \in Messages : client'.call[m] = "waiting" => m \in client'.waiters /\ Coming(m)'
  PROVE  IInv'
<1>1. \A m \in Messages : Kept(m)' /\ Stored(m)'
  BY SteadyKeeps DEF IInv
<1>2. \A m \in Messages : Woken(m)'
  BY DEF Woken
<1>3. ClientOK(client)'
  BY DEF ClientOK, Clients, LoopsOK, LoopStates, Loops, Sockets
<1> QED BY <1>1, <1>2, <1>3 DEF IInv

LEMMA InitInv == Init => IInv
<1> SUFFICES ASSUME Init PROVE IInv
  OBVIOUS
<1>1. 1 \in Sockets /\ Off \in LoopStates /\ Off.at = "off"
  BY SendQueueAssumption DEF SendQueueAssumption, Sockets, Off, LoopStates
<1>2. 0 \in 0..MaxAttempts
  BY SendQueueAssumption DEF SendQueueAssumption
<1>3. Fresh \in Clients
  BY <1>1, <1>2 DEF Fresh, Clients, Calls
<1>4. Fresh.loop = [l \in Loops |-> Off] /\ Fresh.handshake = Nobody /\ Fresh.call = [m \in Messages |-> "new"]
  BY DEF Fresh
<1>5. ClientOK(Fresh)
  BY <1>1, <1>3, <1>4 DEF ClientOK, LoopsOK, Loops
<1>6. "start" \in Loops /\ "start" \notin Messages
  BY Names DEF Loops
<1>7. /\ ClientOK(client) /\ client.socket = 1 /\ client.call = [m \in Messages |-> "new"]
  BY <1>1, <1>4, <1>5, <1>6, DialShape DEF Init
<1>8. WireOK
  BY DEF Init, WireOK
<1>9. SocketOK
  BY <1>1, <1>7 DEF Init, SocketOK
<1>10. \A m \in Messages : Kept(m) /\ Stored(m) /\ Woken(m)
  BY <1>7 DEF Kept, Stored, Woken
<1> QED BY <1>7, <1>8, <1>9, <1>10 DEF IInv

LEMMA StutterInv == ASSUME IInv, UNCHANGED vars PROVE IInv'
<1>1. client' = client /\ conn' = conn /\ up' = up /\ down' = down /\ accepted' = accepted
      /\ applying' = applying /\ log' = log /\ verdicts' = verdicts
  BY DEF vars, wire
<1>2. WireOK' /\ SocketOK' /\ ClientOK(client')
  BY <1>1 DEF IInv, WireOK, SocketOK, Frames, Acks
<1>3. WireStep
  BY <1>1 DEF WireStep
<1>4. \A m \in Messages : Coming(m) => Coming(m)'
  BY <1>3, WireStepKeeps
<1>5. \A m \in Messages : Steady(m)
  BY <1>1 DEF Steady
<1> QED BY <1>1, <1>2, <1>4, <1>5, SteadyStep DEF IInv, Woken

(***************************************************************************)
(* The client's own steps.                                                 *)
(***************************************************************************)

\* The step of a socket's end that leaves the log and the acks alone.
LEMMA WireTypes ==
  ASSUME IInv, log' = log, applying' = applying, accepted' \subseteq Sockets,
         conn' \in [Sockets -> {"free", "open", "ending", "closing", "broken", "gone"}],
         up' \in [Sockets -> Seq(Messages)], down' \in [Sockets -> Seq(Frames)]
  PROVE  WireOK'
  BY DEF IInv, WireOK, Frames, Acks

\* A frame is written to a socket, or not.
LEMMA WriteTypes ==
  ASSUME WireOK, NEW s, NEW m \in Messages, NEW P,
         up' = IF P THEN [up EXCEPT ![s] = Append(@, m)] ELSE up
  PROVE  /\ up' \in [Sockets -> Seq(Messages)]
         /\ \A t \in Sockets : ToSet(up[t]) \subseteq ToSet(up'[t])
         /\ P /\ s \in Sockets => m \in ToSet(up'[s])
<1>1. up \in [Sockets -> Seq(Messages)]
  BY DEF WireOK
<1>2. \A t \in Sockets : up'[t] = up[t] \/ (t = s /\ P /\ up'[t] = Append(up[t], m))
  BY <1>1
<1>3. \A t \in Sockets : /\ Append(up[t], m) \in Seq(Messages)
                        /\ ToSet(Append(up[t], m)) = ToSet(up[t]) \union {m}
  BY <1>1, ToSetAppend
<1>4. P /\ s \in Sockets => up'[s] = Append(up[s], m)
  BY <1>1
<1>5. up' = [t \in Sockets |-> up'[t]]
  BY <1>1
<1> QED BY <1>1, <1>2, <1>3, <1>4, <1>5

LEMMA EnqueueInv == ASSUME IInv, NEW m \in Messages, Enqueue(m) PROVE IInv'
<1>1. /\ client.call[m] = "new" /\ client' = [client EXCEPT !.outbox[m] = "pending", !.call[m] = "pausing"]
      /\ conn' = conn /\ up' = up /\ down' = down /\ accepted' = accepted
      /\ applying' = applying /\ log' = log /\ verdicts' = verdicts
  BY DEF Enqueue, wire
<1>2. client \in Clients /\ LoopsOK(client) /\ client' \in Clients
  BY <1>1 DEF IInv, ClientOK, Clients, Calls
<1>3. LoopsOK(client')
  BY <1>1, <1>2 DEF Clients, LoopsOK
<1>4. WireOK' /\ SocketOK'
  <2>1. client'.socket = client.socket
    BY <1>1, <1>2 DEF Clients
  <2> QED BY <1>1, <2>1, WireTypes DEF IInv, WireOK, SocketOK
<1>5. \A n \in Messages : Coming(n) => Coming(n)'
  BY <1>1, WireStepKeeps DEF WireStep
<1>6. /\ client'.call[m] = "pausing" /\ client'.outbox[m] = "pending"
      /\ client'.waiters = client.waiters /\ client'.got = client.got
      /\ \A n \in Messages \ {m} : client'.call[n] = client.call[n] /\ client'.outbox[n] = client.outbox[n]
  BY <1>1, <1>2 DEF Clients
<1>7. \A n \in Messages : Kept(n)' /\ Stored(n)' /\ Woken(n)'
  <2> SUFFICES ASSUME NEW n \in Messages PROVE Kept(n)' /\ Stored(n)' /\ Woken(n)'
    OBVIOUS
  <2>1. Kept(n) /\ Stored(n) /\ Woken(n)
    BY DEF IInv
  <2>2. CASE n = m
    BY <1>6, <2>2 DEF Kept, Stored, Woken
  <2>3. CASE n # m
    BY <1>1, <1>5, <1>6, <2>1, <2>3 DEF Kept, Stored, Woken
  <2> QED BY <2>2, <2>3
<1> QED BY <1>2, <1>3, <1>4, <1>7 DEF IInv, ClientOK

LEMMA ExhaustInv == ASSUME IInv, NEW m \in Messages, Exhaust(m) PROVE IInv'
<1>1. /\ client.call[m] = "pausing"
      /\ client' = [client EXCEPT !.call[m] = "failed",
                                  !.outbox[m] = IF @ = "pending" THEN "failed" ELSE @]
      /\ conn' = conn /\ up' = up /\ down' = down /\ accepted' = accepted
      /\ applying' = applying /\ log' = log /\ verdicts' = verdicts
  BY DEF Exhaust, wire
<1>2. client \in Clients /\ LoopsOK(client)
  BY DEF IInv, ClientOK
<1>3. client' \in Clients
  BY <1>1, <1>2 DEF Clients, Calls
<1>4. LoopsOK(client')
  BY <1>1, <1>2 DEF Clients, LoopsOK
<1>5. WireOK' /\ SocketOK'
  <2>1. client'.socket = client.socket
    BY <1>1, <1>2 DEF Clients
  <2> QED BY <1>1, <2>1, WireTypes DEF IInv, WireOK, SocketOK
<1>6. \A n \in Messages : Coming(n) => Coming(n)'
  BY <1>1, WireStepKeeps DEF WireStep
<1>7. \A n \in Messages : Steady(n)
  BY <1>1, <1>2 DEF Steady, Clients
<1>8. \A n \in Messages : client'.call[n] = "waiting" => client.call[n] = "waiting" /\ client'.waiters = client.waiters
  BY <1>1, <1>2 DEF Clients
<1> QED BY <1>1, <1>3, <1>4, <1>5, <1>6, <1>7, <1>8, SteadyStep DEF IInv, Woken, ClientOK

LEMMA TapInv == ASSUME IInv, NEW m \in Messages, Tap(m) PROVE IInv'
<1>1. /\ client' = [client EXCEPT !.waiters = @ \union {m}]
      /\ up' = IF Usable(client) THEN [up EXCEPT ![client.socket] = Append(@, m)] ELSE up
      /\ conn' = conn /\ down' = down /\ accepted' = accepted
      /\ applying' = applying /\ log' = log /\ verdicts' = verdicts
  BY DEF Tap
<1>2. client \in Clients /\ LoopsOK(client) /\ WireOK
  BY DEF IInv, ClientOK
<1>3. client' \in Clients /\ LoopsOK(client')
  BY <1>1, <1>2 DEF Clients, LoopsOK
<1>4. up' \in [Sockets -> Seq(Messages)] /\ \A s \in Sockets : ToSet(up[s]) \subseteq ToSet(up'[s])
  BY <1>1, <1>2, WriteTypes
<1>5. WireOK' /\ SocketOK'
  <2>1. client'.socket = client.socket
    BY <1>1, <1>2 DEF Clients
  <2> QED BY <1>1, <1>4, <2>1, WireTypes DEF IInv, WireOK, SocketOK
<1>6. \A n \in Messages : Coming(n) => Coming(n)'
  BY <1>1, <1>4, WireStepKeeps DEF WireStep
<1>7. \A n \in Messages : Steady(n)
  BY <1>1, <1>2 DEF Steady, Clients
<1>8. client'.call = client.call /\ client.waiters \subseteq client'.waiters
  BY <1>1, <1>2 DEF Clients
<1> QED BY <1>1, <1>3, <1>5, <1>6, <1>7, <1>8, SteadyStep DEF IInv, Woken, ClientOK

LEMMA SocketKeeps ==
  ASSUME IInv, WireStep, client'.socket \in {client.socket, NoSocket}
  PROVE  SocketOK'
<1>1. client.socket \in Sockets \union {NoSocket}
  BY DEF IInv, ClientOK, Clients
<1> QED BY <1>1 DEF IInv, SocketOK, WireStep

\* A socket replaces the one there was.
LEMMA DialledStep ==
  ASSUME IInv, NEW s \in Sockets, New(s), conn' = Dialled(s), down' = Readable(down),
         up' = up, accepted' = accepted, applying' = applying, log' = log, verdicts' = verdicts
  PROVE  WireOK' /\ WireStep /\ conn'[s] = "open"
<1>1. WireOK
  BY DEF IInv
<1>2. conn' = [t \in Sockets |-> IF t = s THEN "open"
                                 ELSE IF t = client.socket THEN Abandoned(conn[t]) ELSE conn[t]]
  BY DEF Dialled
<1>3. \A t \in Sockets : \/ conn'[t] = conn[t]
                         \/ conn[t] \in {"open", "ending"} /\ conn'[t] \in {"ending", "closing", "broken"}
                         \/ conn[t] = "free" /\ conn'[t] = "open"
  BY <1>2 DEF Abandoned, New
<1>4. conn' \in [Sockets -> {"free", "open", "ending", "closing", "broken", "gone"}]
  BY <1>1, <1>2 DEF WireOK, Abandoned
<1>5. down' \in [Sockets -> Seq(Frames)] /\ \A t \in Sockets : conn'[t] = "open" => down'[t] = down[t]
  BY <1>1, ReadableType DEF WireOK
<1>6. WireOK'
  BY <1>1, <1>4, <1>5, WireTypes DEF WireOK
<1>7. WireStep
  BY <1>3, <1>5 DEF WireStep
<1> QED BY <1>2, <1>6, <1>7

LEMMA DialInv ==
  ASSUME IInv, NEW c, ClientOK(c), NEW l \in Loops, NEW s \in Sockets, NEW left \in Int,
         l \in Messages => c.call[l] = "recovering",
         c.outbox = client.outbox, c.waiters = client.waiters, c.got = client.got,
         \A m \in Messages : \/ c.call[m] = client.call[m]
                             \/ client.call[m] = "pausing" /\ c.call[m] = "recovering",
         New(s), client' = Dial(c, l, s, left), conn' = Dialled(s), down' = Readable(down),
         up' = up, accepted' = accepted, applying' = applying, log' = log, verdicts' = verdicts
  PROVE  IInv'
<1>1. /\ ClientOK(client') /\ client'.socket = s /\ client'.call = c.call
      /\ client'.outbox = c.outbox /\ client'.waiters = c.waiters /\ client'.got = c.got
  BY DialShape
<1>2. WireOK' /\ WireStep /\ conn'[s] = "open"
  BY DialledStep
<1>3. SocketOK'
  BY <1>1, <1>2 DEF SocketOK
<1>4. \A m \in Messages : Coming(m) => Coming(m)'
  BY <1>2, WireStepKeeps
<1>5. \A m \in Messages : Steady(m)
  BY <1>1 DEF Steady
<1>6. \A m \in Messages : client'.call[m] = "waiting" => m \in client'.waiters /\ Coming(m)'
  BY <1>1, <1>4 DEF IInv, Woken
<1> QED BY <1>1, <1>2, <1>3, <1>5, <1>6, SteadyStep

LEMMA AttemptInv == ASSUME IInv, NEW m \in Messages, Attempt(m) PROVE IInv'
<1> DEFINE c == [client EXCEPT !.tries[m] = @ + 1]
<1>1. /\ client.call[m] = "pausing" /\ client.tries[m] < MaxAttempts /\ down' = Readable(down)
      /\ accepted' = accepted /\ applying' = applying /\ log' = log /\ verdicts' = verdicts
  BY DEF Attempt
<1>2. client \in Clients /\ LoopsOK(client) /\ WireOK
  BY DEF IInv, ClientOK
<1>3. client.tries[m] + 1 \in 0..MaxAttempts
  BY <1>1, <1>2, SendQueueAssumption DEF SendQueueAssumption, Clients
<1>4. c \in Clients
  BY <1>2, <1>3 DEF Clients
<1>5. /\ LoopsOK(c) /\ c.call = client.call /\ c.outbox = client.outbox /\ c.waiters = client.waiters
      /\ c.got = client.got /\ c.socket = client.socket /\ Usable(c) = Usable(client) /\ c.loop = client.loop
      /\ Wrote(c, m) = Wrote(client, m)
  BY <1>2 DEF Clients, LoopsOK, Usable, Wrote
<1>6. CASE /\ client.socket # NoSocket
           /\ client' = Flushed(c, m)
           /\ up' = IF Wrote(client, m) THEN [up EXCEPT ![client.socket] = Append(@, m)] ELSE up
           /\ conn' = conn
  <2> HIDE DEF c
  <2>1. c.loop[m].at = "off"
    BY <1>1, <1>2, <1>5 DEF LoopsOK
  <2>2. /\ ClientOK(client') /\ client'.socket = c.socket /\ client'.got = c.got /\ client'.outbox = c.outbox
        /\ \A n \in Messages \ {m} : client'.call[n] = c.call[n]
        /\ c.waiters \subseteq client'.waiters
        /\ \/ client'.call[m] = "pausing"
           \/ client'.call[m] = "waiting" /\ m \in client'.waiters /\ Wrote(c, m)
    BY <1>4, <1>5, <1>6, <2>1, FlushedShape DEF ClientOK
  <2>3. /\ up' \in [Sockets -> Seq(Messages)]
        /\ \A t \in Sockets : ToSet(up[t]) \subseteq ToSet(up'[t])
        /\ Wrote(client, m) /\ client.socket \in Sockets => m \in ToSet(up'[client.socket])
    BY <1>2, <1>6, WriteTypes
  <2>4. down' \in [Sockets -> Seq(Frames)] /\ \A t \in Sockets : conn'[t] = "open" => down'[t] = down[t]
    BY <1>1, <1>2, ReadableType DEF WireOK
  <2>5. WireOK'
    BY <1>1, <1>2, <1>6, <2>3, <2>4, WireTypes DEF WireOK
  <2>6. WireStep
    BY <1>1, <1>6, <2>3, <2>4 DEF WireStep
  <2>7. SocketOK'
    BY <1>5, <2>2, <2>6, SocketKeeps
  <2>8. \A n \in Messages : Coming(n) => Coming(n)'
    BY <2>6, WireStepKeeps
  <2>9. \A n \in Messages : Steady(n)
    BY <1>1, <1>5, <2>2 DEF Steady
  <2>10. Wrote(client, m) => Coming(m)'
    <3>1. client.socket \in Sockets /\ conn[client.socket] \in {"open", "ending", "closing", "broken"}
      BY <1>2, <1>6 DEF IInv, SocketOK, Clients
    <3>2. Wrote(client, m) => Alive(m, client.socket)'
      BY <1>5, <1>6, <2>2, <2>3, <3>1 DEF Alive
    <3> QED BY <1>5, <2>2, <3>1, <3>2 DEF Coming
  <2>11. \A n \in Messages : client'.call[n] = "waiting" => n \in client'.waiters /\ Coming(n)'
    BY <1>5, <2>2, <2>8, <2>10 DEF IInv, Woken
  <2> QED BY <1>1, <2>2, <2>5, <2>7, <2>9, <2>11, SteadyStep
<1>7. CASE /\ client.socket = NoSocket
           /\ \E s \in Sockets :
                 /\ New(s)
                 /\ client' = Dial([c EXCEPT !.call[m] = "recovering", !.reconnecting = TRUE], m, s, Retries)
                 /\ conn' = Dialled(s)
           /\ up' = up
  <2> DEFINE d == [c EXCEPT !.call[m] = "recovering", !.reconnecting = TRUE]
  <2>1. PICK s \in Sockets : New(s) /\ client' = Dial(d, m, s, Retries) /\ conn' = Dialled(s)
    BY <1>7
  <2> HIDE DEF c
  <2>2. d \in Clients
    BY <1>4 DEF Clients, Calls
  <2>3. /\ d.outbox = c.outbox /\ d.waiters = c.waiters /\ d.got = c.got /\ d.loop = c.loop
        /\ d.handshake = c.handshake /\ d.call = [c.call EXCEPT ![m] = "recovering"]
    BY <1>4 DEF Clients
  <2>4. LoopsOK(d)
    BY <1>1, <1>4, <1>5, <2>3 DEF LoopsOK, Clients
  <2>5. \A n \in Messages : d.call[n] = client.call[n] \/ (client.call[n] = "pausing" /\ d.call[n] = "recovering")
    BY <1>1, <1>4, <1>5, <2>3 DEF Clients
  <2>6. d.call[m] = "recovering" /\ m \in Loops /\ Retries \in Int
    BY <1>4, <2>3, SendQueueAssumption DEF Clients, Loops, SendQueueAssumption
  <2> HIDE DEF d
  <2>7. ClientOK(d) /\ d.outbox = client.outbox /\ d.waiters = client.waiters /\ d.got = client.got
    BY <1>5, <2>2, <2>3, <2>4 DEF ClientOK
  <2>8. down' = Readable(down) /\ up' = up /\ accepted' = accepted /\ applying' = applying
        /\ log' = log /\ verdicts' = verdicts
    BY <1>1, <1>7
  <2> QED BY <2>1, <2>5, <2>6, <2>7, <2>8, DialInv
<1> QED BY <1>6, <1>7 DEF Attempt

LEMMA ReconnectingShape ==
  ASSUME ClientOK(client)
  PROVE  LET d == [client EXCEPT !.reconnecting = TRUE]
         IN  /\ ClientOK(d) /\ d.call = client.call /\ d.outbox = client.outbox
             /\ d.waiters = client.waiters /\ d.got = client.got
  BY DEF ClientOK, Clients, LoopsOK

LEMMA BeginInv ==
  ASSUME IInv, NEW c, ClientOK(c), NEW l \in Loops, NEW left \in Int, Begin(l, c, left),
         l \in Messages => c.call[l] = "recovering",
         c.outbox = client.outbox, c.waiters = client.waiters, c.got = client.got, c.call = client.call
  PROVE  IInv'
<1>1. PICK s \in Sockets : New(s) /\ client' = Dial(c, l, s, left) /\ conn' = Dialled(s)
  BY DEF Begin
<1> QED BY <1>1, DialInv DEF Begin

LEMMA ForegroundInv == ASSUME IInv, Foreground PROVE IInv'
<1>1. "app" \in Loops /\ "app" \notin Messages /\ Retries \in Int
  BY Names, SendQueueAssumption DEF Loops, SendQueueAssumption
<1> DEFINE d == [client EXCEPT !.reconnecting = TRUE]
<1>2. Begin("app", d, Retries)
  BY DEF Foreground
<1>3. /\ ClientOK(d) /\ d.call = client.call /\ d.outbox = client.outbox
      /\ d.waiters = client.waiters /\ d.got = client.got
  BY ReconnectingShape DEF IInv
<1> HIDE DEF d
<1> QED BY <1>1, <1>2, <1>3, BeginInv

LEMMA TimerFiresInv == ASSUME IInv, TimerFires PROVE IInv'
<1>1. "timer" \in Loops /\ "timer" \notin Messages
  BY Names DEF Loops
<1> DEFINE d == [client EXCEPT !.reconnecting = TRUE]
<1>2. Begin("timer", d, 1)
  BY DEF TimerFires
<1>3. /\ ClientOK(d) /\ d.call = client.call /\ d.outbox = client.outbox
      /\ d.waiters = client.waiters /\ d.got = client.got
  BY ReconnectingShape DEF IInv
<1> HIDE DEF d
<1> QED BY <1>1, <1>2, <1>3, BeginInv

LEMMA DialAgainInv == ASSUME IInv, NEW l \in Loops, DialAgain(l) PROVE IInv'
<1>1. client.loop[l] \in LoopStates /\ (l \in Messages => client.call[l] = "recovering")
  BY DEF IInv, ClientOK, Clients, LoopsOK, DialAgain
<1>2. client.loop[l].left \in Int
  BY <1>1 DEF LoopStates
<1> QED BY <1>1, <1>2, BeginInv DEF IInv, DialAgain

\* reconnect() returns to a send: its frame is written, or it pauses.
LEMMA FinishedUpShape ==
  ASSUME NEW c, ClientOK(c), NEW l \in Loops, c.handshake # l,
         l \in Messages => c.call[l] = "recovering"
  PROVE  LET e == Finished(c, l, "up")
         IN  /\ ClientOK(e) /\ e.socket = c.socket /\ e.got = c.got /\ e.outbox = c.outbox
             /\ \A n \in Messages \ {l} : e.call[n] = c.call[n]
             /\ c.waiters \subseteq e.waiters
             /\ l \in Messages => \/ e.call[l] = "pausing"
                                  \/ e.call[l] = "waiting" /\ l \in e.waiters /\ Wrote(c, l)
<1> DEFINE d == [c EXCEPT !.reconnecting = l = "start" /\ @, !.loop[l] = Off]
<1>1. Off \in LoopStates /\ Off.at = "off"
  BY DEF Off, LoopStates
<1>2. d \in Clients
  BY <1>1 DEF ClientOK, Clients
<1>3. /\ d.call = c.call /\ d.waiters = c.waiters /\ d.got = c.got /\ d.outbox = c.outbox
      /\ d.socket = c.socket /\ d.authenticated = c.authenticated /\ d.handshake = c.handshake
      /\ d.loop = [c.loop EXCEPT ![l] = Off]
  BY DEF ClientOK, Clients
<1>4. LoopsOK(d) /\ d.loop[l].at = "off"
  BY <1>1, <1>3, Names DEF ClientOK, Clients, LoopsOK, Loops
<1>5. Finished(c, l, "up") = IF l \in Messages THEN Flushed(d, l) ELSE d
  BY DEF Finished
<1> HIDE DEF d
<1>6. l \in Messages => Wrote(d, l) = Wrote(c, l)
  BY <1>3 DEF Wrote, Usable
<1>7. ClientOK(d)
  BY <1>2, <1>4 DEF ClientOK
<1>8. CASE l \in Messages
  <2> DEFINE e == Flushed(d, l)
  <2>1. /\ ClientOK(e) /\ e.socket = d.socket /\ e.got = d.got /\ e.outbox = d.outbox
        /\ \A n \in Messages \ {l} : e.call[n] = d.call[n]
        /\ d.waiters \subseteq e.waiters
        /\ \/ e.call[l] = "pausing"
           \/ e.call[l] = "waiting" /\ l \in e.waiters /\ Wrote(d, l)
    BY <1>4, <1>7, <1>8, FlushedShape
  <2>2. Finished(c, l, "up") = e
    BY <1>5, <1>8
  <2> HIDE DEF e
  <2> QED BY <1>3, <1>6, <1>8, <2>1, <2>2
<1>9. CASE l \notin Messages
  <2>1. Finished(c, l, "up") = d
    BY <1>5, <1>9
  <2> QED BY <1>3, <1>7, <1>9, <2>1
<1> QED BY <1>8, <1>9

\* A step that answers no message and writes none, whatever becomes of the sockets.
LEMMA CalmInv ==
  ASSUME IInv, ClientOK(client'), Calm(client, client'), WireStep, log' = log, applying' = applying,
         accepted' \subseteq Sockets,
         conn' \in [Sockets -> {"free", "open", "ending", "closing", "broken", "gone"}],
         up' \in [Sockets -> Seq(Messages)], down' \in [Sockets -> Seq(Frames)]
  PROVE  IInv'
<1>1. WireOK'
  BY WireTypes
<1>2. SocketOK'
  BY SocketKeeps DEF Calm
<1>3. \A m \in Messages : Steady(m)
  BY DEF Calm, Steady
<1>4. \A m \in Messages : client'.call[m] = "waiting" => m \in client'.waiters /\ Coming(m)'
  BY WireStepKeeps DEF IInv, Woken, Calm
<1> QED BY <1>1, <1>2, <1>3, <1>4, SteadyStep

\* What a failed handshake leaves of the sockets.
LEMMA HungUpStep ==
  ASSUME WireOK, conn' = HungUp, down' = Readable(down), up' = up,
         verdicts' = verdicts, applying \subseteq applying'
  PROVE  /\ WireStep
         /\ conn' \in [Sockets -> {"free", "open", "ending", "closing", "broken", "gone"}]
         /\ down' \in [Sockets -> Seq(Frames)]
<1>1. \A t \in Sockets : \/ conn'[t] = conn[t]
                         \/ conn[t] \in {"open", "ending"} /\ conn'[t] = "closing"
  BY DEF WireOK, HungUp, Abandoned
<1>2. conn' \in [Sockets -> {"free", "open", "ending", "closing", "broken", "gone"}]
  BY DEF WireOK, HungUp, Abandoned
<1>3. down' \in [Sockets -> Seq(Frames)] /\ \A t \in Sockets : conn'[t] = "open" => down'[t] = down[t]
  BY ReadableType DEF WireOK
<1> QED BY <1>1, <1>2, <1>3 DEF WireStep

LEMMA HandshakeTimeoutInv == ASSUME IInv, NEW s \in Sockets, HandshakeTimeout(s) PROVE IInv'
<1> DEFINE d == [client EXCEPT !.alarms = @ \ {s}]
<1>1. /\ client' = HandshakeFailed(d, "down") /\ conn' = HungUp /\ down' = Readable(down) /\ up' = up
      /\ accepted' = accepted /\ applying' = applying /\ log' = log /\ verdicts' = verdicts
  BY DEF HandshakeTimeout
<1>2. ClientOK(d) /\ Calm(client, d) /\ d.call = client.call
  BY DEF IInv, ClientOK, Clients, LoopsOK, Calm
<1> HIDE DEF d
<1>3. ClientOK(client') /\ Calm(d, client')
  BY <1>1, <1>2, HandshakeFailedShape
<1>4. Calm(client, client')
  BY <1>2, <1>3 DEF Calm
<1>5. /\ WireStep
      /\ conn' \in [Sockets -> {"free", "open", "ending", "closing", "broken", "gone"}]
      /\ down' \in [Sockets -> Seq(Frames)]
  BY <1>1, HungUpStep DEF IInv
<1> QED BY <1>1, <1>3, <1>4, <1>5, CalmInv DEF IInv, WireOK

LEMMA SignOutInv == ASSUME IInv, SignOut PROVE IInv'
<1>1. /\ client' = [client EXCEPT !.closedByUs = TRUE, !.authenticated = FALSE,
                                  !.timer = FALSE, !.socket = NoSocket]
      /\ conn' = [s \in Sockets |-> IF s = client.socket THEN Abandoned(conn[s]) ELSE conn[s]]
      /\ down' = Readable(down) /\ up' = up
      /\ accepted' = accepted /\ applying' = applying /\ log' = log /\ verdicts' = verdicts
  BY DEF SignOut
<1>2. ClientOK(client') /\ Calm(client, client')
  BY <1>1 DEF IInv, ClientOK, Clients, LoopsOK, Calm
<1>3. \A t \in Sockets : \/ conn'[t] = conn[t]
                         \/ conn[t] \in {"open", "ending"} /\ conn'[t] = "closing"
  BY <1>1 DEF Abandoned
<1>4. conn' \in [Sockets -> {"free", "open", "ending", "closing", "broken", "gone"}]
  BY <1>1 DEF IInv, WireOK, Abandoned
<1>5. down' \in [Sockets -> Seq(Frames)] /\ \A t \in Sockets : conn'[t] = "open" => down'[t] = down[t]
  BY <1>1, ReadableType DEF IInv, WireOK
<1>6. WireStep
  BY <1>1, <1>3, <1>5 DEF WireStep
<1> QED BY <1>1, <1>2, <1>4, <1>5, <1>6, CalmInv DEF IInv, WireOK

\* Nobody waits any more; the frames that were lost with the socket are missed by nobody.
LEMMA CloseEventInv == ASSUME IInv, NEW s \in Sockets, CloseEvent(s) PROVE IInv'
<1>1. /\ client' = SocketClosed(client, s) /\ conn' = [conn EXCEPT ![s] = "gone"]
      /\ down' = Readable(down) /\ up' = up
      /\ accepted' = accepted /\ applying' = applying /\ log' = log /\ verdicts' = verdicts
  BY DEF CloseEvent
<1>2. /\ ClientOK(client') /\ client'.outbox = client.outbox /\ client'.got = client.got
      /\ client'.socket \in {client.socket, NoSocket} \ {s}
      /\ \A m \in Messages :
            \/ client'.call[m] = client.call[m] /\ ~(m \in client.waiters /\ client.call[m] = "waiting")
            \/ client.call[m] \in {"recovering", "waiting"} /\ client'.call[m] = "pausing"
  BY <1>1, SocketClosedShape DEF IInv
<1>3. WireOK /\ client.socket \in Sockets \union {NoSocket}
  BY DEF IInv, ClientOK, Clients
<1>4. down' \in [Sockets -> Seq(Frames)]
  BY <1>1, <1>3, ReadableType DEF WireOK
<1>5. WireOK'
  BY <1>1, <1>3, <1>4, WireTypes DEF WireOK
<1>6. SocketOK'
  BY <1>1, <1>2, <1>3 DEF IInv, SocketOK, WireOK
<1>7. \A m \in Messages : Steady(m)
  BY <1>2 DEF Steady
<1>8. \A m \in Messages : client'.call[m] # "waiting"
  BY <1>2 DEF IInv, Woken
<1> QED BY <1>1, <1>2, <1>5, <1>6, <1>7, <1>8, SteadyStep

LEMMA SyncEndsInv == ASSUME IInv, NEW l \in Loops, SyncEnds(l) PROVE IInv'
<1>1. /\ client.loop[l].at = "syncing" /\ conn' = conn /\ down' = down
      /\ accepted' = accepted /\ applying' = applying /\ log' = log /\ verdicts' = verdicts
  BY DEF SyncEnds
<1>2. ClientOK(client) /\ client.handshake # l /\ (l \in Messages => client.call[l] = "recovering")
  BY <1>1, Names DEF IInv, ClientOK, LoopsOK
<1>3. client.socket \in Sockets \union {NoSocket} /\ WireOK
  BY <1>2 DEF ClientOK, Clients, IInv
<1>4. CASE /\ client' = Finished(client, l, "up")
           /\ up' = IF l \in Messages /\ Wrote(client, l)
                    THEN [up EXCEPT ![client.socket] = Append(@, l)] ELSE up
  <2>1. /\ ClientOK(client') /\ client'.socket = client.socket /\ client'.got = client.got
        /\ client'.outbox = client.outbox
        /\ \A n \in Messages \ {l} : client'.call[n] = client.call[n]
        /\ client.waiters \subseteq client'.waiters
        /\ l \in Messages => \/ client'.call[l] = "pausing"
                             \/ client'.call[l] = "waiting" /\ l \in client'.waiters /\ Wrote(client, l)
    BY <1>2, <1>4, FinishedUpShape
  <2>2. /\ up' \in [Sockets -> Seq(Messages)]
        /\ \A t \in Sockets : ToSet(up[t]) \subseteq ToSet(up'[t])
        /\ l \in Messages /\ Wrote(client, l) /\ client.socket \in Sockets =>
              l \in ToSet(up'[client.socket])
    <3>1. CASE l \in Messages
      BY <1>3, <1>4, <3>1, WriteTypes
    <3>2. CASE l \notin Messages
      BY <1>3, <1>4, <3>2 DEF WireOK
    <3> QED BY <3>1, <3>2
  <2>3. WireOK'
    BY <1>1, <1>3, <2>2, WireTypes DEF WireOK
  <2>4. WireStep
    BY <1>1, <2>2 DEF WireStep
  <2>5. SocketOK'
    BY <2>1, <2>4, SocketKeeps
  <2>6. \A n \in Messages : Coming(n) => Coming(n)'
    BY <2>4, WireStepKeeps
  <2>7. \A n \in Messages : Steady(n)
    BY <1>2, <2>1 DEF Steady
  <2>8. l \in Messages /\ Wrote(client, l) => Coming(l)'
    <3>1. SUFFICES ASSUME l \in Messages, Wrote(client, l) PROVE Coming(l)'
      OBVIOUS
    <3>2. client.socket \in Sockets /\ conn[client.socket] \in {"open", "ending", "closing", "broken"}
      BY <1>3, <3>1 DEF IInv, SocketOK, Wrote, Usable
    <3>3. Alive(l, client.socket)'
      BY <1>1, <2>1, <2>2, <3>1, <3>2 DEF Alive
    <3> QED BY <2>1, <3>2, <3>3 DEF Coming
  <2>9. \A n \in Messages : client'.call[n] = "waiting" => n \in client'.waiters /\ Coming(n)'
    BY <2>1, <2>6, <2>8 DEF IInv, Woken
  <2> QED BY <1>1, <2>1, <2>3, <2>5, <2>7, <2>9, SteadyStep
<1>5. CASE client' = AttemptFailed(client, l) /\ up' = up
  <2>1. ClientOK(client') /\ Calm(client, client')
    BY <1>2, <1>5, AttemptFailedShape
  <2>2. WireStep
    BY <1>1, <1>5 DEF WireStep
  <2> QED BY <1>1, <1>5, <2>1, <2>2, CalmInv DEF IInv, WireOK
<1> QED BY <1>4, <1>5 DEF SyncEnds

\* A frame that is read is gone; whoever waits for another is none the worse.
LEMMA ReceiveWire ==
  ASSUME IInv, NEW s \in Sockets, down[s] # <<>>, conn' = conn \/ conn' = HungUp,
         down' = Readable([down EXCEPT ![s] = Tail(@)]), up' = up, accepted' = accepted,
         verdicts' = verdicts, log' = log, applying \subseteq applying', applying' \subseteq Acks
  PROVE  /\ WireOK' /\ Head(down[s]) \in Frames
         /\ client'.socket \in {client.socket, NoSocket} => SocketOK'
         /\ \A m \in Messages :
               Coming(m) => \/ Coming(m)'
                            \/ Head(down[s]).t \in {"msg.ack", "msg.err"} /\ Head(down[s]).m = m
<1> DEFINE rest == [down EXCEPT ![s] = Tail(@)]
           f == Head(down[s])
<1>1. WireOK /\ down[s] \in Seq(Frames)
  BY DEF IInv, WireOK
<1>2. f \in Frames /\ Tail(down[s]) \in Seq(Frames) /\ ToSet(down[s]) = ToSet(Tail(down[s])) \union {f}
  BY <1>1, ToSetTail
<1>3. rest \in [Sockets -> Seq(Frames)] /\ \A t \in Sockets : ToSet(down[t]) \subseteq ToSet(rest[t]) \union {f}
  BY <1>1, <1>2 DEF WireOK
<1>4. conn' \in [Sockets -> {"free", "open", "ending", "closing", "broken", "gone"}]
  BY <1>1 DEF WireOK, HungUp, Abandoned
<1>5. \A t \in Sockets : conn'[t] = conn[t] \/ (conn[t] \in {"open", "ending"} /\ conn'[t] = "closing")
  BY <1>1 DEF WireOK, HungUp, Abandoned
<1> HIDE DEF rest
<1>6. down' \in [Sockets -> Seq(Frames)] /\ \A t \in Sockets : conn'[t] = "open" => down'[t] = rest[t]
  BY <1>3, ReadableType DEF rest
<1>7. WireOK'
  BY <1>1, <1>4, <1>6 DEF WireOK, Frames, Acks
<1>8. client'.socket \in {client.socket, NoSocket} => SocketOK'
  <2>1. client.socket \in Sockets \union {NoSocket}
    BY DEF IInv, ClientOK, Clients
  <2> QED BY <1>5, <2>1 DEF IInv, SocketOK
<1> HIDE DEF f
<1>9. ASSUME NEW m \in Messages, Coming(m), ~(f.t \in {"msg.ack", "msg.err"} /\ f.m = m)
      PROVE  Coming(m)'
  <2>1. \A t \in Sockets : Alive(m, t) => Alive(m, t)'
    BY <1>3, <1>5, <1>6, <1>9 DEF Alive
  <2> QED BY <1>9, <2>1 DEF Coming, Unanswered
<1> QED BY <1>2, <1>7, <1>8, <1>9 DEF f

LEMMA ReceiveInv == ASSUME IInv, NEW s \in Sockets, Receive(s) PROVE IInv'
<1> DEFINE f == Head(down[s])
<1>1. /\ conn[s] \in {"open", "ending"} /\ down[s] # <<>>
      /\ conn' = (IF f.t = "auth.err" THEN HungUp ELSE conn)
      /\ applying' = (IF f.t = "msg.ack" THEN applying \union {f} ELSE applying)
      /\ down' = Readable([down EXCEPT ![s] = Tail(@)]) /\ up' = up
      /\ accepted' = accepted /\ log' = log /\ verdicts' = verdicts
  BY DEF Receive
<1>2. f \in Frames /\ applying \subseteq Acks
  BY <1>1, ToSetTail DEF IInv, WireOK
<1>3. applying \subseteq applying' /\ applying' \subseteq Acks
  BY <1>1, <1>2, FrameKinds
<1>4. /\ WireOK'
      /\ client'.socket \in {client.socket, NoSocket} => SocketOK'
      /\ \A m \in Messages :
            Coming(m) => Coming(m)' \/ (f.t \in {"msg.ack", "msg.err"} /\ f.m = m)
  BY <1>1, <1>3, ReceiveWire
<1>5. CASE f.t = "auth.ok" /\ client' = HandshakeDone(client)
  <2>1. ClientOK(client') /\ Calm(client, client')
    BY <1>5, HandshakeDoneShape DEF IInv
  <2>2. SocketOK' /\ \A m \in Messages : Steady(m)
    BY <1>4, <2>1 DEF Calm, Steady
  <2>3. \A m \in Messages : client'.call[m] = "waiting" => m \in client'.waiters /\ Coming(m)'
    BY <1>4, <1>5, <2>1 DEF IInv, Woken, Calm
  <2> QED BY <1>1, <1>4, <2>1, <2>2, <2>3, SteadyStep
<1>6. CASE f.t = "auth.err" /\ client' = HandshakeFailed(client, f.code)
  <2>1. f.code # "up"
    BY <1>2, <1>6, FrameKinds
  <2>2. ClientOK(client') /\ Calm(client, client')
    BY <1>6, <2>1, HandshakeFailedShape DEF IInv
  <2>3. SocketOK' /\ \A m \in Messages : Steady(m)
    BY <1>4, <2>2 DEF Calm, Steady
  <2>4. \A m \in Messages : client'.call[m] = "waiting" => m \in client'.waiters /\ Coming(m)'
    BY <1>4, <1>6, <2>2 DEF IInv, Woken, Calm
  <2> QED BY <1>1, <1>4, <2>2, <2>3, <2>4, SteadyStep
<1>7. CASE f.t = "msg.err" /\ client' = Rejected(client, f.m, f.code \in TerminalCodes)
  <2> DEFINE m == f.m
  <2>1. m \in Messages
    BY <1>2, <1>7, FrameKinds
  <2>2. /\ ClientOK(client') /\ client'.socket = client.socket /\ client'.got = client.got
        /\ client'.waiters = client.waiters \ {m}
        /\ \A n \in Messages \ {m} : client'.call[n] = client.call[n] /\ client'.outbox[n] = client.outbox[n]
        /\ \/ client'.call[m] = client.call[m] /\ client'.outbox[m] = client.outbox[m]
              /\ ~(m \in client.waiters /\ client.call[m] = "waiting")
           \/ client.call[m] = "waiting" /\ client'.call[m] = "refused"
           \/ client.call[m] = "waiting" /\ client'.call[m] = "pausing" /\ client'.outbox[m] = client.outbox[m]
    <3> DEFINE terminal == f.code \in TerminalCodes
    <3>1. terminal \in BOOLEAN /\ client' = Rejected(client, m, terminal) /\ ClientOK(client)
      BY <1>7 DEF IInv
    <3> HIDE DEF terminal, m
    <3> QED BY <2>1, <3>1, RejectedShape
  <2>3. SocketOK'
    BY <1>4, <2>2
  <2>4. \A n \in Messages : Kept(n)' /\ Stored(n)'
    BY <1>1, <2>2 DEF IInv, Kept, Stored
  <2>5. \A n \in Messages : Woken(n)'
    BY <1>4, <2>2 DEF IInv, Woken
  <2>6. ClientOK(client)'
    BY <2>2 DEF ClientOK, Clients, LoopsOK, LoopStates, Loops, Sockets
  <2> QED BY <1>4, <2>3, <2>4, <2>5, <2>6 DEF IInv
<1>8. CASE f.t = "msg.ack" /\ client' = client
  <2>1. f \in applying' /\ ClientOK(client')
    BY <1>1, <1>8 DEF IInv
  <2>2. SocketOK' /\ \A m \in Messages : Steady(m)
    BY <1>4, <1>8 DEF Steady
  <2>3. \A m \in Messages : Coming(m) => Coming(m)'
    BY <1>4, <2>1 DEF Coming
  <2>4. \A m \in Messages : client'.call[m] = "waiting" => m \in client'.waiters /\ Coming(m)'
    BY <1>8, <2>3 DEF IInv, Woken
  <2> QED BY <1>1, <1>4, <2>1, <2>2, <2>4, SteadyStep
<1> QED BY <1>5, <1>6, <1>7, <1>8 DEF Receive

\* The ack says where its message is: that is where the send resolves, and where the
\* message is when its entry goes.
LEMMA SettleInv == ASSUME IInv, NEW ack \in applying, Settle(ack) PROVE IInv'
<1> DEFINE m == ack.m
<1>1. /\ applying' = applying \ {ack}
      /\ client' = [client EXCEPT !.outbox[m] = "none", !.waiters = @ \ {m},
                                  !.call[m] = IF m \in client.waiters /\ @ = "waiting" THEN "sent" ELSE @,
                                  !.got[m] = IF m \in client.waiters /\ client.call[m] = "waiting"
                                             THEN ack.seq ELSE @]
      /\ conn' = conn /\ up' = up /\ down' = down /\ accepted' = accepted
      /\ log' = log /\ verdicts' = verdicts
  BY DEF Settle, wire
<1>2. ack \in Acks /\ WireOK /\ client \in Clients /\ LoopsOK(client)
  BY DEF IInv, WireOK, ClientOK
<1>3. m \in Messages /\ ack.seq \in Nat /\ ack.seq \in DOMAIN log /\ log[ack.seq] = m
  BY <1>2 DEF Acks
<1>4. m \in ToSet(log)
  BY <1>2, <1>3, ToSetIs DEF WireOK
<1> HIDE DEF m
<1>5. client' \in Clients
  <2> DEFINE call == IF m \in client.waiters /\ client.call[m] = "waiting" THEN "sent" ELSE client.call[m]
             got == IF m \in client.waiters /\ client.call[m] = "waiting" THEN ack.seq ELSE client.got[m]
  <2>1. call \in Calls /\ got \in Nat
    BY <1>2, <1>3 DEF Clients, Calls
  <2>2. client' = [client EXCEPT !.outbox[m] = "none", !.waiters = @ \ {m},
                                 !.call[m] = call, !.got[m] = got]
    BY <1>1, <1>2 DEF Clients
  <2> HIDE DEF call, got
  <2> QED BY <1>2, <1>3, <2>1, <2>2 DEF Clients
<1>6. /\ client'.socket = client.socket /\ client'.waiters = client.waiters \ {m}
      /\ \A n \in Messages \ {m} : /\ client'.call[n] = client.call[n] /\ client'.got[n] = client.got[n]
                                   /\ client'.outbox[n] = client.outbox[n]
      /\ client'.outbox[m] = "none" /\ client'.loop = client.loop /\ client'.handshake = client.handshake
      /\ client'.call[m] = (IF m \in client.waiters /\ client.call[m] = "waiting" THEN "sent" ELSE client.call[m])
      /\ client'.got[m] = (IF m \in client.waiters /\ client.call[m] = "waiting" THEN ack.seq ELSE client.got[m])
  BY <1>1, <1>2, <1>3 DEF Clients
<1>7. LoopsOK(client')
  BY <1>2, <1>6 DEF LoopsOK
<1>8. WireOK'
  BY <1>1, <1>2 DEF WireOK, Frames, Acks
<1>9. SocketOK'
  BY <1>1, <1>6 DEF IInv, SocketOK
<1>10. \A n \in Messages : Kept(n)' /\ Stored(n)'
  BY <1>1, <1>3, <1>4, <1>6 DEF IInv, Kept, Stored
<1>11. \A n \in Messages : Woken(n)'
  <2> SUFFICES ASSUME NEW n \in Messages PROVE Woken(n)'
    OBVIOUS
  <2>1. Woken(n)
    BY DEF IInv
  <2>2. CASE n = m
    BY <1>6, <2>1, <2>2 DEF Woken
  <2>3. CASE n # m
    <3>1. \A a \in applying : a.m = n => a \in applying'
      BY <1>1, <2>3 DEF m
    <3>2. Coming(n) => Coming(n)'
      BY <1>1, <3>1 DEF Coming, Unanswered, Alive
    <3> QED BY <1>6, <2>1, <2>3, <3>2 DEF Woken
  <2> QED BY <2>2, <2>3
<1> QED BY <1>5, <1>7, <1>8, <1>9, <1>10, <1>11 DEF IInv, ClientOK

(***************************************************************************)
(* The gateway and the network.                                            *)
(***************************************************************************)

LEMMA CalmSelf == ASSUME client' = client, IInv PROVE ClientOK(client') /\ Calm(client, client')
  BY DEF IInv, Calm

\* A frame put under way is not lost on a socket that stays open.
LEMMA SendTypes ==
  ASSUME WireOK, NEW s \in Sockets, NEW T, Frames \subseteq T, NEW f \in T, Send(s, f)
  PROVE  /\ down' \in [Sockets -> Seq(T)]
         /\ \A t \in Sockets : ToSet(down[t]) \subseteq ToSet(down'[t])
         /\ conn[s] = "open" => f \in ToSet(down'[s])
<1>1. down \in [Sockets -> Seq(T)]
  <2>1. \A t \in Sockets : down[t] \in Seq(Frames) /\ down[t] \in Seq(T)
    <3> SUFFICES ASSUME NEW t \in Sockets PROVE down[t] \in Seq(Frames) /\ down[t] \in Seq(T)
      OBVIOUS
    <3>1. down[t] \in Seq(Frames)
      BY DEF WireOK
    <3> QED BY <3>1
  <2> QED BY <2>1 DEF WireOK
<1>2. CASE conn[s] = "open"
  <2>1. down' = [down EXCEPT ![s] = Append(@, f)]
    BY <1>2 DEF Send
  <2>2. Append(down[s], f) \in Seq(T) /\ ToSet(Append(down[s], f)) = ToSet(down[s]) \union {f}
    BY <1>1, ToSetAppend
  <2>3. \A t \in Sockets : down'[t] = IF t = s THEN Append(down[s], f) ELSE down[t]
    BY <1>1, <2>1
  <2> QED BY <1>1, <2>1, <2>2, <2>3
<1>3. CASE conn[s] # "open"
  BY <1>1, <1>3 DEF Send
<1> QED BY <1>2, <1>3

LEMMA AcceptAuthInv == ASSUME IInv, NEW s \in Sockets, AcceptAuth(s) PROVE IInv'
<1> DEFINE f == [t |-> "auth.ok"]
<1>1. /\ client' = client /\ conn' = conn /\ up' = up /\ accepted' = accepted \union {s} /\ Send(s, f)
      /\ applying' = applying /\ log' = log /\ verdicts' = verdicts
  BY DEF AcceptAuth
<1>2. f \in Frames
  BY DEF Frames
<1> HIDE DEF f
<1>3. down' \in [Sockets -> Seq(Frames)] /\ \A t \in Sockets : ToSet(down[t]) \subseteq ToSet(down'[t])
  BY <1>1, <1>2, SendTypes DEF IInv
<1>4. WireStep
  BY <1>1, <1>3 DEF WireStep
<1> QED BY <1>1, <1>3, <1>4, CalmSelf, CalmInv DEF IInv, WireOK

LEMMA RefuseAuthInv ==
  ASSUME IInv, NEW s \in Sockets, NEW code \in {"refused", "timeout"}, RefuseAuth(s, code) PROVE IInv'
<1> DEFINE f == [t |-> "auth.err", code |-> code]
<1>1. /\ client' = client /\ conn[s] = "open" /\ conn' = [conn EXCEPT ![s] = "ending"] /\ up' = up
      /\ accepted' = accepted /\ Send(s, f) /\ applying' = applying /\ log' = log /\ verdicts' = verdicts
  BY DEF RefuseAuth
<1>2. f \in Frames
  BY DEF Frames
<1> HIDE DEF f
<1>3. down' \in [Sockets -> Seq(Frames)] /\ \A t \in Sockets : ToSet(down[t]) \subseteq ToSet(down'[t])
  BY <1>1, <1>2, SendTypes DEF IInv
<1>4. conn' \in [Sockets -> {"free", "open", "ending", "closing", "broken", "gone"}]
      /\ \A t \in Sockets : conn'[t] = conn[t] \/ (conn[t] = "open" /\ conn'[t] = "ending")
  BY <1>1 DEF IInv, WireOK
<1>5. WireStep
  BY <1>1, <1>3, <1>4 DEF WireStep
<1> QED BY <1>1, <1>3, <1>4, <1>5, CalmSelf, CalmInv DEF IInv, WireOK

LEMMA BreakInv == ASSUME IInv, NEW s \in Sockets, Break(s) PROVE IInv'
<1>1. /\ client' = client /\ conn[s] \in {"open", "ending"} /\ conn' = [conn EXCEPT ![s] = "broken"]
      /\ up' = up /\ down' = Readable(down)
      /\ accepted' = accepted /\ applying' = applying /\ log' = log /\ verdicts' = verdicts
  BY DEF Break
<1>2. down' \in [Sockets -> Seq(Frames)] /\ \A t \in Sockets : conn'[t] = "open" => down'[t] = down[t]
  BY <1>1, ReadableType DEF IInv, WireOK
<1>3. conn' \in [Sockets -> {"free", "open", "ending", "closing", "broken", "gone"}]
      /\ \A t \in Sockets : conn'[t] = conn[t] \/ (conn[t] \in {"open", "ending"} /\ conn'[t] = "broken")
  BY <1>1 DEF IInv, WireOK
<1>4. WireStep
  BY <1>1, <1>2, <1>3 DEF WireStep
<1> QED BY <1>1, <1>2, <1>3, <1>4, CalmSelf, CalmInv DEF IInv, WireOK

\* What is forgotten of a socket whose close event was seen wakes nobody.
LEMMA ForgetInv == ASSUME IInv, NEW s \in Sockets, Forget(s) PROVE IInv'
<1>1. /\ client' = client /\ conn[s] = "gone" /\ conn' = [conn EXCEPT ![s] = "free"]
      /\ up' = [up EXCEPT ![s] = <<>>] /\ down' = down
      /\ accepted' = accepted \ {s} /\ applying' = applying /\ log' = log /\ verdicts' = verdicts
  BY DEF Forget
<1>2. WireOK /\ <<>> \in Seq(Messages)
  BY DEF IInv
<1>3. WireOK'
  BY <1>1, <1>2, WireTypes DEF WireOK
<1>4. SocketOK'
  <2>1. client.socket \in Sockets \union {NoSocket}
    BY DEF IInv, ClientOK, Clients
  <2> QED BY <1>1, <1>2, <2>1 DEF IInv, SocketOK, WireOK
<1>5. \A t \in Sockets : (conn'[t] = conn[t] /\ up'[t] = up[t]) \/ conn[t] = "gone"
  BY <1>1, <1>2 DEF WireOK
<1>6. \A m \in Messages : Coming(m) => Coming(m)'
  <2>1. \A m \in Messages, t \in Sockets : Alive(m, t) => Alive(m, t)'
    BY <1>1, <1>5 DEF Alive
  <2> QED BY <1>1, <2>1 DEF Coming, Unanswered
<1>7. \A m \in Messages : Steady(m)
  BY <1>1 DEF Steady
<1> QED BY <1>1, <1>3, <1>4, <1>6, <1>7, CalmSelf, SteadyStep DEF IInv, Woken

\* A frame the gateway takes up is one less under way to it.
LEMMA TakenUp ==
  ASSUME WireOK, NEW s \in Sockets, up[s] # <<>>, up' = [up EXCEPT ![s] = Tail(@)]
  PROVE  /\ up' \in [Sockets -> Seq(Messages)] /\ Head(up[s]) \in Messages
         /\ \A t \in Sockets : ToSet(up[t]) \subseteq ToSet(up'[t]) \union {Head(up[s])}
         /\ \A t \in Sockets \ {s} : up'[t] = up[t]
<1>1. up \in [Sockets -> Seq(Messages)]
  BY DEF WireOK
<1>2. /\ Head(up[s]) \in Messages /\ Tail(up[s]) \in Seq(Messages)
      /\ ToSet(up[s]) = ToSet(Tail(up[s])) \union {Head(up[s])}
  BY <1>1, ToSetTail
<1>3. \A t \in Sockets : up'[t] = IF t = s THEN Tail(up[s]) ELSE up[t]
  BY <1>1
<1> QED BY <1>1, <1>2, <1>3

LEMMA HandleSendInv == ASSUME IInv, NEW s \in Sockets, HandleSend(s) PROVE IInv'
<1> DEFINE m == Head(up[s])
           i == CHOOSE j \in DOMAIN log' : log'[j] = m
           f == [t |-> "msg.ack", m |-> m, seq |-> i]
<1>1. /\ up[s] # <<>> /\ up' = [up EXCEPT ![s] = Tail(@)]
      /\ log' = IF m \in ToSet(log) THEN log ELSE Append(log, m)
      /\ Send(s, f) /\ client' = client /\ conn' = conn
      /\ accepted' = accepted /\ applying' = applying /\ verdicts' = verdicts
  BY DEF HandleSend
<1>2. WireOK
  BY DEF IInv
<1>3. /\ up' \in [Sockets -> Seq(Messages)] /\ m \in Messages
      /\ \A t \in Sockets : ToSet(up[t]) \subseteq ToSet(up'[t]) \union {m}
      /\ \A t \in Sockets \ {s} : up'[t] = up[t]
  BY <1>1, <1>2, TakenUp
<1> HIDE DEF m
<1>4. /\ log' \in Seq(Messages) /\ \A k, j \in DOMAIN log' : log'[k] = log'[j] => k = j
      /\ ToSet(log) \subseteq ToSet(log')
      /\ \A k \in DOMAIN log : k \in DOMAIN log' /\ log'[k] = log[k]
      /\ Acks \subseteq Acks' /\ Frames \subseteq Frames'
  BY <1>1, <1>2, <1>3, LogGrows
<1>5. m \in ToSet(log')
  <2>1. log \in Seq(Messages)
    BY <1>2 DEF WireOK
  <2> QED BY <1>1, <1>3, <2>1, ToSetAppend
<1>6. i \in DOMAIN log' /\ log'[i] = m
  BY <1>4, <1>5, ToSetIs
<1>7. i \in Nat
  BY <1>4, <1>6
<1> HIDE DEF i
<1>8. f \in Acks' /\ f \in Frames'
  BY <1>3, <1>6, <1>7 DEF Acks, Frames
<1>9. f.t = "msg.ack" /\ f.m = m
  OBVIOUS
<1> HIDE DEF f
<1>10. /\ down' \in [Sockets -> Seq(Frames')]
       /\ \A t \in Sockets : ToSet(down[t]) \subseteq ToSet(down'[t])
       /\ conn[s] = "open" => f \in ToSet(down'[s])
  BY <1>1, <1>2, <1>4, <1>8, SendTypes
<1>11. WireOK'
  BY <1>1, <1>2, <1>3, <1>4, <1>10 DEF WireOK
<1>12. SocketOK'
  BY <1>1 DEF IInv, SocketOK
<1>13. \A n \in Messages, t \in Sockets : Alive(n, t) => Alive(n, t)'
  BY <1>1, <1>3, <1>9, <1>10 DEF Alive
<1>14. \A n \in Messages : Coming(n) => Coming(n)'
  BY <1>1, <1>13 DEF Coming, Unanswered
<1>15. \A n \in Messages : Steady(n)
  BY <1>1 DEF Steady
<1> QED BY <1>1, <1>4, <1>11, <1>12, <1>14, <1>15, CalmSelf, SteadyStep DEF IInv, Woken

\* It is refused, told to come back, or never answered: that is on record.
LEMMA FailSendInv ==
  ASSUME IInv, NEW s \in Sockets, NEW code \in {"moment", "refused", "malformed", "silence"},
         FailSend(s, code)
  PROVE  IInv'
<1> DEFINE m == Head(up[s])
           f == [t |-> "msg.err", m |-> m, code |-> code]
<1>1. /\ up[s] # <<>> /\ up' = [up EXCEPT ![s] = Tail(@)]
      /\ IF code = "silence" THEN down' = down ELSE Send(s, f)
      /\ verdicts' = verdicts \union {<<m, code>> : c \in {code} \ {"moment", "malformed"}}
      /\ client' = client /\ conn' = conn
      /\ accepted' = accepted /\ applying' = applying /\ log' = log
  BY DEF FailSend
<1>2. WireOK
  BY DEF IInv
<1>3. /\ up' \in [Sockets -> Seq(Messages)] /\ m \in Messages
      /\ \A t \in Sockets : ToSet(up[t]) \subseteq ToSet(up'[t]) \union {m}
      /\ \A t \in Sockets \ {s} : up'[t] = up[t]
  BY <1>1, <1>2, TakenUp
<1> HIDE DEF m
<1>4. code # "silence" => f \in Frames
  BY <1>3 DEF Frames
<1>5. f.t = "msg.err" /\ f.m = m
  OBVIOUS
<1> HIDE DEF f
<1>6. /\ down' \in [Sockets -> Seq(Frames)]
      /\ \A t \in Sockets : ToSet(down[t]) \subseteq ToSet(down'[t])
      /\ conn[s] = "open" /\ code # "silence" => f \in ToSet(down'[s])
  <2>1. CASE code = "silence"
    BY <1>1, <1>2, <2>1 DEF WireOK
  <2>2. CASE code # "silence"
    BY <1>1, <1>2, <1>4, <2>2, SendTypes
  <2> QED BY <2>1, <2>2
<1>7. WireOK'
  BY <1>1, <1>2, <1>3, <1>6, WireTypes DEF WireOK
<1>8. SocketOK'
  BY <1>1 DEF IInv, SocketOK
<1>9. code = "silence" => <<m, code>> \in verdicts'
  <2>1. code = "silence" => code \in {code} \ {"moment", "malformed"}
    OBVIOUS
  <2> QED BY <1>1, <2>1
<1>10. ASSUME NEW n \in Messages, Coming(n) PROVE Coming(n)'
  <2>1. CASE code = "silence" /\ n = m
    BY <1>9, <2>1 DEF Coming, Unanswered
  <2>2. CASE code # "silence" \/ n # m
    <3>1. \A t \in Sockets : Alive(n, t) => Alive(n, t)'
      BY <1>1, <1>3, <1>5, <1>6, <2>2 DEF Alive
    <3> QED BY <1>1, <1>10, <3>1 DEF Coming, Unanswered
  <2> QED BY <2>1, <2>2
<1>11. \A n \in Messages : Steady(n)
  BY <1>1 DEF Steady
<1> QED BY <1>1, <1>7, <1>8, <1>10, <1>11, CalmSelf, SteadyStep DEF IInv, Woken

-------------------------------------------------------------------------------
LEMMA Inductive == IInv /\ [Next]_vars => IInv'
<1> SUFFICES ASSUME IInv, [Next]_vars PROVE IInv'
  OBVIOUS
<1>1. CASE \E m \in Messages : Enqueue(m) \/ Attempt(m) \/ Exhaust(m) \/ Tap(m)
  BY <1>1, EnqueueInv, AttemptInv, ExhaustInv, TapInv
<1>2. CASE \E l \in Loops : DialAgain(l) \/ SyncEnds(l)
  BY <1>2, DialAgainInv, SyncEndsInv
<1>3. CASE Foreground \/ TimerFires \/ SignOut
  BY <1>3, ForegroundInv, TimerFiresInv, SignOutInv
<1>4. CASE \E s \in Sockets : HandshakeTimeout(s) \/ CloseEvent(s) \/ Receive(s) \/ AcceptAuth(s)
  BY <1>4, HandshakeTimeoutInv, CloseEventInv, ReceiveInv, AcceptAuthInv
<1>5. CASE \E s \in Sockets : HandleSend(s) \/ Break(s) \/ Forget(s)
  BY <1>5, HandleSendInv, BreakInv, ForgetInv
<1>6. CASE \E s \in Sockets : \E code \in {"refused", "timeout"} : RefuseAuth(s, code)
  BY <1>6, RefuseAuthInv
<1>7. CASE \E s \in Sockets : \E code \in {"moment", "refused", "malformed", "silence"} : FailSend(s, code)
  BY <1>7, FailSendInv
<1>8. CASE \E ack \in applying : Settle(ack)
  BY <1>8, SettleInv
<1>9. CASE UNCHANGED vars
  BY <1>9, StutterInv
<1> QED BY <1>1, <1>2, <1>3, <1>4, <1>5, <1>6, <1>7, <1>8, <1>9 DEF Next

LEMMA Invariant == Spec => []IInv
  BY InitInv, Inductive, PTL DEF Spec

\* The client object, the sockets and the log keep their types, through every overtaken
\* handshake, backoff and reconnection.
THEOREM TypeCorrect == Spec => []TypeOK
<1>1. IInv => TypeOK
  BY DEF IInv, ClientOK, Clients, WireOK, TypeOK
<1> QED BY <1>1, Invariant, PTL

\* "Recorded before it is sent, kept until answered": whatever becomes of the sockets, an
\* entry leaves the outbox only for a message that is stored or was refused for good.
THEOREM EntriesAreKept == Spec => []KeptUntilAnswered
<1>1. IInv => KeptUntilAnswered
  BY DEF IInv, Kept, KeptUntilAnswered
<1> QED BY <1>1, Invariant, PTL

\* A send resolves only with a seq at which its message really is, and a message has one
\* seq however often its frame was sent.
THEOREM ResolvedSendsAreStored == Spec => []ResolvedIsStored
<1>1. IInv => ResolvedIsStored
  BY DEF IInv, WireOK, Stored, ResolvedIsStored
<1> QED BY <1>1, Invariant, PTL

\* No send waits for nothing: its frame, its answer or the end of a socket is to come.
THEOREM WaitersAreWoken == Spec => []WakeUpIsComing
<1>1. IInv => WakeUpIsComing
  BY DEF IInv, Woken, Coming, Alive, WakeUpIsComing
<1> QED BY <1>1, Invariant, PTL

-----------------------------------------------------------------------------
\* A send is over when its promise has settled: what settled it stands, the entry it had
\* does not come back, and one that was answered leaves none.
Over == {"sent", "refused", "failed"}
Firm(m) ==
  /\ client.call[m] \in Over => client'.call[m] = client.call[m] /\ client'.got[m] = client.got[m]
  /\ client.call[m] # "new" /\ client.outbox[m] = "none" => client'.outbox[m] = "none"
  /\ client'.call[m] \in {"sent", "refused"} =>
        client'.call[m] = client.call[m] \/ client'.outbox[m] = "none"

LEMMA CalmIsFirm == Calm(client, client') => \A m \in Messages : Firm(m)
  BY DEF Calm, Firm, Over

LEMMA AttemptFirm == ASSUME IInv, NEW m \in Messages, Attempt(m) PROVE \A n \in Messages : Firm(n)
<1> DEFINE c == [client EXCEPT !.tries[m] = @ + 1]
<1>1. client.call[m] = "pausing" /\ client \in Clients
  BY DEF Attempt, IInv, ClientOK
<1>2. /\ c.outbox = client.outbox /\ c.got = client.got /\ c.call = client.call
      /\ c = [outbox |-> c.outbox, waiters |-> c.waiters, call |-> c.call, tries |-> c.tries,
              got |-> c.got, socket |-> c.socket, authenticated |-> c.authenticated,
              handshake |-> c.handshake, alarms |-> c.alarms, connecting |-> c.connecting,
              reconnecting |-> c.reconnecting, timer |-> c.timer, closedByUs |-> c.closedByUs,
              loop |-> c.loop]
  BY <1>1 DEF Clients
<1>3. c.call \in [Messages -> Calls]
  BY <1>1, <1>2 DEF Clients
<1>4. /\ client'.outbox = client.outbox /\ client'.got = client.got
      /\ \E how \in {"pausing", "waiting", "recovering"} : client'.call = [client.call EXCEPT ![m] = how]
  <2>1. CASE client' = Flushed(c, m)
    <3> HIDE DEF c
    <3> QED BY <1>2, <1>3, <2>1 DEF Flushed
  <2>2. CASE \E s \in Sockets :
               client' = Dial([c EXCEPT !.call[m] = "recovering", !.reconnecting = TRUE], m, s, Retries)
    <3> HIDE DEF c
    <3> QED BY <1>2, <1>3, <2>2 DEF Dial
  <2> QED BY <2>1, <2>2 DEF Attempt
<1> QED BY <1>1, <1>3, <1>2, <1>4 DEF Firm, Over

LEMMA ClientFirm ==
  ASSUME IInv, NEW m \in Messages, Enqueue(m) \/ Exhaust(m) \/ Tap(m)
  PROVE  \A n \in Messages : Firm(n)
<1>1. client \in Clients
  BY DEF IInv, ClientOK
<1>2. CASE Enqueue(m)
  BY <1>1, <1>2 DEF Enqueue, Clients, Firm, Over
<1>3. CASE Exhaust(m)
  BY <1>1, <1>3 DEF Exhaust, Clients, Firm, Over
<1>4. CASE Tap(m)
  BY <1>1, <1>4 DEF Tap, Clients, Firm, Over
<1> QED BY <1>2, <1>3, <1>4

LEMMA LoopFirm ==
  ASSUME IInv, Foreground \/ TimerFires \/ \E l \in Loops : DialAgain(l) \/ SyncEnds(l)
  PROVE  \A n \in Messages : Firm(n)
<1>1. client \in Clients /\ ClientOK(client)
  BY DEF IInv, ClientOK
<1>2. ASSUME NEW c \in Clients, c.call = client.call, c.outbox = client.outbox, c.got = client.got,
             NEW l, NEW left, Begin(l, c, left)
      PROVE  \A n \in Messages : Firm(n)
  <2>1. client'.call = client.call /\ client'.outbox = client.outbox /\ client'.got = client.got
    BY <1>2 DEF Begin, Dial, Clients
  <2> QED BY <2>1 DEF Firm
<1>3. CASE Foreground \/ TimerFires
  <2>1. PICK d : d = [client EXCEPT !.reconnecting = TRUE]
    OBVIOUS
  <2>2. d \in Clients /\ d.call = client.call /\ d.outbox = client.outbox /\ d.got = client.got
    BY <1>1, <2>1 DEF Clients
  <2>3. Begin("app", d, Retries) \/ Begin("timer", d, 1)
    BY <1>3, <2>1 DEF Foreground, TimerFires
  <2> QED BY <1>2, <2>2, <2>3
<1>4. ASSUME NEW l \in Loops, DialAgain(l) PROVE \A n \in Messages : Firm(n)
  BY <1>1, <1>2, <1>4 DEF DialAgain
<1>5. ASSUME NEW l \in Loops, SyncEnds(l) PROVE \A n \in Messages : Firm(n)
  <2>1. client.handshake # l /\ (l \in Messages => client.call[l] = "recovering")
    BY <1>1, <1>5, Names DEF SyncEnds, ClientOK, LoopsOK
  <2>2. CASE client' = Finished(client, l, "up")
    <3>1. /\ client'.got = client.got /\ client'.outbox = client.outbox
          /\ \A n \in Messages \ {l} : client'.call[n] = client.call[n]
          /\ l \in Messages => client'.call[l] \in {"pausing", "waiting"}
      BY <1>1, <2>1, <2>2, FinishedUpShape
    <3> QED BY <2>1, <3>1 DEF Firm, Over
  <2>3. CASE client' = AttemptFailed(client, l)
    BY <1>1, <2>1, <2>3, AttemptFailedShape, CalmIsFirm
  <2> QED BY <1>5, <2>2, <2>3 DEF SyncEnds
<1> QED BY <1>3, <1>4, <1>5

LEMMA SocketFirm ==
  ASSUME IInv, \/ SignOut
               \/ \E s \in Sockets : HandshakeTimeout(s) \/ CloseEvent(s)
  PROVE  \A n \in Messages : Firm(n)
<1>1. client \in Clients /\ ClientOK(client)
  BY DEF IInv, ClientOK
<1>2. CASE SignOut
  BY <1>1, <1>2 DEF SignOut, Clients, Firm
<1>3. ASSUME NEW s \in Sockets, HandshakeTimeout(s) PROVE \A n \in Messages : Firm(n)
  <2>1. PICK d : d = [client EXCEPT !.alarms = @ \ {s}]
    OBVIOUS
  <2>2. ClientOK(d) /\ Calm(client, d) /\ d.call = client.call
    BY <1>1, <2>1 DEF ClientOK, Clients, LoopsOK, Calm
  <2>3. client' = HandshakeFailed(d, "down")
    BY <1>3, <2>1 DEF HandshakeTimeout
  <2>4. Calm(d, client')
    BY <2>2, <2>3, HandshakeFailedShape
  <2> QED BY <2>2, <2>4 DEF Calm, Firm, Over
<1>4. ASSUME NEW s \in Sockets, CloseEvent(s) PROVE \A n \in Messages : Firm(n)
  <2>1. client' = SocketClosed(client, s)
    BY <1>4 DEF CloseEvent
  <2>2. /\ client'.outbox = client.outbox /\ client'.got = client.got
        /\ \A m \in Messages :
              \/ client'.call[m] = client.call[m]
              \/ client.call[m] \in {"recovering", "waiting"} /\ client'.call[m] = "pausing"
    BY <1>1, <2>1, SocketClosedShape
  <2> QED BY <2>2 DEF Firm, Over
<1> QED BY <1>2, <1>3, <1>4

\* A late ack, or a late refusal, finds its waiter gone and settles nothing.
LEMMA AnswerFirm ==
  ASSUME IInv, \/ \E s \in Sockets : Receive(s)
               \/ \E ack \in applying : Settle(ack)
  PROVE  \A n \in Messages : Firm(n)
<1>1. client \in Clients /\ ClientOK(client) /\ WireOK
  BY DEF IInv, ClientOK
<1>2. ASSUME NEW s \in Sockets, Receive(s) PROVE \A n \in Messages : Firm(n)
  <2> DEFINE f == Head(down[s])
  <2>1. f \in Frames
    BY <1>1, <1>2, ToSetTail DEF WireOK, Receive
  <2>2. \/ f.t = "auth.ok" /\ client' = HandshakeDone(client)
        \/ f.t = "auth.err" /\ client' = HandshakeFailed(client, f.code)
        \/ f.t = "msg.err" /\ client' = Rejected(client, f.m, f.code \in TerminalCodes)
        \/ client' = client
    BY <1>2 DEF Receive
  <2> HIDE DEF f
  <2>3. CASE f.t = "auth.ok" /\ client' = HandshakeDone(client)
    BY <1>1, <2>3, HandshakeDoneShape, CalmIsFirm
  <2>4. CASE f.t = "auth.err" /\ client' = HandshakeFailed(client, f.code)
    <3>1. f.code # "up"
      BY <2>1, <2>4, FrameKinds
    <3> QED BY <1>1, <2>4, <3>1, HandshakeFailedShape, CalmIsFirm
  <2>5. CASE f.t = "msg.err" /\ client' = Rejected(client, f.m, f.code \in TerminalCodes)
    <3>1. f.m \in Messages
      BY <2>1, <2>5, FrameKinds
    <3>2. PICK m \in Messages : m = f.m
      BY <3>1
    <3>3. PICK terminal \in BOOLEAN : terminal = (f.code \in TerminalCodes)
      <4>1. (f.code \in TerminalCodes) \in BOOLEAN
        OBVIOUS
      <4> QED BY Zenon, <4>1
    <3>4. client' = Rejected(client, m, terminal)
      BY <2>5, <3>2, <3>3
    <3>5. /\ client'.got = client.got
          /\ \A n \in Messages \ {m} : client'.call[n] = client.call[n] /\ client'.outbox[n] = client.outbox[n]
          /\ \/ client'.call[m] = client.call[m] /\ client'.outbox[m] = client.outbox[m]
             \/ client.call[m] = "waiting" /\ client'.call[m] = "refused" /\ client'.outbox[m] = "none"
             \/ client.call[m] = "waiting" /\ client'.call[m] = "pausing" /\ client'.outbox[m] = client.outbox[m]
      BY <1>1, <3>4, RejectedShape
    <3> QED BY <3>5 DEF Firm, Over
  <2>6. CASE client' = client
    BY <2>6 DEF Firm
  <2> QED BY <2>2, <2>3, <2>4, <2>5, <2>6
<1>3. ASSUME NEW ack \in applying, Settle(ack) PROVE \A n \in Messages : Firm(n)
  <2>1. PICK m : m = ack.m
    OBVIOUS
  <2>2. m \in Messages
    BY <1>1, <2>1 DEF WireOK, Acks
  <2>3. client' = [client EXCEPT !.outbox[m] = "none", !.waiters = @ \ {m},
                                 !.call[m] = IF m \in client.waiters /\ @ = "waiting" THEN "sent" ELSE @,
                                 !.got[m] = IF m \in client.waiters /\ client.call[m] = "waiting"
                                            THEN ack.seq ELSE @]
    BY <1>3, <2>1 DEF Settle
  <2>4. /\ \A n \in Messages \ {m} : /\ client'.call[n] = client.call[n] /\ client'.got[n] = client.got[n]
                                     /\ client'.outbox[n] = client.outbox[n]
        /\ client'.outbox[m] = "none"
        /\ client.call[m] # "waiting" => client'.call[m] = client.call[m] /\ client'.got[m] = client.got[m]
    BY <1>1, <2>2, <2>3 DEF Clients
  <2> QED BY <2>4 DEF Firm, Over
<1> QED BY <1>2, <1>3

LEMMA FirmStep == ASSUME IInv, [Next]_vars PROVE \A n \in Messages : Firm(n)
<1>1. CASE client' = client
  BY <1>1 DEF Firm
<1>2. CASE \E s \in Sockets : \/ AcceptAuth(s) \/ HandleSend(s) \/ Break(s) \/ Forget(s)
                              \/ \E code \in {"refused", "timeout"} : RefuseAuth(s, code)
                              \/ \E code \in {"moment", "refused", "malformed", "silence"} : FailSend(s, code)
  BY <1>1, <1>2 DEF AcceptAuth, HandleSend, Break, Forget, RefuseAuth, FailSend
<1>3. CASE \/ \E m \in Messages : Enqueue(m) \/ Attempt(m) \/ Exhaust(m) \/ Tap(m)
           \/ \E l \in Loops : DialAgain(l) \/ SyncEnds(l)
           \/ Foreground \/ TimerFires \/ SignOut
           \/ \E s \in Sockets : HandshakeTimeout(s) \/ CloseEvent(s) \/ Receive(s)
           \/ \E ack \in applying : Settle(ack)
  BY <1>3, AttemptFirm, ClientFirm, LoopFirm, SocketFirm, AnswerFirm
<1>4. CASE UNCHANGED vars
  BY <1>1, <1>4 DEF vars
<1> QED BY <1>2, <1>3, <1>4 DEF Next

AnsweredIsGone == \A m \in Messages : client.call[m] \in {"sent", "refused"} => client.outbox[m] = "none"

\* The promise of a send settles once (sendWithRetry, AckWaiter): acks and refusals of its
\* earlier attempts, closes of sockets it was written to and taps that send it again may
\* arrive at any time after, and neither what it settled with nor the seq it returned
\* changes; nor is there an entry of an answered send for a later flush to send again.
THEOREM SettledOnce ==
  Spec => [][\A m \in Messages :
               /\ client.call[m] \in Over =>
                     client'.call[m] = client.call[m] /\ client'.got[m] = client.got[m]
               /\ client.call[m] \in {"sent", "refused"} =>
                     client.outbox[m] = "none" /\ client'.outbox[m] = "none"]_vars
<1>1. Init => AnsweredIsGone
  BY DEF Init, Fresh, Dial, AnsweredIsGone
<1>2. IInv /\ AnsweredIsGone /\ [Next]_vars => AnsweredIsGone'
  BY FirmStep DEF Firm, AnsweredIsGone
<1>3. Spec => [](IInv /\ AnsweredIsGone)
  BY <1>1, <1>2, InitInv, Inductive, PTL DEF Spec
<1>4. IInv /\ AnsweredIsGone /\ [Next]_vars =>
        [\A m \in Messages :
               /\ client.call[m] \in Over =>
                     client'.call[m] = client.call[m] /\ client'.got[m] = client.got[m]
               /\ client.call[m] \in {"sent", "refused"} =>
                     client.outbox[m] = "none" /\ client'.outbox[m] = "none"]_vars
  BY FirmStep DEF Firm, AnsweredIsGone
<1> QED BY <1>3, <1>4, PTL DEF Spec

-----------------------------------------------------------------------------
\* The channel that the gateway stores sends in, as ChannelLog sees it: each message of
\* this member is a key, and nothing is changed or closed here.
LogEntry(i) == [seq |-> i, sender |-> "member", key |-> log[i], rev |-> i]

Channel == INSTANCE ChannelLog
             WITH Users <- {"member"}, Keys <- Messages,
                  entries <- {LogEntry(i) : i \in DOMAIN log},
                  top <- Len(log), rev <- Len(log), open <- TRUE

\* Only a send that the gateway handles writes to the log, and only a new message.
LEMMA LogMoves ==
  ASSUME IInv, [Next]_vars
  PROVE  log' = log \/ \E m \in Messages : m \notin ToSet(log) /\ log' = Append(log, m)
<1>1. CASE \E m \in Messages : Enqueue(m) \/ Attempt(m) \/ Exhaust(m) \/ Tap(m)
  BY <1>1 DEF Enqueue, Attempt, Exhaust, Tap
<1>2. CASE \E l \in Loops : DialAgain(l) \/ SyncEnds(l)
  BY <1>2 DEF DialAgain, Begin, SyncEnds
<1>3. CASE Foreground \/ TimerFires \/ SignOut
  BY <1>3 DEF Foreground, TimerFires, SignOut, Begin
<1>4. CASE \E s \in Sockets : HandshakeTimeout(s) \/ CloseEvent(s) \/ Receive(s) \/ AcceptAuth(s)
  BY <1>4 DEF HandshakeTimeout, CloseEvent, Receive, AcceptAuth
<1>5. ASSUME NEW s \in Sockets, HandleSend(s)
      PROVE  log' = log \/ \E m \in Messages : m \notin ToSet(log) /\ log' = Append(log, m)
  <2>1. up \in [Sockets -> Seq(Messages)] /\ up[s] # <<>>
    BY <1>5 DEF IInv, WireOK, HandleSend
  <2>2. Head(up[s]) \in Messages
    BY <2>1
  <2>3. log' = IF Head(up[s]) \in ToSet(log) THEN log ELSE Append(log, Head(up[s]))
    BY <1>5 DEF HandleSend
  <2> QED BY <2>2, <2>3
<1>6. CASE \E s \in Sockets : Break(s) \/ Forget(s)
  BY <1>6 DEF Break, Forget
<1>7. CASE \E s \in Sockets : \E code \in {"refused", "timeout"} : RefuseAuth(s, code)
  BY <1>7 DEF RefuseAuth
<1>8. CASE \E s \in Sockets : \E code \in {"moment", "refused", "malformed", "silence"} : FailSend(s, code)
  BY <1>8 DEF FailSend
<1>9. CASE \E ack \in applying : Settle(ack)
  BY <1>9 DEF Settle
<1>10. CASE UNCHANGED vars
  BY <1>10 DEF vars
<1> QED BY <1>1, <1>2, <1>3, <1>4, <1>5, <1>6, <1>7, <1>8, <1>9, <1>10 DEF Next

\* Retries, reconnections and lost acks notwithstanding, what a client's sends leave on the
\* server is a channel's log as everybody else knows it: one entry for each message, at the
\* next seq (handleSend, appendMessage; ChannelLog).
THEOREM SendsAreAppends == Spec => Channel!Spec
<1>1. Init => Channel!Init
  BY DEF Init, Channel!Init
<1>2. IInv /\ [Next]_vars => [Channel!Next]_Channel!logVars
  <2> SUFFICES ASSUME IInv, [Next]_vars PROVE [Channel!Next]_Channel!logVars
    OBVIOUS
  <2>1. CASE log' = log
    BY <2>1 DEF Channel!logVars, LogEntry
  <2>2. ASSUME NEW m \in Messages, m \notin ToSet(log), log' = Append(log, m)
        PROVE  Channel!Next
    <3> PICK n : n = Len(log) + 1
      OBVIOUS
    <3> DEFINE entry == [seq |-> n, sender |-> "member", key |-> m, rev |-> n]
    <3>1. log \in Seq(Messages) /\ Len(log) \in Nat /\ DOMAIN log = 1..Len(log)
      BY DEF IInv, WireOK
    <3>2. Len(log') = n /\ DOMAIN log' = 1..n /\ log'[n] = m /\ \A i \in 1..Len(log) : log'[i] = log[i]
      BY <2>2, <3>1
    <3>3. \A i \in 1..n : i \in 1..Len(log) \/ i = n
      BY <3>1
    <3>4. 1..Len(log) \subseteq 1..n /\ n \in 1..n
      BY <3>1
    <3>5. \A i \in DOMAIN log : log[i] # m
      BY <2>2, <3>1, ToSetIs
    <3>6. \A i \in 1..Len(log) : LogEntry(i)' = LogEntry(i)
      BY <3>2 DEF LogEntry
    <3>7. LogEntry(n)' = entry
      BY <3>2 DEF LogEntry
    <3> HIDE DEF entry
    <3>8. {LogEntry(i) : i \in DOMAIN log}' = {LogEntry(i) : i \in DOMAIN log} \union {entry}
      BY <3>1, <3>2, <3>3, <3>4, <3>6, <3>7
    <3>9. \A e \in {LogEntry(i) : i \in DOMAIN log} : e.key # m
      BY <3>5 DEF LogEntry
    <3>10. Channel!Append("member", m)
      BY <3>2, <3>8, <3>9 DEF Channel!Append, entry
    <3> QED BY <3>10 DEF Channel!Next
  <2> QED BY <2>1, <2>2, LogMoves
<1> QED BY <1>1, <1>2, Invariant, PTL DEF Channel!Spec, Spec

(***************************************************************************)
(* The receiving half: what the watermark of a channel stands for.  ChatSync *)
(* is instantiated beside the model of the sends and shares nothing with it; *)
(* `rows' is its log.                                                       *)
(***************************************************************************)
CONSTANTS Fetches, PageSize, MaxSeq, MaxRev, MaxFlight, MaxBreaks
VARIABLES rows, lastRev, news, updates, online, frames, held, mark, fetch, breaks, shown

Sync == INSTANCE ChatSync WITH log <- rows

\* What is under way to the client was true when it was said.
Honest(e) == e.seq \in DOMAIN rows /\ e.at \in 1..rows[e.seq].rev

HonestFrames == {e \in [t : {"new", "update"}, seq : Nat, at : Nat] : Honest(e)}
HonestRows == {e \in [seq : Nat, at : Nat] : Honest(e)}

\* Every row whose last change is at or below c has been stored as it is now.
Covered(c) == \A s \in DOMAIN rows : rows[s].rev <= c => shown[s] = rows[s].rev

ServerOK ==
  /\ rows \in Seq([sent : Nat, rev : Nat]) /\ lastRev \in Nat
  /\ \A s \in DOMAIN rows : /\ s \in Sync!Seqs
                            /\ rows[s].rev \in 1..lastRev /\ rows[s].sent \in 1..rows[s].rev
  /\ news \subseteq HonestRows /\ updates \subseteq DOMAIN rows
  /\ frames \in Seq(HonestFrames)

StoreOK ==
  /\ held \in [Sync!Seqs -> Nat] /\ shown \in [Sync!Seqs -> Nat]
  /\ \A s \in Sync!Seqs :
        IF s \in DOMAIN rows THEN held[s] <= rows[s].rev /\ shown[s] <= rows[s].rev
        ELSE held[s] = 0 /\ shown[s] = 0
  /\ mark \in 0..lastRev /\ Covered(mark)

\* Where a reconciliation is: it asks from a covered revision; every row as old as the
\* newest of its page is in the page or stored; and all of that is stored before the mark.
FetchOK(x) ==
  /\ x = [step |-> x.step, repairing |-> x.repairing, cursor |-> x.cursor, page |-> x.page,
          more |-> x.more]
  /\ x.page \subseteq HonestRows
  /\ \A r, q \in x.page : r.seq = q.seq => r = q
  /\ x.step = "ask" /\ ~x.repairing => x.cursor \in 0..lastRev /\ Covered(x.cursor)
  /\ x.step = "apply" /\ ~x.repairing =>
        \A r \in x.page, s \in DOMAIN rows :
           rows[s].rev <= r.at => \/ shown[s] = rows[s].rev
                                  \/ \E q \in x.page : q.seq = s /\ q.at = rows[s].rev
  /\ x.step = "mark" => x.page # {} /\ \A r \in x.page : Covered(r.at)

SyncInv ==
  /\ ServerOK /\ StoreOK
  /\ DOMAIN fetch = Fetches /\ fetch = [f \in Fetches |-> fetch[f]]
  /\ \A f \in Fetches : FetchOK(fetch[f])

-----------------------------------------------------------------------------
LEMMA Least == ASSUME NEW S \in SUBSET Nat, S # {} PROVE \E m \in S : \A k \in S : m <= k
<1> DEFINE R == OpToRel(<, Nat)
<1>1. IsWellFoundedOn(R, Nat)
  BY NatLessThanWellFounded
<1>2. \A x, y \in Nat : y < x => <<y, x>> \in R
  BY DEF OpToRel
<1> HIDE DEF R
<1>3. PICK x \in S : \A y \in S : ~(<<y, x>> \in R)
  BY <1>1, WFMin
<1>4. \A y \in S : ~(y < x)
  BY <1>2, <1>3
<1> QED BY <1>3, <1>4

\* A set of numbers with a bound has a greatest.
LEMMA MaxIs ==
  ASSUME NEW N \in Nat, NEW S \in SUBSET (0..N), S # {}
  PROVE  Sync!Max(S) \in S /\ \A k \in S : k <= Sync!Max(S)
<1> DEFINE T == {n \in Nat : \A k \in S : k <= n}
<1>1. N \in T
  OBVIOUS
<1>2. PICK m \in T : \A k \in T : m <= k
  <2> HIDE DEF T
  <2>1. T \in SUBSET Nat
    BY DEF T
  <2> QED BY <1>1, <2>1, Least
<1>3. m \in S
  <2> SUFFICES ASSUME m \notin S PROVE FALSE
    OBVIOUS
  <2>1. m \in Nat /\ \A k \in S : k \in Nat /\ k < m
    BY <1>2
  <2>2. PICK k \in S : TRUE
    OBVIOUS
  <2>3. m > 0
    BY <2>1, <2>2
  <2>4. m - 1 \in T
    BY <2>1, <2>3
  <2> QED BY <1>2, <2>1, <2>3, <2>4
<1>4. \A k \in S : m >= k
  BY <1>2
<1> QED BY <1>3, <1>4 DEF Sync!Max

LEMMA MaxOfTwo ==
  ASSUME NEW a \in Nat, NEW b \in Nat
  PROVE  Sync!Max({a, b}) = IF a >= b THEN a ELSE b
<1>1. {a, b} \in SUBSET (0..(a + b)) /\ a + b \in Nat
  OBVIOUS
<1>2. Sync!Max({a, b}) \in {a, b} /\ \A k \in {a, b} : k <= Sync!Max({a, b})
  BY <1>1, MaxIs
<1> QED BY <1>2

-----------------------------------------------------------------------------
\* The server's rows only change to a revision newer than any that was told.
Grows ==
  /\ lastRev \in Nat /\ lastRev' \in Nat /\ lastRev <= lastRev'
  /\ DOMAIN rows \subseteq DOMAIN rows'
  /\ \A s \in DOMAIN rows : rows'[s] = rows[s] \/ rows'[s].rev > lastRev
  /\ \A s \in DOMAIN rows' : rows'[s].rev \in Nat
  /\ \A s \in DOMAIN rows' \ DOMAIN rows : rows'[s].rev > lastRev
  /\ \A s \in DOMAIN rows : shown[s] = rows[s].rev => shown'[s] = rows[s].rev

LEMMA GrowsKeeps ==
  ASSUME SyncInv, Grows
  PROVE  /\ HonestRows \subseteq HonestRows' /\ HonestFrames \subseteq HonestFrames'
         /\ \A c \in 0..lastRev : Covered(c) => Covered(c)'
         /\ \A x : FetchOK(x) => FetchOK(x)'
<1>1. \A s \in DOMAIN rows : rows[s].rev \in Nat /\ rows[s].rev <= lastRev /\ rows[s].rev <= rows'[s].rev
  <2> SUFFICES ASSUME NEW s \in DOMAIN rows
               PROVE  rows[s].rev \in Nat /\ rows[s].rev <= lastRev /\ rows[s].rev <= rows'[s].rev
    OBVIOUS
  <2>1. rows[s].rev \in 1..lastRev /\ lastRev \in Nat
    BY DEF SyncInv, ServerOK
  <2>2. rows'[s] = rows[s] \/ (rows'[s].rev > lastRev /\ rows'[s].rev \in Nat)
    BY DEF Grows
  <2> QED BY <2>1, <2>2
<1>2. \A e : e.at \in Nat /\ Honest(e) => Honest(e)'
  BY <1>1 DEF Honest, Grows
<1>3. HonestRows \subseteq HonestRows' /\ HonestFrames \subseteq HonestFrames'
  BY <1>2 DEF HonestRows, HonestFrames
<1>4. \A c \in 0..lastRev, s \in DOMAIN rows' :
         rows'[s].rev <= c => s \in DOMAIN rows /\ rows'[s] = rows[s]
  BY DEF Grows
<1>5. \A c \in 0..lastRev : Covered(c) => Covered(c)'
  <2>1. \A s \in DOMAIN rows : shown[s] = rows[s].rev => shown'[s] = rows[s].rev
    BY DEF Grows
  <2> QED BY <1>4, <2>1 DEF Covered
<1>6. \A r \in HonestRows : r.at \in 0..lastRev
  BY <1>1 DEF HonestRows, Honest, Grows
<1>7. ASSUME NEW x, FetchOK(x) PROVE FetchOK(x)'
  <2>1. \A r \in x.page : r.at \in 0..lastRev
    BY <1>6, <1>7 DEF FetchOK
  <2>2. x.step = "ask" /\ ~x.repairing => x.cursor \in 0..lastRev' /\ Covered(x.cursor)'
    BY <1>5, <1>7 DEF FetchOK, Grows
  <2>3. x.step = "mark" => x.page # {} /\ \A r \in x.page : Covered(r.at)'
    BY <1>5, <1>7, <2>1 DEF FetchOK
  <2>4. x.step = "apply" /\ ~x.repairing =>
           \A r \in x.page, s \in DOMAIN rows' :
              rows'[s].rev <= r.at => \/ shown'[s] = rows'[s].rev
                                      \/ \E q \in x.page : q.seq = s /\ q.at = rows'[s].rev
    BY <1>4, <1>7, <2>1 DEF FetchOK, Grows
  <2>5. x.page \subseteq HonestRows'
    BY <1>3, <1>7 DEF FetchOK
  <2> QED BY <1>7, <2>2, <2>3, <2>4, <2>5 DEF FetchOK
<1> QED BY <1>3, <1>5, <1>7
LEMMA FramesGrow ==
  ASSUME NEW T, frames \in Seq(HonestFrames), HonestFrames \subseteq T
  PROVE  frames \in Seq(T)
  OBVIOUS

Bounds == MaxSeq \in Nat /\ PageSize \in Nat \ {0}

\* A step of the server, or of the network, that the store and the reconciliations
\* do not notice.
LEMMA ServerStep ==
  ASSUME SyncInv, Grows, ServerOK', held' = held, shown' = shown, mark' = mark, fetch' = fetch,
         \A s \in DOMAIN rows : rows'[s].rev >= rows[s].rev
  PROVE  SyncInv'
<1>1. \A c \in 0..lastRev : Covered(c) => Covered(c)'
  BY GrowsKeeps
<1>2. \A x : FetchOK(x) => FetchOK(x)'
  BY GrowsKeeps
<1>3. mark' \in 0..lastRev' /\ Covered(mark)'
  <2>1. mark \in 0..lastRev /\ Covered(mark)
    BY DEF SyncInv, StoreOK
  <2>2. Covered(mark) => Covered(mark)'
    BY <1>1, <2>1 DEF Covered
  <2> QED BY <2>1, <2>2 DEF Grows
<1>4. \A s \in Sync!Seqs : IF s \in DOMAIN rows' THEN held'[s] <= rows'[s].rev /\ shown'[s] <= rows'[s].rev
                           ELSE held'[s] = 0 /\ shown'[s] = 0
  <2> SUFFICES ASSUME NEW s \in Sync!Seqs
               PROVE  IF s \in DOMAIN rows' THEN held'[s] <= rows'[s].rev /\ shown'[s] <= rows'[s].rev
                      ELSE held'[s] = 0 /\ shown'[s] = 0
    OBVIOUS
  <2>1. held[s] \in Nat /\ shown[s] \in Nat
    BY DEF SyncInv, StoreOK
  <2>2. CASE s \in DOMAIN rows
    <3>1. held[s] <= rows[s].rev /\ shown[s] <= rows[s].rev
      BY <2>2 DEF SyncInv, StoreOK
    <3>2. s \in DOMAIN rows' /\ rows'[s].rev \in Nat
      BY <2>2 DEF Grows
    <3>3. rows[s].rev \in Nat
      BY <2>2 DEF SyncInv, ServerOK
    <3>4. rows'[s].rev >= rows[s].rev
      BY <2>2
    <3> QED BY <2>1, <3>1, <3>2, <3>3, <3>4
  <2>3. CASE s \notin DOMAIN rows
    <3>1. held[s] = 0 /\ shown[s] = 0
      BY <2>3 DEF SyncInv, StoreOK
    <3>2. s \in DOMAIN rows' => rows'[s].rev \in Nat
      BY DEF Grows
    <3> QED BY <3>1, <3>2
  <2> QED BY <2>2, <2>3
<1>5. StoreOK'
  BY <1>3, <1>4 DEF SyncInv, StoreOK, Sync!Seqs
<1> QED BY <1>2, <1>5 DEF SyncInv

LEMMA AppendMessageInv == ASSUME Bounds, SyncInv, Sync!AppendMessage PROVE SyncInv'
<1> DEFINE row == [sent |-> lastRev + 1, rev |-> lastRev + 1]
           n == Len(rows) + 1
<1>1. /\ Len(rows) < MaxSeq /\ lastRev' = lastRev + 1 /\ rows' = Append(rows, row)
      /\ news' = news \union {[seq |-> Len(rows'), at |-> lastRev']} /\ updates' = updates
      /\ frames' = frames /\ held' = held /\ shown' = shown /\ mark' = mark /\ fetch' = fetch
  BY DEF Sync!AppendMessage, Sync!client
<1>2. rows \in Seq([sent : Nat, rev : Nat]) /\ Len(rows) \in Nat /\ DOMAIN rows = 1..Len(rows) /\ lastRev \in Nat
  BY DEF SyncInv, ServerOK
<1>3. row \in [sent : Nat, rev : Nat]
  BY <1>2
<1> HIDE DEF row
<1>4. /\ rows' \in Seq([sent : Nat, rev : Nat]) /\ DOMAIN rows' = 1..n /\ Len(rows') = n
      /\ rows'[n] = row /\ \A s \in 1..Len(rows) : rows'[s] = rows[s]
  <2> DEFINE a == Append(rows, row)
  <2>1. a \in Seq([sent : Nat, rev : Nat]) /\ DOMAIN a = 1..n /\ Len(a) = n
    BY <1>2, <1>3
  <2>2. a[n] = row /\ \A s \in 1..Len(rows) : a[s] = rows[s]
    BY <1>2, <1>3
  <2> QED BY <1>1, <2>1, <2>2
<1>5. 1..Len(rows) \subseteq 1..n /\ n \in 1..n /\ n \in Nat /\ n \in 1..MaxSeq
      /\ \A s \in 1..n : s \in 1..Len(rows) \/ s = n
  BY <1>1, <1>2 DEF Bounds
<1> HIDE DEF n
<1>6. row.rev = lastRev + 1 /\ row.sent = lastRev + 1
  BY DEF row
<1>7. Grows
  <2>1. \A s \in DOMAIN rows : rows[s].rev \in Nat
    BY DEF SyncInv, ServerOK
  <2>2. \A s \in DOMAIN rows' : rows'[s].rev \in Nat
    BY <1>2, <1>4, <1>5, <1>6, <2>1
  <2>3. \A s \in DOMAIN rows' \ DOMAIN rows : rows'[s].rev > lastRev
    BY <1>2, <1>4, <1>5, <1>6
  <2> QED BY <1>1, <1>2, <1>4, <1>5, <2>2, <2>3 DEF Grows
<1>8. HonestRows \subseteq HonestRows' /\ HonestFrames \subseteq HonestFrames'
  BY <1>7, GrowsKeeps
<1>9. [seq |-> Len(rows'), at |-> lastRev'] \in HonestRows'
  BY <1>1, <1>2, <1>4, <1>5, <1>6 DEF HonestRows, Honest
<1>10. \A s \in DOMAIN rows' : /\ s \in Sync!Seqs
                               /\ rows'[s].rev \in 1..lastRev' /\ rows'[s].sent \in 1..rows'[s].rev
  <2>1. \A s \in DOMAIN rows : /\ s \in Sync!Seqs
                               /\ rows[s].rev \in 1..lastRev /\ rows[s].sent \in 1..rows[s].rev
    BY DEF SyncInv, ServerOK
  <2>2. \A s \in 1..Len(rows) : rows[s].rev \in 1..lastRev'
    <3>1. \A s \in 1..Len(rows) : rows[s].rev \in 1..lastRev
      BY <1>2, <2>1
    <3>2. 1..lastRev \subseteq 1..lastRev'
      BY <1>1, <1>2
    <3> QED BY <3>1, <3>2
  <2>3. row.rev \in 1..lastRev' /\ row.sent \in 1..row.rev
    BY <1>1, <1>2, <1>6
  <2> QED BY <1>2, <1>4, <1>5, <2>1, <2>2, <2>3 DEF Sync!Seqs
<1>11. frames' \in Seq(HonestFrames')
  <2>1. frames \in Seq(HonestFrames')
    BY <1>8, FramesGrow DEF SyncInv, ServerOK
  <2> QED BY <1>1, <2>1
<1>12. ServerOK'
  BY <1>1, <1>2, <1>4, <1>5, <1>8, <1>9, <1>10, <1>11 DEF SyncInv, ServerOK
<1>13. \A s \in DOMAIN rows : rows'[s].rev >= rows[s].rev
  BY <1>2, <1>4 DEF SyncInv, ServerOK
<1> QED BY <1>1, <1>7, <1>12, <1>13, ServerStep

LEMMA ChangeMessageInv == ASSUME SyncInv, NEW s \in DOMAIN rows, Sync!ChangeMessage(s) PROVE SyncInv'
<1>1. /\ lastRev' = lastRev + 1 /\ rows' = [rows EXCEPT ![s].rev = lastRev + 1]
      /\ news' = news /\ updates' = updates \union {s}
      /\ frames' = frames /\ held' = held /\ shown' = shown /\ mark' = mark /\ fetch' = fetch
  BY DEF Sync!ChangeMessage, Sync!client
<1>2. rows \in Seq([sent : Nat, rev : Nat]) /\ lastRev \in Nat /\ rows[s] \in [sent : Nat, rev : Nat]
  <2>1. rows \in Seq([sent : Nat, rev : Nat]) /\ lastRev \in Nat
    BY DEF SyncInv, ServerOK
  <2>2. DOMAIN rows = 1..Len(rows)
    BY <2>1
  <2> QED BY <2>1, <2>2, ElementOfSeq
<1> DEFINE row == [rows[s] EXCEPT !.rev = lastRev + 1]
<1>3. row \in [sent : Nat, rev : Nat] /\ row.rev = lastRev + 1 /\ row.sent = rows[s].sent
  BY <1>2
<1>4. rows' = [rows EXCEPT ![s] = row]
  BY <1>1
<1> HIDE DEF row
<1>5. /\ rows' \in Seq([sent : Nat, rev : Nat]) /\ DOMAIN rows' = DOMAIN rows
      /\ rows'[s] = row /\ \A r \in DOMAIN rows \ {s} : rows'[r] = rows[r]
  BY <1>2, <1>3, <1>4
<1>6. \A r \in DOMAIN rows : /\ r \in Sync!Seqs
                             /\ rows[r].rev \in 1..lastRev /\ rows[r].sent \in 1..rows[r].rev
  BY DEF SyncInv, ServerOK
<1>7. \A r \in DOMAIN rows : /\ r \in Sync!Seqs
                             /\ rows'[r].rev \in 1..lastRev' /\ rows'[r].sent \in 1..rows'[r].rev
  <2> SUFFICES ASSUME NEW r \in DOMAIN rows
               PROVE  rows'[r].rev \in 1..lastRev' /\ rows'[r].sent \in 1..rows'[r].rev
    BY <1>6
  <2>1. CASE r = s
    BY <1>1, <1>2, <1>3, <1>5, <1>6, <2>1
  <2>2. CASE r # s
    BY <1>1, <1>2, <1>5, <1>6, <2>2
  <2> QED BY <2>1, <2>2
<1>8. \A r \in DOMAIN rows : rows'[r].rev >= rows[r].rev /\ (rows'[r] = rows[r] \/ rows'[r].rev > lastRev)
  <2> SUFFICES ASSUME NEW r \in DOMAIN rows
               PROVE  rows'[r].rev >= rows[r].rev /\ (rows'[r] = rows[r] \/ rows'[r].rev > lastRev)
    OBVIOUS
  <2>1. rows[r].rev \in 1..lastRev
    BY <1>6
  <2>2. rows'[r] = rows[r] \/ rows'[r].rev = lastRev + 1
    BY <1>3, <1>5
  <2> QED BY <1>2, <2>1, <2>2
<1>9. Grows
  BY <1>1, <1>2, <1>5, <1>7, <1>8 DEF Grows
<1>10. HonestRows \subseteq HonestRows' /\ HonestFrames \subseteq HonestFrames'
  BY <1>9, GrowsKeeps
<1>11. frames' \in Seq(HonestFrames')
  <2>1. frames \in Seq(HonestFrames')
    BY <1>10, FramesGrow DEF SyncInv, ServerOK
  <2> QED BY <1>1, <2>1
<1>12. ServerOK'
  BY <1>1, <1>2, <1>5, <1>7, <1>10, <1>11 DEF SyncInv, ServerOK
<1> QED BY <1>1, <1>8, <1>9, <1>12, ServerStep

\* What is published again, or put under way, was true once.
LEMMA TellInv ==
  ASSUME SyncInv, rows' = rows, lastRev' = lastRev, news' \subseteq HonestRows, updates' \subseteq updates,
         frames' \in Seq(HonestFrames), held' = held, shown' = shown, mark' = mark, fetch' = fetch
  PROVE  SyncInv'
<1>1. \A s \in DOMAIN rows : rows[s].rev \in Nat
  BY DEF SyncInv, ServerOK
<1>2. lastRev \in Nat
  BY DEF SyncInv, ServerOK
<1>3. Grows
  BY <1>1, <1>2 DEF Grows
<1>4. HonestRows' = HonestRows /\ HonestFrames' = HonestFrames
  BY DEF HonestRows, HonestFrames, Honest
<1>5. ServerOK'
  BY <1>4 DEF SyncInv, ServerOK, Sync!Seqs
<1> QED BY <1>1, <1>3, <1>5, ServerStep

LEMMA ResendInv == ASSUME SyncInv, NEW s \in DOMAIN rows, Sync!Resend(s) PROVE SyncInv'
<1>1. /\ news' = news \union {[seq |-> s, at |-> rows[s].sent]}
      /\ rows' = rows /\ lastRev' = lastRev /\ updates' = updates
      /\ frames' = frames /\ held' = held /\ shown' = shown /\ mark' = mark /\ fetch' = fetch
  BY DEF Sync!Resend, Sync!client
<1>2. s \in Nat /\ rows[s].rev \in Nat /\ rows[s].sent \in 1..rows[s].rev
  BY DEF SyncInv, ServerOK
<1>3. [seq |-> s, at |-> rows[s].sent] \in HonestRows
  BY <1>2 DEF HonestRows, Honest
<1> QED BY <1>1, <1>3, TellInv DEF SyncInv, ServerOK

LEMMA PublishInv ==
  ASSUME SyncInv, (\E n \in news : Sync!PublishNew(n)) \/ (\E s \in updates : Sync!PublishUpdate(s))
  PROVE  SyncInv'
<1>1. /\ rows' = rows /\ lastRev' = lastRev /\ news' \subseteq news /\ updates' \subseteq updates
      /\ held' = held /\ shown' = shown /\ mark' = mark /\ fetch' = fetch
  BY DEF Sync!PublishNew, Sync!PublishUpdate, Sync!client
<1>2. \E f \in HonestFrames : Sync!Deliver(f)
  <2>1. CASE \E n \in news : Sync!PublishNew(n)
    <3>1. PICK n \in news : Sync!PublishNew(n)
      BY <2>1
    <3>2. n \in HonestRows
      BY DEF SyncInv, ServerOK
    <3>3. [t |-> "new", seq |-> n.seq, at |-> n.at] \in HonestFrames
      BY <3>2 DEF HonestRows, HonestFrames, Honest
    <3> QED BY <3>1, <3>3 DEF Sync!PublishNew
  <2>2. CASE \E s \in updates : Sync!PublishUpdate(s)
    <3>1. PICK s \in updates : Sync!PublishUpdate(s)
      BY <2>2
    <3>2. s \in DOMAIN rows /\ s \in Nat /\ rows[s].rev \in 1..lastRev /\ lastRev \in Nat
      BY DEF SyncInv, ServerOK
    <3>3. [t |-> "update", seq |-> s, at |-> rows[s].rev] \in HonestFrames
      BY <3>2 DEF HonestFrames, Honest
    <3> QED BY <3>1, <3>3 DEF Sync!PublishUpdate
  <2> QED BY <2>1, <2>2
<1>3. frames' \in Seq(HonestFrames)
  <2>1. PICK f \in HonestFrames : frames' = Append(frames, f) \/ frames' = frames
    BY <1>2 DEF Sync!Deliver
  <2>2. frames \in Seq(HonestFrames)
    BY DEF SyncInv, ServerOK
  <2>3. Append(frames, f) \in Seq(HonestFrames)
    BY <2>2
  <2> QED BY <2>1, <2>2, <2>3
<1> QED BY <1>1, <1>3, TellInv DEF SyncInv, ServerOK

-----------------------------------------------------------------------------
\* What the store shows only comes nearer to the server's rows.
StoreKept ==
  /\ held' \in [Sync!Seqs -> Nat] /\ shown' \in [Sync!Seqs -> Nat]
  /\ \A s \in Sync!Seqs :
        IF s \in DOMAIN rows THEN held'[s] <= rows[s].rev /\ shown'[s] <= rows[s].rev
        ELSE held'[s] = 0 /\ shown'[s] = 0
  /\ \A s \in DOMAIN rows : shown[s] = rows[s].rev => shown'[s] = rows[s].rev

LEMMA UpsertKeeps ==
  ASSUME SyncInv, NEW R \in SUBSET HonestRows, \A r, q \in R : r.seq = q.seq => r = q,
         Sync!Upsert(R)
  PROVE  /\ StoreKept
         /\ \A r \in R : r.at = rows[r.seq].rev => shown'[r.seq] = r.at
<1> DEFINE put(s) == IF \E r \in R : r.seq = s THEN (CHOOSE r \in R : r.seq = s).at ELSE held[s]
<1>1. held' = [s \in Sync!Seqs |-> put(s)]
      /\ shown' = [s \in Sync!Seqs |-> Sync!Max({shown[s], held'[s]})]
  BY DEF Sync!Upsert
<1>2. \A r \in R : put(r.seq) = r.at
  BY DEF HonestRows
<1>3. \A r \in R : r.seq \in DOMAIN rows /\ r.at \in Nat /\ r.at <= rows[r.seq].rev
  <2>1. \A r \in HonestRows : r.seq \in DOMAIN rows /\ r.at \in Nat /\ r.at <= rows[r.seq].rev
    BY DEF HonestRows, Honest, SyncInv, ServerOK
  <2> QED BY <2>1
<1>4. \A s \in Sync!Seqs : put(s) = held[s] \/ \E r \in R : r.seq = s /\ put(s) = r.at
  BY <1>2
<1> HIDE DEF put
<1>5. \A s \in Sync!Seqs : held[s] \in Nat /\ shown[s] \in Nat
  BY DEF SyncInv, StoreOK
<1>6. \A s \in Sync!Seqs : put(s) \in Nat
  BY <1>3, <1>4, <1>5
<1>7. \A s \in Sync!Seqs : shown'[s] = IF shown[s] >= put(s) THEN shown[s] ELSE put(s)
  BY <1>1, <1>5, <1>6, MaxOfTwo
<1>8. \A s \in Sync!Seqs : IF s \in DOMAIN rows THEN put(s) <= rows[s].rev /\ shown[s] <= rows[s].rev
                           ELSE put(s) = 0 /\ shown[s] = 0
  <2> SUFFICES ASSUME NEW s \in Sync!Seqs
               PROVE  IF s \in DOMAIN rows THEN put(s) <= rows[s].rev /\ shown[s] <= rows[s].rev
                      ELSE put(s) = 0 /\ shown[s] = 0
    OBVIOUS
  <2>1. IF s \in DOMAIN rows THEN held[s] <= rows[s].rev /\ shown[s] <= rows[s].rev
        ELSE held[s] = 0 /\ shown[s] = 0
    BY DEF SyncInv, StoreOK
  <2> QED BY <1>3, <1>4, <2>1
<1>9. \A s \in DOMAIN rows : s \in Sync!Seqs /\ rows[s].rev \in Nat
  BY DEF SyncInv, ServerOK
<1>10. held' \in [Sync!Seqs -> Nat] /\ shown' \in [Sync!Seqs -> Nat]
  <2>1. \A s \in Sync!Seqs : shown'[s] \in Nat
    BY <1>5, <1>6, <1>7
  <2> QED BY <1>1, <1>6, <2>1
<1>11. \A s \in Sync!Seqs : held'[s] = put(s)
  BY <1>1
<1>12. \A s \in Sync!Seqs :
         IF s \in DOMAIN rows THEN held'[s] <= rows[s].rev /\ shown'[s] <= rows[s].rev
         ELSE held'[s] = 0 /\ shown'[s] = 0
  BY <1>7, <1>8, <1>11
<1>13. \A s \in DOMAIN rows : shown[s] = rows[s].rev => shown'[s] = rows[s].rev
  <2> SUFFICES ASSUME NEW s \in DOMAIN rows, shown[s] = rows[s].rev PROVE shown'[s] = rows[s].rev
    OBVIOUS
  <2>1. put(s) <= rows[s].rev /\ put(s) \in Nat /\ s \in Sync!Seqs /\ rows[s].rev \in Nat
    BY <1>6, <1>8, <1>9
  <2> QED BY <1>7, <2>1
<1>14. \A r \in R : r.at = rows[r.seq].rev => shown'[r.seq] = r.at
  <2> SUFFICES ASSUME NEW r \in R, r.at = rows[r.seq].rev PROVE shown'[r.seq] = r.at
    OBVIOUS
  <2>1. r.seq \in DOMAIN rows /\ r.seq \in Sync!Seqs /\ put(r.seq) = r.at /\ r.at \in Nat
    BY <1>2, <1>3, <1>9 DEF put
  <2>2. shown[r.seq] <= r.at /\ shown[r.seq] \in Nat
    BY <1>5, <1>8, <2>1
  <2> QED BY <1>7, <2>1, <2>2
<1> QED BY <1>10, <1>12, <1>13, <1>14 DEF StoreKept

LEMMA SameStore == ASSUME SyncInv, held' = held, shown' = shown PROVE StoreKept
  BY DEF SyncInv, StoreOK, StoreKept

LEMMA StoreGrows ==
  ASSUME SyncInv, StoreKept, rows' = rows, lastRev' = lastRev
  PROVE  /\ \A c \in 0..lastRev : Covered(c) => Covered(c)'
         /\ \A x : FetchOK(x) => FetchOK(x)'
<1>1. Grows
  BY DEF SyncInv, ServerOK, StoreKept, Grows
<1> QED BY <1>1, GrowsKeeps

\* A step of the client: one reconciliation at most moves on.
LEMMA ClientStep ==
  ASSUME SyncInv, rows' = rows, lastRev' = lastRev, news' = news, updates' = updates,
         frames' \in Seq(HonestFrames), StoreKept, mark' \in 0..lastRev, Covered(mark)',
         \/ fetch' = fetch
         \/ \E f \in Fetches : \E x : FetchOK(x)' /\ fetch' = [fetch EXCEPT ![f] = x]
  PROVE  SyncInv'
<1>1. HonestRows' = HonestRows /\ HonestFrames' = HonestFrames
  BY DEF HonestRows, HonestFrames, Honest
<1>2. ServerOK'
  BY <1>1 DEF SyncInv, ServerOK, Sync!Seqs
<1>3. StoreOK'
  BY DEF StoreOK, StoreKept, Sync!Seqs
<1>4. \A x : FetchOK(x) => FetchOK(x)'
  BY StoreGrows
<1>5. DOMAIN fetch = Fetches /\ fetch = [f \in Fetches |-> fetch[f]] /\ \A f \in Fetches : FetchOK(fetch[f])
  BY DEF SyncInv
<1>6. CASE fetch' = fetch
  <2>1. \A f \in Fetches : FetchOK(fetch[f])'
    <3> SUFFICES ASSUME NEW f \in Fetches PROVE FetchOK(fetch[f])'
      OBVIOUS
    <3>1. PICK x : x = fetch[f]
      OBVIOUS
    <3>2. FetchOK(x)' /\ fetch'[f] = x
      BY <1>4, <1>5, <1>6, <3>1
    <3> QED BY <3>2 DEF FetchOK
  <2> QED BY <1>2, <1>3, <1>5, <1>6, <2>1 DEF SyncInv
<1>7. CASE \E f \in Fetches : \E x : FetchOK(x)' /\ fetch' = [fetch EXCEPT ![f] = x]
  <2>0. PICK f \in Fetches : \E x : FetchOK(x)' /\ fetch' = [fetch EXCEPT ![f] = x]
    BY <1>7
  <2>1. PICK x : FetchOK(x)' /\ fetch' = [fetch EXCEPT ![f] = x]
    BY <2>0
  <2>2. DOMAIN fetch' = Fetches /\ fetch' = [g \in Fetches |-> fetch'[g]]
        /\ fetch'[f] = x /\ \A g \in Fetches \ {f} : fetch'[g] = fetch[g]
    BY <1>5, <2>1
  <2>3. \A g \in Fetches : FetchOK(fetch[g])'
    <3> SUFFICES ASSUME NEW g \in Fetches PROVE FetchOK(fetch[g])'
      OBVIOUS
    <3>1. PICK y : y = fetch'[g]
      OBVIOUS
    <3>2. FetchOK(y)'
      BY <1>4, <1>5, <2>1, <2>2, <3>1
    <3> QED BY <3>1, <3>2 DEF FetchOK
  <2> QED BY <1>2, <1>3, <2>2, <2>3 DEF SyncInv
<1> QED BY <1>6, <1>7

\* The states of a reconciliation that the code writes field by field.
State(step, repairing, cursor, page, more) ==
  [step |-> step, repairing |-> repairing, cursor |-> cursor, page |-> page, more |-> more]

LEMMA States ==
  /\ Sync!Idle = State("idle", FALSE, 0, {}, FALSE)
  /\ [Sync!Idle EXCEPT !.step = "begin"] = State("begin", FALSE, 0, {}, FALSE)
  /\ \A c : Sync!AskRepair(c) = State("ask", TRUE, c, {}, FALSE)
  /\ \A c : [Sync!Idle EXCEPT !.step = "ask", !.cursor = c] = State("ask", FALSE, c, {}, FALSE)
<1>1. PICK x : x = Sync!Idle
  OBVIOUS
<1>2. /\ x = State("idle", FALSE, 0, {}, FALSE)
      /\ x \in [step : {"idle"}, repairing : {FALSE}, cursor : {0}, page : {{}}, more : {FALSE}]
  BY <1>1 DEF Sync!Idle, State
<1>3. [Sync!Idle EXCEPT !.step = "begin"] = State("begin", FALSE, 0, {}, FALSE)
  <2>1. PICK y : y = [x EXCEPT !.step = "begin"]
    OBVIOUS
  <2>2. y \in [step : {"begin"}, repairing : {FALSE}, cursor : {0}, page : {{}}, more : {FALSE}]
    BY <1>2, <2>1
  <2>3. y = State("begin", FALSE, 0, {}, FALSE)
    BY <2>2 DEF State
  <2> QED BY <1>1, <2>1, <2>3
<1>4. ASSUME NEW c PROVE Sync!AskRepair(c) = State("ask", TRUE, c, {}, FALSE)
  <2>1. PICK y : y = [x EXCEPT !.step = "ask", !.repairing = TRUE, !.cursor = c]
    OBVIOUS
  <2>2. y \in [step : {"ask"}, repairing : {TRUE}, cursor : {c}, page : {{}}, more : {FALSE}]
    BY <1>2, <2>1
  <2>3. y = State("ask", TRUE, c, {}, FALSE)
    BY <2>2 DEF State
  <2>4. Sync!AskRepair(c) = y
    BY <1>1, <2>1 DEF Sync!AskRepair
  <2> QED BY <2>3, <2>4
<1>5. ASSUME NEW c
      PROVE  [Sync!Idle EXCEPT !.step = "ask", !.cursor = c] = State("ask", FALSE, c, {}, FALSE)
  <2>1. PICK y : y = [x EXCEPT !.step = "ask", !.cursor = c]
    OBVIOUS
  <2>2. y \in [step : {"ask"}, repairing : {FALSE}, cursor : {c}, page : {{}}, more : {FALSE}]
    BY <1>2, <2>1
  <2>3. y = State("ask", FALSE, c, {}, FALSE)
    BY <2>2 DEF State
  <2> QED BY <1>1, <2>1, <2>3
<1> QED BY <1>1, <1>2, <1>3, <1>4, <1>5
LEMMA IdleOK ==
  /\ FetchOK(Sync!Idle) /\ FetchOK([Sync!Idle EXCEPT !.step = "begin"])
  /\ \A c : FetchOK(Sync!AskRepair(c))
  /\ \A c \in 0..lastRev : Covered(c) => FetchOK([Sync!Idle EXCEPT !.step = "ask", !.cursor = c])
<1>1. ASSUME NEW step, NEW repairing, NEW c, step # "mark", step # "apply",
             step = "ask" /\ ~repairing => c \in 0..lastRev /\ Covered(c)
      PROVE  FetchOK(State(step, repairing, c, {}, FALSE))
  <2>1. PICK x : x = State(step, repairing, c, {}, FALSE)
    OBVIOUS
  <2>2. /\ x.step = step /\ x.repairing = repairing /\ x.cursor = c /\ x.page = {} /\ x.more = FALSE
        /\ x = [step |-> x.step, repairing |-> x.repairing, cursor |-> x.cursor, page |-> x.page,
                more |-> x.more]
    BY <2>1 DEF State
  <2>3. FetchOK(x)
    BY <1>1, <2>2 DEF FetchOK
  <2> QED BY <2>1, <2>3
<1>2. FetchOK(State("idle", FALSE, 0, {}, FALSE)) /\ FetchOK(State("begin", FALSE, 0, {}, FALSE))
  BY <1>1
<1>3. \A c : FetchOK(State("ask", TRUE, c, {}, FALSE))
  BY <1>1
<1>4. \A c \in 0..lastRev : Covered(c) => FetchOK(State("ask", FALSE, c, {}, FALSE))
  BY <1>1
<1> HIDE DEF State
<1> QED BY Zenon, <1>2, <1>3, <1>4, States

LEMMA MarkKept ==
  ASSUME SyncInv, StoreKept, rows' = rows, lastRev' = lastRev, mark' = mark
  PROVE  mark' \in 0..lastRev /\ Covered(mark)'
<1>1. mark \in 0..lastRev /\ Covered(mark)
  BY DEF SyncInv, StoreOK
<1>2. Covered(mark) => Covered(mark)'
  BY <1>1, StoreGrows DEF Covered
<1> QED BY <1>1, <1>2

\* Most steps move one reconciliation, to where what it needs holds already.
LEMMA MoveStep ==
  ASSUME SyncInv, rows' = rows, lastRev' = lastRev, news' = news, updates' = updates,
         frames' \in Seq(HonestFrames), StoreKept, mark' = mark,
         \/ fetch' = fetch
         \/ \E f \in Fetches : \E x : FetchOK(x) /\ fetch' = [fetch EXCEPT ![f] = x]
  PROVE  SyncInv'
<1>1. mark' \in 0..lastRev /\ Covered(mark)'
  BY MarkKept
<1>2. \A x : FetchOK(x) => FetchOK(x)'
  BY StoreGrows
<1> QED BY <1>1, <1>2, ClientStep

LEMMA AskSyncOK == ASSUME SyncInv PROVE FetchOK(Sync!AskSync)
  BY IdleOK DEF SyncInv, StoreOK, Sync!AskSync

LEMMA StartInv == ASSUME SyncInv, NEW f \in Fetches, Sync!Start(f) PROVE SyncInv'
<1>1. /\ rows' = rows /\ lastRev' = lastRev /\ news' = news /\ updates' = updates
      /\ frames' = frames /\ held' = held /\ shown' = shown /\ mark' = mark
      /\ fetch' = [fetch EXCEPT ![f] = [Sync!Idle EXCEPT !.step = "begin"]]
  BY DEF Sync!Start, Sync!Put, Sync!server
<1>2. frames' \in Seq(HonestFrames)
  BY <1>1 DEF SyncInv, ServerOK
<1> QED BY <1>1, <1>2, SameStore, IdleOK, MoveStep

LEMMA ReceiveFrameInv == ASSUME SyncInv, Sync!ReceiveNew \/ Sync!ReceiveUpdate PROVE SyncInv'
<1> DEFINE e == [seq |-> Head(frames).seq, at |-> Head(frames).at]
<1>1. /\ frames # <<>> /\ frames' = Tail(frames)
      /\ rows' = rows /\ lastRev' = lastRev /\ news' = news /\ updates' = updates /\ mark' = mark
      /\ Sync!Upsert({e}) \/ (held' = held /\ shown' = shown)
      /\ \/ fetch' = fetch
         \/ \E f \in Fetches : fetch' = [fetch EXCEPT ![f] = [Sync!Idle EXCEPT !.step = "begin"]]
  BY DEF Sync!ReceiveNew, Sync!ReceiveUpdate, Sync!Put, Sync!server
<1>2. Head(frames) \in HonestFrames /\ Tail(frames) \in Seq(HonestFrames)
  BY <1>1 DEF SyncInv, ServerOK
<1>3. e \in HonestRows
  BY <1>2 DEF HonestFrames, HonestRows, Honest
<1> HIDE DEF e
<1>4. StoreKept
  <2>1. CASE Sync!Upsert({e})
    BY <1>3, <2>1, UpsertKeeps
  <2>2. CASE held' = held /\ shown' = shown
    BY <2>2, SameStore
  <2> QED BY <1>1, <2>1, <2>2
<1> QED BY <1>1, <1>2, <1>4, IdleOK, MoveStep

LEMMA BeginSyncInv == ASSUME SyncInv, NEW f \in Fetches, Sync!Begin(f) PROVE SyncInv'
<1>1. /\ rows' = rows /\ lastRev' = lastRev /\ news' = news /\ updates' = updates
      /\ frames' = frames /\ held' = held /\ shown' = shown /\ mark' = mark
      /\ \/ fetch' = [fetch EXCEPT ![f] = Sync!AskSync]
         \/ \E c : fetch' = [fetch EXCEPT ![f] = Sync!AskRepair(c)]
  BY DEF Sync!Begin, Sync!Put, Sync!server
<1>2. frames' \in Seq(HonestFrames)
  BY <1>1 DEF SyncInv, ServerOK
<1> QED BY <1>1, <1>2, SameStore, IdleOK, AskSyncOK, MoveStep

LEMMA PageIs ==
  ASSUME NEW c
  PROVE  LET above == {o \in DOMAIN rows : rows[o].rev > c}
         IN  Sync!Page(FALSE, c).rows
             = {q \in above : Sync!Cardinality({o \in above : rows[o].rev < rows[q].rev}) < PageSize}
  BY DEF Sync!Page

\* The rows of a page are the oldest above the cursor: none as old is left out.
LEMMA PageIsOldest ==
  ASSUME SyncInv, Bounds, NEW c, NEW s \in DOMAIN rows, NEW r \in Sync!Page(FALSE, c).rows,
         rows[s].rev > c, rows[s].rev <= rows[r].rev
  PROVE  s \in Sync!Page(FALSE, c).rows
<1> DEFINE above == {o \in DOMAIN rows : rows[o].rev > c}
           older(q) == {o \in above : rows[o].rev < rows[q].rev}
<1>1. Sync!Page(FALSE, c).rows = {q \in above : Cardinality(older(q)) < PageSize}
  <2>0. Sync!Page(FALSE, c).rows = {q \in above : Sync!Cardinality(older(q)) < PageSize}
    BY PageIs
  <2>1. \A q : Sync!Cardinality(older(q)) = Cardinality(older(q))
    <3> HIDE DEF older
    <3> QED BY Zenon DEF Sync!Cardinality, Cardinality
  <2> HIDE DEF older, above
  <2> QED BY <2>0, <2>1
<1>2. s \in above /\ r \in above /\ Cardinality(older(r)) < PageSize
  BY <1>1
<1>3. \A o \in DOMAIN rows : rows[o].rev \in Nat
  BY DEF SyncInv, ServerOK
<1>4. older(s) \subseteq older(r) /\ older(r) \subseteq DOMAIN rows
  BY <1>2, <1>3
<1>5. IsFiniteSet(DOMAIN rows)
  <2>1. rows \in Seq([sent : Nat, rev : Nat])
    BY DEF SyncInv, ServerOK
  <2>2. DOMAIN rows = 1..Len(rows) /\ Len(rows) \in Nat
    BY <2>1
  <2> QED BY <2>2, FS_Interval
<1> HIDE DEF older
<1>6. IsFiniteSet(older(r))
  BY <1>4, <1>5, FS_Subset
<1>7. Cardinality(older(s)) \in Nat /\ Cardinality(older(r)) \in Nat
      /\ Cardinality(older(s)) <= Cardinality(older(r))
  BY <1>4, <1>6, FS_Subset, FS_CardinalityType
<1>8. Cardinality(older(s)) < PageSize
  BY <1>2, <1>7 DEF Bounds
<1> QED BY <1>1, <1>2, <1>8

LEMMA ReadPageInv == ASSUME Bounds, SyncInv, NEW f \in Fetches, Sync!ReadPage(f) PROVE SyncInv'
<1> DEFINE x == fetch[f]
           answer == Sync!Page(x.repairing, x.cursor)
           page == {[seq |-> s, at |-> rows[s].rev] : s \in answer.rows}
           y == [x EXCEPT !.step = "apply", !.more = answer.more, !.page = page]
<1>1. /\ x.step = "ask" /\ fetch' = [fetch EXCEPT ![f] = y]
      /\ rows' = rows /\ lastRev' = lastRev /\ news' = news /\ updates' = updates
      /\ frames' = frames /\ held' = held /\ shown' = shown /\ mark' = mark
  BY DEF Sync!ReadPage, Sync!Put, Sync!server
<1>2. FetchOK(x)
  BY DEF SyncInv
<1>3. answer.rows \subseteq DOMAIN rows
  BY DEF Sync!Page
<1>4. page \subseteq HonestRows
  <2>1. \A s \in DOMAIN rows : s \in Nat /\ rows[s].rev \in Nat /\ rows[s].rev \in 1..rows[s].rev
    BY DEF SyncInv, ServerOK
  <2> HIDE DEF answer
  <2> QED BY <1>3, <2>1 DEF HonestRows, Honest
<1>5. \A r, q \in page : r.seq = q.seq => r = q
  <2> HIDE DEF answer
  <2> QED OBVIOUS
<1>6. ~x.repairing => \A r \in page, s \in DOMAIN rows :
         rows[s].rev <= r.at => \/ shown[s] = rows[s].rev
                                \/ \E q \in page : q.seq = s /\ q.at = rows[s].rev
  <2> SUFFICES ASSUME ~x.repairing, NEW r \in page, NEW s \in DOMAIN rows, rows[s].rev <= r.at
               PROVE  \/ shown[s] = rows[s].rev
                      \/ \E q \in page : q.seq = s /\ q.at = rows[s].rev
    OBVIOUS
  <2>1. x.cursor \in 0..lastRev /\ Covered(x.cursor) /\ lastRev \in Nat /\ rows[s].rev \in Nat
    BY <1>1, <1>2 DEF FetchOK, SyncInv, ServerOK
  <2>2. CASE rows[s].rev <= x.cursor
    BY <2>1, <2>2 DEF Covered
  <2>3. CASE rows[s].rev > x.cursor
    <3>1. answer.rows = Sync!Page(FALSE, x.cursor).rows
      BY DEF Sync!Page
    <3>2. PICK k \in answer.rows : r = [seq |-> k, at |-> rows[k].rev]
      OBVIOUS
    <3>3. rows[s].rev <= rows[k].rev
      BY <3>2
    <3>4. PICK c : c = x.cursor
      OBVIOUS
    <3> HIDE DEF answer, x
    <3>5. k \in Sync!Page(FALSE, c).rows
      BY <3>1, <3>4
    <3>6. s \in Sync!Page(FALSE, c).rows
      BY <2>3, <3>3, <3>4, <3>5, PageIsOldest
    <3>7. s \in answer.rows
      BY <3>1, <3>4, <3>6
    <3>8. [seq |-> s, at |-> rows[s].rev] \in page
      BY <3>7
    <3> QED BY <3>8
  <2> QED BY <2>1, <2>2, <2>3
<1> HIDE DEF answer
<1>7. y = [step |-> "apply", repairing |-> x.repairing, cursor |-> x.cursor, page |-> page, more |-> answer.more]
  <2>1. PICK z : z = x
    OBVIOUS
  <2>2. z = [step |-> z.step, repairing |-> z.repairing, cursor |-> z.cursor, page |-> z.page,
             more |-> z.more]
    BY <1>2, <2>1 DEF FetchOK
  <2>3. z \in [step : {z.step}, repairing : {z.repairing}, cursor : {z.cursor}, page : {z.page},
               more : {z.more}]
    BY <2>2
  <2>4. PICK p, m : p = page /\ m = answer.more
    OBVIOUS
  <2> HIDE DEF page
  <2>5. PICK w : w = [z EXCEPT !.step = "apply", !.more = m, !.page = p]
    OBVIOUS
  <2>6. w \in [step : {"apply"}, repairing : {z.repairing}, cursor : {z.cursor}, page : {p}, more : {m}]
    BY <2>3, <2>5
  <2>7. w = [step |-> "apply", repairing |-> z.repairing, cursor |-> z.cursor, page |-> p, more |-> m]
    BY <2>6
  <2>8. y = w
    BY <2>1, <2>4, <2>5
  <2> QED BY <2>1, <2>4, <2>7, <2>8
<1> HIDE DEF page, y
<1>8. FetchOK(y)
  BY <1>4, <1>5, <1>6, <1>7 DEF FetchOK
<1>9. frames' \in Seq(HonestFrames)
  BY <1>1 DEF SyncInv, ServerOK
<1> QED BY <1>1, <1>8, <1>9, SameStore, MoveStep

LEMMA StorePageInv == ASSUME SyncInv, NEW f \in Fetches, Sync!StorePage(f) PROVE SyncInv'
<1> DEFINE x == fetch[f]
           y == [x EXCEPT !.step = "mark"]
<1>1. /\ x.step = "apply" /\ x.page # {} /\ Sync!Upsert(x.page)
      /\ rows' = rows /\ lastRev' = lastRev /\ news' = news /\ updates' = updates
      /\ frames' = frames /\ mark' = mark
      /\ \/ ~x.repairing /\ fetch' = [fetch EXCEPT ![f] = y]
         \/ fetch' = [fetch EXCEPT ![f] = Sync!AskSync]
         \/ \E c : fetch' = [fetch EXCEPT ![f] = Sync!AskRepair(c)]
  BY DEF Sync!StorePage, Sync!Put, Sync!server
<1>2. FetchOK(x)
  BY DEF SyncInv
<1>3. x.page \in SUBSET HonestRows /\ \A r, q \in x.page : r.seq = q.seq => r = q
  BY <1>2 DEF FetchOK
<1>4. StoreKept /\ \A r \in x.page : r.at = rows[r.seq].rev => shown'[r.seq] = r.at
  BY <1>1, <1>3, UpsertKeeps
<1>5. frames' \in Seq(HonestFrames)
  BY <1>1 DEF SyncInv, ServerOK
<1>6. CASE ~x.repairing /\ fetch' = [fetch EXCEPT ![f] = y]
  <2>1. \A r \in x.page, s \in DOMAIN rows : rows[s].rev <= r.at => shown'[s] = rows[s].rev
    <3> SUFFICES ASSUME NEW r \in x.page, NEW s \in DOMAIN rows, rows[s].rev <= r.at
                 PROVE  shown'[s] = rows[s].rev
      OBVIOUS
    <3>1. shown[s] = rows[s].rev \/ \E q \in x.page : q.seq = s /\ q.at = rows[s].rev
      BY <1>1, <1>2, <1>6 DEF FetchOK
    <3> QED BY <1>4, <3>1 DEF StoreKept
  <2>2. y = [step |-> "mark", repairing |-> x.repairing, cursor |-> x.cursor, page |-> x.page, more |-> x.more]
    BY <1>2 DEF FetchOK
  <2>3. PICK z : z = y /\ z.page = x.page /\ z.step = "mark"
    BY <2>2
  <2>4. HonestRows' = HonestRows
    BY <1>1 DEF HonestRows, Honest
  <2>5. \A r \in z.page : Covered(r.at)'
    BY <1>1, <2>1, <2>3 DEF Covered
  <2>6. z = [step |-> z.step, repairing |-> z.repairing, cursor |-> z.cursor, page |-> z.page, more |-> z.more]
    BY <2>2, <2>3
  <2> HIDE DEF y
  <2>7. FetchOK(z)'
    BY <1>1, <1>3, <2>3, <2>4, <2>5, <2>6 DEF FetchOK
  <2>8. fetch' = [fetch EXCEPT ![f] = z]
    BY <1>6, <2>3
  <2>9. mark' \in 0..lastRev /\ Covered(mark)'
    BY <1>1, <1>4, MarkKept
  <2> QED BY <1>1, <1>4, <1>5, <2>7, <2>8, <2>9, ClientStep
<1>7. CASE \/ fetch' = [fetch EXCEPT ![f] = Sync!AskSync]
           \/ \E c : fetch' = [fetch EXCEPT ![f] = Sync!AskRepair(c)]
  BY <1>1, <1>4, <1>5, <1>7, IdleOK, AskSyncOK, MoveStep
<1> QED BY <1>1, <1>6, <1>7

LEMMA EmptyPageInv == ASSUME SyncInv, NEW f \in Fetches, Sync!EmptyPage(f) \/ Sync!Fail(f) PROVE SyncInv'
<1>1. /\ rows' = rows /\ lastRev' = lastRev /\ news' = news /\ updates' = updates
      /\ frames' = frames /\ held' = held /\ shown' = shown /\ mark' = mark
      /\ \/ fetch' = [fetch EXCEPT ![f] = Sync!AskSync]
         \/ fetch' = [fetch EXCEPT ![f] = Sync!Idle]
  BY DEF Sync!EmptyPage, Sync!Fail, Sync!Put, Sync!server
<1>2. frames' \in Seq(HonestFrames)
  BY <1>1 DEF SyncInv, ServerOK
<1> QED BY <1>1, <1>2, SameStore, IdleOK, AskSyncOK, MoveStep

\* The watermark moves to a revision that is covered, or stays at one that is.
LEMMA SetMarkInv == ASSUME SyncInv, NEW f \in Fetches, Sync!SetMark(f) PROVE SyncInv'
<1> DEFINE x == fetch[f]
           revs == {r.at : r \in x.page}
           reached == Sync!MaxRevOf(x.page)
<1>1. /\ x.step = "mark" /\ mark' = Sync!Max({mark, reached})
      /\ rows' = rows /\ lastRev' = lastRev /\ news' = news /\ updates' = updates
      /\ frames' = frames /\ held' = held /\ shown' = shown
      /\ \/ fetch' = [fetch EXCEPT ![f] = [Sync!Idle EXCEPT !.step = "ask", !.cursor = reached]]
         \/ fetch' = [fetch EXCEPT ![f] = Sync!Idle]
  BY DEF Sync!SetMark, Sync!Put, Sync!server
<1>2. x.page # {} /\ x.page \subseteq HonestRows /\ \A r \in x.page : Covered(r.at)
  BY <1>1 DEF SyncInv, FetchOK
<1>3. lastRev \in Nat /\ mark \in 0..lastRev /\ Covered(mark)
  BY DEF SyncInv, ServerOK, StoreOK
<1>4. revs \in SUBSET (0..lastRev) /\ revs # {}
  <2>1. \A r \in HonestRows : r.at \in 0..lastRev
    BY <1>3 DEF HonestRows, Honest, SyncInv, ServerOK
  <2> QED BY <1>2, <2>1
<1>5. reached \in revs
  <2>1. reached = Sync!Max(revs)
    BY DEF Sync!MaxRevOf
  <2> HIDE DEF revs, reached
  <2> QED BY <1>3, <1>4, <2>1, MaxIs
<1>6. reached \in 0..lastRev /\ Covered(reached)
  BY <1>2, <1>4, <1>5
<1> HIDE DEF reached, revs
<1>7. mark' \in {mark, reached}
  BY <1>1, <1>3, <1>6, MaxOfTwo
<1>8. StoreKept
  BY <1>1, SameStore
<1>9. \A c \in 0..lastRev : Covered(c) => Covered(c)'
  BY <1>1, <1>8, StoreGrows
<1>10. mark' \in 0..lastRev /\ Covered(mark)'
  <2>1. PICK c \in 0..lastRev : c = mark' /\ Covered(c)
    BY <1>3, <1>6, <1>7
  <2>2. Covered(c)'
    BY <1>9, <2>1
  <2> QED BY <2>1, <2>2 DEF Covered
<1>11. frames' \in Seq(HonestFrames)
  BY <1>1 DEF SyncInv, ServerOK
<1>12. \A z : FetchOK(z) => FetchOK(z)'
  BY <1>1, <1>8, StoreGrows
<1>13. FetchOK([Sync!Idle EXCEPT !.step = "ask", !.cursor = reached])
  BY <1>6, IdleOK
<1>14. \E z : FetchOK(z)' /\ fetch' = [fetch EXCEPT ![f] = z]
  BY <1>1, <1>12, <1>13, IdleOK
<1> QED BY <1>1, <1>8, <1>10, <1>11, <1>14, ClientStep

LEMMA SocketInv == ASSUME SyncInv, Sync!Drop \/ Sync!Reconnect PROVE SyncInv'
<1>1. /\ rows' = rows /\ lastRev' = lastRev /\ news' = news /\ updates' = updates
      /\ frames' \in {frames, <<>>} /\ held' = held /\ shown' = shown /\ mark' = mark
      /\ \/ fetch' = fetch
         \/ \E f \in Fetches : fetch' = [fetch EXCEPT ![f] = [Sync!Idle EXCEPT !.step = "begin"]]
  BY DEF Sync!Drop, Sync!Reconnect, Sync!Put, Sync!server, Sync!client
<1>2. frames' \in Seq(HonestFrames)
  <2>1. frames \in Seq(HonestFrames) /\ <<>> \in Seq(HonestFrames)
    BY DEF SyncInv, ServerOK
  <2> QED BY <1>1, <2>1
<1> QED BY <1>1, <1>2, SameStore, IdleOK, MoveStep

\* The app is killed between any two steps: what the store holds is enough.
LEMMA KillInv == ASSUME SyncInv, Sync!Kill PROVE SyncInv'
<1>1. /\ rows' = rows /\ lastRev' = lastRev /\ news' = news /\ updates' = updates
      /\ frames' = <<>> /\ held' = held /\ shown' = shown /\ mark' = mark
      /\ fetch' = [f \in Fetches |-> Sync!Idle]
  BY DEF Sync!Kill, Sync!server
<1>2. HonestRows' = HonestRows /\ HonestFrames' = HonestFrames
  BY <1>1 DEF HonestRows, HonestFrames, Honest
<1>3. ServerOK' /\ StoreOK'
  BY <1>1, <1>2 DEF SyncInv, ServerOK, StoreOK, Covered, Sync!Seqs
<1>4. FetchOK(Sync!Idle)'
  BY IdleOK, <1>1, SameStore, StoreGrows
<1>5. \A f \in Fetches : FetchOK(fetch[f])'
  <2> SUFFICES ASSUME NEW f \in Fetches PROVE FetchOK(fetch[f])'
    OBVIOUS
  <2>1. fetch'[f] = Sync!Idle
    BY <1>1
  <2> QED BY <1>4, <2>1 DEF FetchOK
<1> QED BY <1>1, <1>3, <1>5 DEF SyncInv

LEMMA SyncInit == Bounds /\ Sync!Init => SyncInv
<1> SUFFICES ASSUME Sync!Init PROVE SyncInv
  OBVIOUS
<1>1. ServerOK
  BY DEF Sync!Init, ServerOK
<1>2. StoreOK
  BY DEF Sync!Init, StoreOK, Covered
<1>3. \A f \in Fetches : fetch[f] = Sync!Idle
  BY DEF Sync!Init
<1> QED BY <1>1, <1>2, <1>3, IdleOK DEF Sync!Init, SyncInv

LEMMA SyncInductive == Bounds /\ SyncInv /\ [Sync!Next]_Sync!vars => SyncInv'
<1> SUFFICES ASSUME Bounds, SyncInv, [Sync!Next]_Sync!vars PROVE SyncInv'
  OBVIOUS
<1>1. CASE Sync!AppendMessage \/ \E s \in DOMAIN rows : Sync!ChangeMessage(s) \/ Sync!Resend(s)
  BY <1>1, AppendMessageInv, ChangeMessageInv, ResendInv
<1>2. CASE (\E n \in news : Sync!PublishNew(n)) \/ (\E s \in updates : Sync!PublishUpdate(s))
  BY <1>2, PublishInv
<1>3. CASE Sync!ReceiveNew \/ Sync!ReceiveUpdate
  BY <1>3, ReceiveFrameInv
<1>4. CASE \E f \in Fetches : Sync!Start(f) \/ Sync!Reconcile(f) \/ Sync!Fail(f)
  BY <1>4, StartInv, BeginSyncInv, ReadPageInv, StorePageInv, EmptyPageInv, SetMarkInv DEF Sync!Reconcile
<1>5. CASE Sync!Drop \/ Sync!Kill \/ Sync!Reconnect
  BY <1>5, SocketInv, KillInv
<1>6. CASE UNCHANGED Sync!vars
  <2>1. /\ rows' = rows /\ lastRev' = lastRev /\ news' = news /\ updates' = updates
        /\ frames' = frames /\ held' = held /\ shown' = shown /\ mark' = mark /\ fetch' = fetch
    BY <1>6 DEF Sync!vars, Sync!server, Sync!client
  <2>2. frames' \in Seq(HonestFrames)
    BY <2>1 DEF SyncInv, ServerOK
  <2> QED BY <2>1, <2>2, SameStore, MoveStep
<1> QED BY <1>1, <1>2, <1>3, <1>4, <1>5, <1>6 DEF Sync!Next

\* The watermark never claims what the client was not told (syncChannel, setSyncMark), for
\* any page size, any number of reconciliations at once, failed requests and killed apps.
THEOREM MarkIsTrue ==
  ASSUME MaxSeq \in Nat, PageSize \in Nat \ {0}
  PROVE  Sync!Spec => []Sync!NothingSkipped
<1>1. Bounds
  BY DEF Bounds
<1>2. SyncInv => Sync!NothingSkipped
  BY DEF SyncInv, StoreOK, Covered, Sync!NothingSkipped
<1> QED BY <1>1, <1>2, SyncInit, SyncInductive, PTL DEF Sync!Spec

\* A client never knows more than the server does: what it shows of a message, what the
\* frames and pages under way to it say, and how far it claims to have read, are all of
\* revisions that were reached, of messages that are stored.  Whatever order they arrive in,
\* the store can be behind the log, never beside it.
NothingInvented ==
  /\ \A s \in Sync!Seqs : held[s] # 0 => s \in DOMAIN rows /\ held[s] <= rows[s].rev
  /\ \A i \in DOMAIN frames : frames[i].seq \in DOMAIN rows /\ frames[i].at <= rows[frames[i].seq].rev
  /\ \A f \in Fetches : \A r \in fetch[f].page : r.seq \in DOMAIN rows /\ r.at <= rows[r.seq].rev
  /\ mark <= lastRev

THEOREM ClientIsNeverAhead ==
  ASSUME MaxSeq \in Nat, PageSize \in Nat \ {0}
  PROVE  Sync!Spec => []NothingInvented
<1>1. Bounds
  BY DEF Bounds
<1>2. SyncInv => NothingInvented
  <2> SUFFICES ASSUME SyncInv PROVE NothingInvented
    OBVIOUS
  <2>1. /\ frames \in Seq(HonestFrames) /\ lastRev \in Nat /\ rows \in Seq([sent : Nat, rev : Nat])
        /\ \A f \in Fetches : fetch[f].page \subseteq HonestRows
        /\ \A s \in Sync!Seqs : IF s \in DOMAIN rows THEN held[s] <= rows[s].rev ELSE held[s] = 0
        /\ mark \in 0..lastRev
    BY DEF SyncInv, ServerOK, StoreOK, FetchOK
  <2>2. \A e : Honest(e) => e.seq \in DOMAIN rows /\ e.at <= rows[e.seq].rev
    BY DEF Honest
  <2>3. \A i \in DOMAIN frames : Honest(frames[i])
    BY <2>1 DEF HonestFrames
  <2>4. \A r \in HonestRows : Honest(r)
    BY DEF HonestRows
  <2> QED BY <2>1, <2>2, <2>3, <2>4 DEF NothingInvented
<1> QED BY <1>1, <1>2, SyncInit, SyncInductive, PTL DEF Sync!Spec

-----------------------------------------------------------------------------
\* What the types of the client's half need beside SyncInv: the bounds, and the locals of
\* the reconciliations.
Limits == Bounds /\ MaxRev \in Nat /\ MaxBreaks \in Nat
Top == Sync!Max({MaxRev, MaxSeq})

FetchType(x) ==
  /\ x.step \in {"idle", "begin", "ask", "apply", "mark"}
  /\ x.repairing \in BOOLEAN /\ x.more \in BOOLEAN /\ x.cursor \in 0..Top
LocalTypes ==
  /\ lastRev <= MaxRev /\ online \in BOOLEAN /\ breaks \in 0..MaxBreaks
  /\ \A f \in Fetches : FetchType(fetch[f])

LEMMA TopIs == Limits => Top \in Nat /\ MaxRev <= Top /\ MaxSeq <= Top
  BY MaxOfTwo DEF Limits, Bounds, Top

LEMMA MinIs == ASSUME NEW S \in SUBSET Nat, S # {} PROVE Sync!Min(S) \in S
  BY Least DEF Sync!Min

LEMMA SeqWider == ASSUME NEW A, NEW B, A \subseteq B, NEW s \in Seq(A) PROVE s \in Seq(B)
  OBVIOUS

LEMMA SeqInto ==
  ASSUME NEW A, NEW B, NEW s \in Seq(A), \A i \in 1..Len(s) : s[i] \in B
  PROVE  s \in Seq(B)
  OBVIOUS

LEMMA SeqsNow ==
  ASSUME Limits, SyncInv, LocalTypes
  PROVE  /\ DOMAIN rows \subseteq 1..MaxSeq /\ lastRev \in 0..MaxRev /\ mark \in 0..Top
         /\ HonestRows \subseteq [seq : 1..MaxSeq, at : 1..MaxRev]
         /\ HonestFrames \subseteq [t : {"new", "update"}, seq : 1..MaxSeq, at : 1..MaxRev]
<1>1. DOMAIN rows \subseteq 1..MaxSeq
  BY DEF SyncInv, ServerOK, Sync!Seqs
<1>2. lastRev \in 0..MaxRev /\ MaxRev \in Nat
  BY DEF SyncInv, ServerOK, LocalTypes, Limits
<1>3. mark \in 0..Top
  BY <1>2, TopIs DEF SyncInv, StoreOK
<1>4. \A e : Honest(e) => e.seq \in 1..MaxSeq /\ e.at \in 1..MaxRev
  <2> SUFFICES ASSUME NEW e, Honest(e) PROVE e.seq \in 1..MaxSeq /\ e.at \in 1..MaxRev
    OBVIOUS
  <2>1. e.seq \in DOMAIN rows /\ e.at \in 1..rows[e.seq].rev
    BY DEF Honest
  <2>2. rows[e.seq].rev \in 1..lastRev
    BY <2>1 DEF SyncInv, ServerOK
  <2> QED BY <1>1, <1>2, <2>1, <2>2
<1> QED BY <1>1, <1>2, <1>3, <1>4 DEF HonestRows, HonestFrames

LEMMA PlainType ==
  ASSUME NEW step \in {"idle", "begin", "ask", "apply", "mark"}, NEW repairing \in BOOLEAN, NEW c \in 0..Top
  PROVE  FetchType(State(step, repairing, c, {}, FALSE))
<1>1. PICK x : x = State(step, repairing, c, {}, FALSE)
  OBVIOUS
<1>2. x.step = step /\ x.repairing = repairing /\ x.cursor = c /\ x.more = FALSE
  BY <1>1 DEF State
<1>3. FetchType(x)
  BY <1>2 DEF FetchType
<1> QED BY <1>1, <1>3

LEMMA AskTypes ==
  ASSUME Limits, SyncInv, LocalTypes
  PROVE  /\ FetchType(Sync!Idle) /\ FetchType([Sync!Idle EXCEPT !.step = "begin"])
         /\ FetchType(Sync!AskSync)
         /\ \A c \in 0..Top : /\ FetchType(Sync!AskRepair(c))
                              /\ FetchType([Sync!Idle EXCEPT !.step = "ask", !.cursor = c])
<1>1. 0 \in 0..Top /\ mark \in 0..Top
  BY TopIs, SeqsNow
<1>2. /\ FetchType(State("idle", FALSE, 0, {}, FALSE)) /\ FetchType(State("begin", FALSE, 0, {}, FALSE))
      /\ \A c \in 0..Top : /\ FetchType(State("ask", TRUE, c, {}, FALSE))
                           /\ FetchType(State("ask", FALSE, c, {}, FALSE))
  BY <1>1, PlainType
<1>3. /\ FetchType(Sync!Idle) /\ FetchType([Sync!Idle EXCEPT !.step = "begin"])
      /\ \A c \in 0..Top : /\ FetchType(Sync!AskRepair(c))
                           /\ FetchType([Sync!Idle EXCEPT !.step = "ask", !.cursor = c])
  BY Zenon, <1>2, States
<1> QED BY <1>1, <1>3 DEF Sync!AskSync

LEMMA LocalStep ==
  ASSUME SyncInv, LocalTypes, lastRev' <= MaxRev, online' \in BOOLEAN, breaks' \in 0..MaxBreaks,
         \/ fetch' = fetch
         \/ \E f \in Fetches : \E x : FetchType(x) /\ fetch' = [fetch EXCEPT ![f] = x]
  PROVE  LocalTypes'
<1>1. DOMAIN fetch = Fetches
  BY DEF SyncInv
<1>2. \A f \in Fetches : FetchType(fetch[f])
  BY DEF LocalTypes
<1>3. \A f \in Fetches : FetchType(fetch'[f])
  <2>1. CASE fetch' = fetch
    BY <1>2, <2>1
  <2>2. ASSUME NEW f \in Fetches, NEW x, FetchType(x), fetch' = [fetch EXCEPT ![f] = x]
        PROVE  \A g \in Fetches : FetchType(fetch'[g])
    <3>1. \A g \in Fetches : fetch'[g] = IF g = f THEN x ELSE fetch[g]
      BY <1>1, <2>2
    <3> QED BY <1>2, <2>2, <3>1
  <2> QED BY <2>1, <2>2
<1> QED BY <1>3 DEF LocalTypes, FetchType, Top

LEMMA ServerLocals ==
  ASSUME Limits, SyncInv, LocalTypes,
         \/ Sync!AppendMessage
         \/ \E s \in DOMAIN rows : Sync!ChangeMessage(s) \/ Sync!Resend(s)
         \/ \E n \in news : Sync!PublishNew(n)
         \/ \E s \in updates : Sync!PublishUpdate(s)
  PROVE  LocalTypes'
<1>1. fetch' = fetch /\ online' = online
  BY DEF Sync!AppendMessage, Sync!ChangeMessage, Sync!Resend, Sync!PublishNew, Sync!PublishUpdate, Sync!client
<1>2. lastRev' = lastRev \/ (lastRev < MaxRev /\ lastRev' = lastRev + 1)
  BY DEF Sync!AppendMessage, Sync!ChangeMessage, Sync!Resend, Sync!PublishNew, Sync!PublishUpdate
<1>3. breaks' = breaks \/ (breaks < MaxBreaks /\ breaks' = breaks + 1)
  BY DEF Sync!AppendMessage, Sync!ChangeMessage, Sync!Resend, Sync!PublishNew, Sync!PublishUpdate
<1>4. lastRev \in Nat /\ lastRev <= MaxRev /\ MaxRev \in Nat /\ breaks \in 0..MaxBreaks /\ MaxBreaks \in Nat
      /\ online \in BOOLEAN
  BY DEF SyncInv, ServerOK, LocalTypes, Limits
<1>5. lastRev' <= MaxRev /\ breaks' \in 0..MaxBreaks
  BY <1>2, <1>3, <1>4
<1> QED BY <1>1, <1>4, <1>5, LocalStep

LEMMA SocketLocals ==
  ASSUME Limits, SyncInv, LocalTypes,
         Sync!ReceiveNew \/ Sync!ReceiveUpdate \/ Sync!Drop \/ Sync!Kill \/ Sync!Reconnect
  PROVE  LocalTypes'
<1>1. lastRev' = lastRev /\ (online' = online \/ online' = TRUE \/ online' = FALSE)
  BY DEF Sync!ReceiveNew, Sync!ReceiveUpdate, Sync!Drop, Sync!Kill, Sync!Reconnect, Sync!server
<1>2. breaks' = breaks \/ (breaks < MaxBreaks /\ breaks' = breaks + 1)
  BY DEF Sync!ReceiveNew, Sync!ReceiveUpdate, Sync!Drop, Sync!Kill, Sync!Reconnect
<1>3. lastRev <= MaxRev /\ breaks \in 0..MaxBreaks /\ MaxBreaks \in Nat /\ online \in BOOLEAN
  BY DEF LocalTypes, Limits
<1>4. lastRev' <= MaxRev /\ breaks' \in 0..MaxBreaks /\ online' \in BOOLEAN
  <2>1. lastRev' <= MaxRev /\ breaks' \in 0..MaxBreaks
    BY <1>1, <1>2, <1>3
  <2>2. online' \in BOOLEAN
    BY Zenon, <1>1, <1>3
  <2> QED BY <2>1, <2>2
<1>5. \/ fetch' = fetch
      \/ \E f \in Fetches : fetch' = [fetch EXCEPT ![f] = [Sync!Idle EXCEPT !.step = "begin"]]
      \/ fetch' = [f \in Fetches |-> Sync!Idle]
  BY DEF Sync!ReceiveNew, Sync!ReceiveUpdate, Sync!Drop, Sync!Kill, Sync!Reconnect, Sync!Put, Sync!client
<1>6. CASE fetch' = [f \in Fetches |-> Sync!Idle]
  <2>1. \A f \in Fetches : FetchType(fetch'[f])
    BY <1>6, AskTypes
  <2> QED BY <1>4, <2>1 DEF LocalTypes, FetchType, Top
<1> QED BY <1>4, <1>5, <1>6, AskTypes, LocalStep

LEMMA ReconcileLocals ==
  ASSUME Limits, SyncInv, LocalTypes, NEW f \in Fetches,
         Sync!Start(f) \/ Sync!Reconcile(f) \/ Sync!Fail(f)
  PROVE  LocalTypes'
<1> DEFINE x == fetch[f]
<1>1. /\ lastRev' = lastRev /\ online' = online
      /\ breaks' = breaks \/ (breaks < MaxBreaks /\ breaks' = breaks + 1)
  BY DEF Sync!Start, Sync!Reconcile, Sync!Begin, Sync!ReadPage, Sync!StorePage, Sync!EmptyPage,
         Sync!SetMark, Sync!Fail, Sync!server
<1>2. lastRev <= MaxRev /\ breaks \in 0..MaxBreaks /\ MaxBreaks \in Nat /\ online \in BOOLEAN
  BY DEF LocalTypes, Limits
<1>3. lastRev' <= MaxRev /\ breaks' \in 0..MaxBreaks /\ online' \in BOOLEAN
  BY <1>1, <1>2
<1>4. FetchOK(x) /\ FetchType(x)
  BY DEF SyncInv, LocalTypes
<1>5. x.page \subseteq [seq : 1..MaxSeq, at : 1..MaxRev]
  BY <1>4, SeqsNow DEF FetchOK
<1>6. Top \in Nat /\ MaxRev <= Top /\ MaxSeq <= Top /\ MaxSeq \in Nat /\ MaxRev \in Nat
  BY TopIs DEF Limits, Bounds
<1> HIDE DEF x
<1>7. ASSUME NEW y, FetchType(y), fetch' = [fetch EXCEPT ![f] = y] PROVE LocalTypes'
  BY <1>3, <1>7, LocalStep
<1>8. CASE Sync!Start(f)
  BY <1>7, <1>8, AskTypes DEF Sync!Start, Sync!Put
<1>9. CASE Sync!Begin(f)
  <2>1. CASE Sync!Holes = {}
    BY <1>7, <1>9, <2>1, AskTypes DEF Sync!Begin, Sync!Put
  <2>2. CASE Sync!Holes # {}
    <3>1. Sync!Holes \subseteq 1..MaxSeq /\ Sync!Holes \in SUBSET Nat
      BY <1>6 DEF Sync!Holes, Sync!Seqs
    <3>2. Sync!Min(Sync!Holes) \in 1..MaxSeq
      BY <2>2, <3>1, MinIs
    <3>3. Sync!Min(Sync!Holes) - 1 \in 0..Top
      BY <1>6, <3>2
    <3>4. fetch' = [fetch EXCEPT ![f] = Sync!AskRepair(Sync!Min(Sync!Holes) - 1)]
      BY <1>9, <2>2 DEF Sync!Begin, Sync!Put
    <3> QED BY <1>7, <3>3, <3>4, AskTypes
  <2> QED BY <2>1, <2>2
<1>10. CASE Sync!ReadPage(f)
  <2> DEFINE page == Sync!Page(x.repairing, x.cursor)
             read == {[seq |-> s, at |-> rows[s].rev] : s \in page.rows}
             y == [x EXCEPT !.step = "apply", !.more = page.more, !.page = read]
  <2>1. fetch' = [fetch EXCEPT ![f] = y]
    BY <1>10 DEF Sync!ReadPage, Sync!Put, x
  <2>2. page.more \in BOOLEAN
    BY DEF Sync!Page
  <2> HIDE DEF page, read
  <2>3. y.step = "apply" /\ y.more = page.more /\ y.repairing = x.repairing /\ y.cursor = x.cursor
    BY <1>4 DEF FetchOK
  <2> HIDE DEF y
  <2>4. FetchType(y)
    BY <1>4, <2>2, <2>3 DEF FetchType
  <2> QED BY <1>7, <2>1, <2>4
<1>11. CASE Sync!StorePage(f)
  <2>1. x.page # {}
    BY <1>11 DEF Sync!StorePage, x
  <2>2. CASE fetch' = [fetch EXCEPT ![f] = [x EXCEPT !.step = "mark"]]
    <3>1. PICK y : y = [x EXCEPT !.step = "mark"]
      OBVIOUS
    <3>2. y.step = "mark" /\ y.more = x.more /\ y.repairing = x.repairing /\ y.cursor = x.cursor
      BY <1>4, <3>1 DEF FetchOK
    <3>3. FetchType(y)
      BY <1>4, <3>2 DEF FetchType
    <3> QED BY <1>7, <2>2, <3>1, <3>3
  <2>3. CASE fetch' = [fetch EXCEPT ![f] = Sync!AskRepair(Sync!Highest(x.page))]
    <3> DEFINE seqs == {r.seq : r \in x.page}
    <3>1. seqs \in SUBSET (0..MaxSeq) /\ seqs # {}
      BY <1>5, <1>6, <2>1
    <3>2. Sync!Highest(x.page) = Sync!Max(seqs)
      BY DEF Sync!Highest
    <3> HIDE DEF seqs
    <3>3. Sync!Max(seqs) \in 0..MaxSeq
      BY <1>6, <3>1, MaxIs
    <3>4. Sync!Highest(x.page) \in 0..Top
      BY <1>6, <3>2, <3>3
    <3> QED BY <1>7, <2>3, <3>4, AskTypes
  <2>4. CASE fetch' = [fetch EXCEPT ![f] = Sync!AskSync]
    BY <1>7, <2>4, AskTypes
  <2> QED BY <1>11, <2>2, <2>3, <2>4 DEF Sync!StorePage, Sync!Put, x
<1>12. CASE Sync!EmptyPage(f) \/ Sync!Fail(f)
  <2>1. fetch' = [fetch EXCEPT ![f] = Sync!AskSync] \/ fetch' = [fetch EXCEPT ![f] = Sync!Idle]
    BY <1>12 DEF Sync!EmptyPage, Sync!Fail, Sync!Put
  <2> QED BY <1>7, <2>1, AskTypes
<1>13. CASE Sync!SetMark(f)
  <2> DEFINE revs == {r.at : r \in x.page}
             reached == Sync!MaxRevOf(x.page)
  <2>1. \/ fetch' = [fetch EXCEPT ![f] = [Sync!Idle EXCEPT !.step = "ask", !.cursor = reached]]
        \/ fetch' = [fetch EXCEPT ![f] = Sync!Idle]
    BY <1>13 DEF Sync!SetMark, Sync!Put, x
  <2>2. x.page # {}
    BY <1>4, <1>13 DEF FetchOK, Sync!SetMark, x
  <2>3. revs \in SUBSET (0..MaxRev) /\ revs # {}
    BY <1>5, <1>6, <2>2
  <2>4. reached = Sync!Max(revs)
    BY DEF Sync!MaxRevOf
  <2> HIDE DEF revs, reached
  <2>5. reached \in revs
    BY <1>6, <2>3, <2>4, MaxIs
  <2>6. reached \in 0..Top
    BY <1>6, <2>3, <2>5
  <2> QED BY <1>7, <2>1, <2>6, AskTypes
<1> QED BY <1>8, <1>9, <1>10, <1>11, <1>12, <1>13 DEF Sync!Reconcile

\* The store, the watermark, the frames and the locals of every reconciliation keep their
\* types: no cursor leaves the log and no page, however old, names a row that is not there.
THEOREM SyncTypes ==
  ASSUME MaxSeq \in Nat, MaxRev \in Nat, MaxBreaks \in Nat, PageSize \in Nat \ {0}
  PROVE  Sync!Spec => []Sync!TypeOK
<1>1. Limits /\ Bounds
  BY DEF Limits, Bounds
<1>2. Sync!Init => SyncInv /\ LocalTypes
  <2> SUFFICES ASSUME Sync!Init PROVE LocalTypes
    BY <1>1, SyncInit
  <2>1. /\ lastRev = 0 /\ online = FALSE /\ breaks = 0 /\ \A f \in Fetches : fetch[f] = Sync!Idle
    BY DEF Sync!Init
  <2>2. 0 \in 0..Top
    BY <1>1, TopIs
  <2>3. FetchType(State("idle", FALSE, 0, {}, FALSE))
    BY <2>2, PlainType
  <2>4. FetchType(Sync!Idle)
    BY Zenon, <2>3, States
  <2>5. \A f \in Fetches : FetchType(fetch[f])
    BY <2>1, <2>4
  <2>6. lastRev <= MaxRev /\ breaks \in 0..MaxBreaks
    BY <1>1, <2>1 DEF Limits
  <2> QED BY <2>1, <2>5, <2>6 DEF LocalTypes
<1>3. SyncInv /\ LocalTypes /\ [Sync!Next]_Sync!vars => SyncInv' /\ LocalTypes'
  <2> SUFFICES ASSUME SyncInv, LocalTypes, [Sync!Next]_Sync!vars PROVE LocalTypes'
    BY <1>1, SyncInductive
  <2>1. CASE UNCHANGED Sync!vars
    <3>1. lastRev' = lastRev /\ online' = online /\ breaks' = breaks /\ fetch' = fetch
      BY <2>1 DEF Sync!vars, Sync!server, Sync!client
    <3> QED BY <3>1 DEF LocalTypes, FetchType, Top
  <2> QED BY <1>1, <2>1, ServerLocals, SocketLocals, ReconcileLocals DEF Sync!Next
<1>4. SyncInv /\ LocalTypes => Sync!TypeOK
  <2> SUFFICES ASSUME SyncInv, LocalTypes PROVE Sync!TypeOK
    OBVIOUS
  <2>1. /\ DOMAIN rows \subseteq 1..MaxSeq /\ lastRev \in 0..MaxRev /\ mark \in 0..lastRev
        /\ HonestRows \subseteq [seq : 1..MaxSeq, at : 1..MaxRev]
        /\ HonestFrames \subseteq [t : {"new", "update"}, seq : 1..MaxSeq, at : 1..MaxRev]
    BY <1>1, SeqsNow DEF SyncInv, StoreOK
  <2>2. Sync!Seqs = 1..MaxSeq /\ Sync!Rows = [seq : 1..MaxSeq, at : 1..MaxRev]
    BY DEF Sync!Seqs, Sync!Rows
  <2>3. rows \in Seq([sent : 1..MaxRev, rev : 1..MaxRev]) /\ Len(rows) <= MaxSeq
    <3>1. rows \in Seq([sent : Nat, rev : Nat])
      BY DEF SyncInv, ServerOK
    <3>2. \A s \in 1..Len(rows) : rows[s] \in [sent : 1..MaxRev, rev : 1..MaxRev]
      <4> SUFFICES ASSUME NEW s \in 1..Len(rows) PROVE rows[s] \in [sent : 1..MaxRev, rev : 1..MaxRev]
        OBVIOUS
      <4>1. s \in DOMAIN rows
        BY <3>1
      <4>2. rows[s] \in [sent : Nat, rev : Nat]
        BY Zenon, <3>1, ElementOfSeq
      <4>3. rows[s].rev \in 1..lastRev /\ rows[s].sent \in 1..rows[s].rev
        BY <4>1 DEF SyncInv, ServerOK
      <4>4. rows[s].rev \in 1..MaxRev /\ rows[s].sent \in 1..MaxRev
        BY <1>1, <2>1, <4>3 DEF Limits
      <4> QED BY <4>2, <4>4
    <3>3. Len(rows) \in Nat /\ DOMAIN rows = 1..Len(rows)
      BY <3>1
    <3>4. Len(rows) <= MaxSeq
      <4>1. Len(rows) = 0 \/ Len(rows) \in DOMAIN rows
        BY <3>3
      <4> QED BY <1>1, <2>1, <3>3, <4>1 DEF Bounds
    <3> QED BY <3>1, <3>2, <3>4, SeqInto
  <2>4. news \subseteq Sync!Rows /\ updates \subseteq Sync!Seqs
    BY <2>1, <2>2 DEF SyncInv, ServerOK
  <2>5. frames \in Seq([t : {"new", "update"}, seq : Sync!Seqs, at : 1..MaxRev])
    <3>1. frames \in Seq(HonestFrames)
      BY DEF SyncInv, ServerOK
    <3>2. frames \in Seq([t : {"new", "update"}, seq : 1..MaxSeq, at : 1..MaxRev])
      BY Zenon, <2>1, <3>1, SeqWider
    <3> QED BY <2>2, <3>2
  <2>6. held \in [Sync!Seqs -> 0..MaxRev] /\ shown \in [Sync!Seqs -> 0..MaxRev]
    <3>1. held \in [Sync!Seqs -> Nat] /\ shown \in [Sync!Seqs -> Nat]
      BY DEF SyncInv, StoreOK
    <3>2. ASSUME NEW s \in Sync!Seqs PROVE held[s] \in 0..MaxRev /\ shown[s] \in 0..MaxRev
      <4>1. CASE s \in DOMAIN rows
        <5>1. held[s] <= rows[s].rev /\ shown[s] <= rows[s].rev /\ rows[s].rev \in 1..lastRev
          BY <4>1 DEF SyncInv, StoreOK, ServerOK
        <5> QED BY <1>1, <2>1, <3>1, <5>1 DEF Limits
      <4>2. CASE s \notin DOMAIN rows
        <5>1. held[s] = 0 /\ shown[s] = 0
          BY <4>2 DEF SyncInv, StoreOK
        <5> QED BY <1>1, <5>1 DEF Limits
      <4> QED BY <4>1, <4>2
    <3> QED BY <3>1, <3>2
  <2>7. mark \in 0..MaxRev
    BY <1>1, <2>1 DEF Limits
  <2>8. fetch \in [Fetches -> [step : {"idle", "begin", "ask", "apply", "mark"}, repairing : BOOLEAN,
                               cursor : 0..Top, page : SUBSET Sync!Rows, more : BOOLEAN]]
    <3>1. ASSUME NEW f \in Fetches
          PROVE  fetch[f] \in [step : {"idle", "begin", "ask", "apply", "mark"}, repairing : BOOLEAN,
                               cursor : 0..Top, page : SUBSET Sync!Rows, more : BOOLEAN]
      <4>1. FetchOK(fetch[f]) /\ FetchType(fetch[f])
        BY DEF SyncInv, LocalTypes
      <4>2. fetch[f].page \in SUBSET Sync!Rows
        BY <2>1, <2>2, <4>1 DEF FetchOK
      <4> QED BY <4>1, <4>2 DEF FetchOK, FetchType
    <3> QED BY <3>1 DEF SyncInv
  <2> QED BY <2>1, <2>3, <2>4, <2>5, <2>6, <2>7, <2>8 DEF Sync!TypeOK, Top, LocalTypes
<1> QED BY <1>1, <1>2, <1>3, <1>4, PTL DEF Sync!Spec
-----------------------------------------------------------------------------
\* The server that ChatSync reads from, as ChannelLog sees it: a row is known by its seq.
RowEntry(s) == [seq |-> s, sender |-> "anyone", key |-> s, rev |-> rows[s].rev]

Server == INSTANCE ChannelLog
            WITH Users <- {"anyone"}, Keys <- Sync!Seqs,
                 entries <- {RowEntry(s) : s \in DOMAIN rows},
                 top <- Len(rows), rev <- lastRev, open <- TRUE

LEMMA AppendIsAppend == ASSUME Bounds, SyncInv, Sync!AppendMessage PROVE Server!Next
<1> PICK n : n = Len(rows) + 1
  OBVIOUS
<1> PICK r : r = lastRev + 1
  OBVIOUS
<1> DEFINE row == [sent |-> r, rev |-> r]
           entry == [seq |-> n, sender |-> "anyone", key |-> n, rev |-> r]
<1>1. Len(rows) < MaxSeq /\ lastRev' = lastRev + 1 /\ rows' = Append(rows, row)
  BY DEF Sync!AppendMessage
<1>2. rows \in Seq([sent : Nat, rev : Nat]) /\ Len(rows) \in Nat /\ DOMAIN rows = 1..Len(rows) /\ lastRev \in Nat
  BY DEF SyncInv, ServerOK
<1>3. row \in [sent : Nat, rev : Nat] /\ row.rev = r
  BY <1>2
<1> HIDE DEF row
<1>4. Len(rows') = n /\ DOMAIN rows' = 1..n /\ rows'[n] = row /\ \A s \in 1..Len(rows) : rows'[s] = rows[s]
  BY <1>1, <1>2, <1>3
<1>5. 1..Len(rows) \subseteq 1..n /\ n \in 1..n /\ n \in Sync!Seqs
      /\ \A s \in 1..n : s \in 1..Len(rows) \/ s = n
  BY <1>1, <1>2 DEF Bounds, Sync!Seqs
<1>6. \A s \in 1..Len(rows) : RowEntry(s)' = RowEntry(s)
  BY <1>4 DEF RowEntry
<1>7. RowEntry(n)' = entry
  BY <1>3, <1>4 DEF RowEntry
<1>8. \A e \in {RowEntry(s) : s \in DOMAIN rows} : e.key # n
  BY <1>2 DEF RowEntry
<1> HIDE DEF entry
<1>9. {RowEntry(s) : s \in DOMAIN rows}' = {RowEntry(s) : s \in DOMAIN rows} \union {entry}
  BY <1>2, <1>4, <1>5, <1>6, <1>7
<1>10. Server!Append("anyone", n)
  BY <1>1, <1>4, <1>8, <1>9 DEF Server!Append, entry
<1> QED BY <1>5, <1>10 DEF Server!Next

LEMMA ChangeIsChange ==
  ASSUME SyncInv, NEW s \in DOMAIN rows, Sync!ChangeMessage(s)
  PROVE  Server!Next
<1> DEFINE moved(e) == IF e.seq = s THEN [e EXCEPT !.rev = lastRev + 1] ELSE e
<1>1. lastRev' = lastRev + 1 /\ rows' = [rows EXCEPT ![s].rev = lastRev + 1]
  BY DEF Sync!ChangeMessage
<1>2. rows \in Seq([sent : Nat, rev : Nat]) /\ Len(rows) \in Nat /\ DOMAIN rows = 1..Len(rows)
  BY DEF SyncInv, ServerOK
<1>3. DOMAIN rows' = DOMAIN rows /\ Len(rows') = Len(rows)
  <2> DEFINE row == [rows[s] EXCEPT !.rev = lastRev + 1]
  <2>1. rows[s] \in [sent : Nat, rev : Nat] /\ lastRev \in Nat
    BY <1>2, ElementOfSeq DEF SyncInv, ServerOK
  <2>2. row \in [sent : Nat, rev : Nat] /\ rows' = [rows EXCEPT ![s] = row]
    BY <1>1, <2>1
  <2> HIDE DEF row
  <2>3. /\ [rows EXCEPT ![s] = row] \in Seq([sent : Nat, rev : Nat])
        /\ Len([rows EXCEPT ![s] = row]) = Len(rows)
    BY <1>2, <2>2, ExceptSeq
  <2> QED BY <1>1, <2>2, <2>3
<1>4. \A q \in DOMAIN rows : rows'[q].rev = IF q = s THEN lastRev + 1 ELSE rows[q].rev
  <2> SUFFICES ASSUME NEW q \in DOMAIN rows
               PROVE  rows'[q].rev = IF q = s THEN lastRev + 1 ELSE rows[q].rev
    OBVIOUS
  <2>1. rows[q] \in [sent : Nat, rev : Nat]
    BY <1>2, ElementOfSeq
  <2>2. rows'[q] = IF q = s THEN [rows[q] EXCEPT !.rev = lastRev + 1] ELSE rows[q]
    BY <1>1
  <2> QED BY <2>1, <2>2
<1>5. \A q \in DOMAIN rows : RowEntry(q)' = moved(RowEntry(q))
  BY <1>4 DEF RowEntry
<1>6. {RowEntry(q) : q \in DOMAIN rows}' = {moved(RowEntry(q)) : q \in DOMAIN rows}
  BY <1>3, <1>5
<1>7. {RowEntry(q) : q \in DOMAIN rows}' = {moved(e) : e \in {RowEntry(q) : q \in DOMAIN rows}}
  BY <1>6
<1>8. Server!Change(s)
  BY <1>1, <1>3, <1>7 DEF Server!Change
<1> QED BY <1>2, <1>8 DEF Server!Next

\* The server that a reconciling client talks to is the log that MessageLog implements:
\* every write of it appends an entry or moves one past every revision given out, and
\* nothing a client, a socket or a publication does touches it.
THEOREM ServerIsALog ==
  ASSUME MaxSeq \in Nat, PageSize \in Nat \ {0}
  PROVE  Sync!Spec => Server!Spec
<1>1. Bounds
  BY DEF Bounds
<1>2. Sync!Init => Server!Init
  BY DEF Sync!Init, Server!Init
<1>3. SyncInv /\ [Sync!Next]_Sync!vars => [Server!Next]_Server!logVars
  <2> SUFFICES ASSUME SyncInv, [Sync!Next]_Sync!vars PROVE [Server!Next]_Server!logVars
    OBVIOUS
  <2>1. CASE Sync!AppendMessage \/ \E s \in DOMAIN rows : Sync!ChangeMessage(s)
    BY <1>1, <2>1, AppendIsAppend, ChangeIsChange
  <2>2. CASE rows' = rows /\ lastRev' = lastRev
    BY <2>2 DEF Server!logVars, RowEntry
  <2>3. CASE (\E s \in DOMAIN rows : Sync!Resend(s)) \/ (\E n \in news : Sync!PublishNew(n))
             \/ \E s \in updates : Sync!PublishUpdate(s)
    BY <2>2, <2>3 DEF Sync!Resend, Sync!PublishNew, Sync!PublishUpdate
  <2>4. CASE Sync!ReceiveNew \/ Sync!ReceiveUpdate \/ Sync!Drop \/ Sync!Kill \/ Sync!Reconnect
    BY <2>2, <2>4 DEF Sync!ReceiveNew, Sync!ReceiveUpdate, Sync!Drop, Sync!Kill, Sync!Reconnect, Sync!server
  <2>5. CASE \E f \in Fetches : Sync!Start(f) \/ Sync!Reconcile(f) \/ Sync!Fail(f)
    BY <2>2, <2>5 DEF Sync!Start, Sync!Reconcile, Sync!Begin, Sync!ReadPage, Sync!StorePage,
                      Sync!EmptyPage, Sync!SetMark, Sync!Fail, Sync!server
  <2>6. CASE UNCHANGED Sync!vars
    BY <2>2, <2>6 DEF Sync!vars, Sync!server
  <2> QED BY <2>1, <2>3, <2>4, <2>5, <2>6 DEF Sync!Next
<1> QED BY <1>1, <1>2, <1>3, SyncInit, SyncInductive, PTL DEF Sync!Spec, Server!Spec
===============================================================================
