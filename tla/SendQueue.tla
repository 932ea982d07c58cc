------------------------------- MODULE SendQueue -------------------------------
(***************************************************************************)
(* The sending half of one client (packages/client-core): its outbox, the   *)
(* retrying send, the socket with its handshake, and the loops that bring a *)
(* lost socket back, against a gateway that answers each frame in turn and  *)
(* stores a message once per client id (MessageLog).                        *)
(*                                                                          *)
(* JavaScript runs one callback at a time, so a step is a callback together *)
(* with the promise continuations it settles.  `client` is the ChatClient   *)
(* object; the operators on it are what its methods do, and an action       *)
(* composes them in the order the code runs them.                           *)
(***************************************************************************)
EXTENDS Integers, Sequences, SequencesExt

CONSTANTS Messages,    \* the messages the member sends: one client_msg_id each
          MaxAttempts, \* maxSendAttempts
          Retries,     \* the attempts of one reconnect()
          MaxSockets,  \* bound: sockets that are not forgotten yet
          MaxTrouble,  \* bound: broken sockets, failed handshakes, requests and sends
          MaxVisits    \* bound: foregrounds, taps on a failed message, sign-outs

ASSUME SendQueueAssumption ==
    /\ MaxAttempts \in Nat \ {0} /\ Retries \in Nat \ {0}
    /\ MaxSockets \in Nat \ {0} /\ MaxTrouble \in Nat /\ MaxVisits \in Nat
    /\ Messages \intersect {"start", "app", "timer", "nobody"} = {}

Sockets == 1..MaxSockets
NoSocket == 0
Loops == Messages \union {"start", "app", "timer"} \* who may be in connect()
Nobody == "nobody"

VARIABLES client,   \* the ChatClient: see Fresh
          conn,     \* how each socket is, as the client's end sees it
          up,       \* messages written to each socket and not handled
          accepted, \* sockets whose token the gateway accepted
          down,     \* frames under way to the client on each socket
          applying, \* acks read whose message is being stored on the device
          log,      \* the channel, as the client ids in seq order
          verdicts, \* history: sends the gateway did not store, and what it answered
          trouble, visits

wire == <<conn, up, accepted, down>>
vars == <<client, wire, applying, log, verdicts, trouble, visits>>

Off == [at |-> "off", left |-> 0, socket |-> NoSocket]

\* A ChatClient as it is constructed.
Fresh ==
    [outbox |-> [m \in Messages |-> "none"],   \* "pending", "failed"
     waiters |-> {},                           \* registered AckWaiters
     call |-> [m \in Messages |-> "new"],      \* sendWithRetry, per message
     tries |-> [m \in Messages |-> 0],
     got |-> [m \in Messages |-> 0],           \* the seq it resolved with
     socket |-> NoSocket, authenticated |-> FALSE,
     handshake |-> Nobody,                     \* whom authResolved belongs to
     alarms |-> {},                            \* handshake timeouts not cleared
     connecting |-> FALSE, reconnecting |-> FALSE,
     timer |-> FALSE,                          \* reconnectTimer
     closedByUs |-> FALSE,
     loop |-> [l \in Loops |-> Off]]
-------------------------------------------------------------------------------
\* The methods of the client, as what they make of it.

\* TERMINAL_SEND_CODES: content_refused and forbidden are one, "refused".
TerminalCodes == {"refused", "malformed"}

Usable(c) == c.socket # NoSocket /\ c.authenticated

\* connect() up to its wait: whatever socket there was is abandoned.
Dial(c, l, s, left) ==
    [c EXCEPT !.closedByUs = FALSE, !.authenticated = FALSE, !.connecting = TRUE,
              !.timer = FALSE, !.socket = s, !.handshake = l, !.alarms = @ \union {s},
              !.loop[l] = [at |-> "connecting", left |-> left, socket |-> s]]

\* scheduleReconnect: one timer, and only when nobody else is at it.
Scheduled(c) ==
    IF c.closedByUs \/ c.connecting \/ c.reconnecting THEN c ELSE [c EXCEPT !.timer = TRUE]

\* flushOne, called by sendWithRetry: the waiter is registered before send() may throw.
Flushed(c, m) ==
    IF c.outbox[m] = "none" THEN [c EXCEPT !.call[m] = "pausing"]
    ELSE [c EXCEPT !.waiters = @ \union {m},
                   !.call[m] = IF Usable(c) THEN "waiting" ELSE "pausing"]

\* Its frame goes out.
Wrote(c, m) == c.outbox[m] # "none" /\ Usable(c)

\* Mutant: a refusal clears the waiter without rejecting it.
RejectedUnheard(c, m, terminal) == [c EXCEPT !.waiters = @ \ {m}]

\* A waiter is rejected: the call waiting on it pauses, or gives up for good.
Rejected(c, m, terminal) ==
    IF m \notin c.waiters THEN c
    ELSE IF c.call[m] # "waiting" THEN [c EXCEPT !.waiters = @ \ {m}]
    ELSE IF terminal THEN [c EXCEPT !.waiters = @ \ {m}, !.call[m] = "refused",
                                    !.outbox[m] = "none"]
    ELSE [c EXCEPT !.waiters = @ \ {m}, !.call[m] = "pausing"]

AllRejected(c) ==
    [c EXCEPT !.waiters = {},
              !.call = [m \in Messages |->
                            IF m \in c.waiters /\ @[m] = "waiting" THEN "pausing" ELSE @[m]]]

\* reconnect() returns or throws to its caller; start() is a connect of its own.
Finished(c, l, how) ==
    LET d == [c EXCEPT !.reconnecting = l = "start" /\ @, !.loop[l] = Off]
    IN  IF l \in Messages
        THEN IF how = "up" THEN Flushed(d, l) ELSE [d EXCEPT !.call[l] = "pausing"]
        ELSE IF l = "timer" /\ how = "down" THEN Scheduled(d) ELSE d

AttemptFailed(c, l) ==
    IF c.loop[l].left > 1
    THEN [c EXCEPT !.loop[l] = [at |-> "backoff", left |-> @.left - 1, socket |-> NoSocket]]
    ELSE Finished(c, l, "down")

\* settleAuth with an error: connect() drops its socket if it is still the current one.
HandshakeFailed(c, how) ==
    IF c.handshake = Nobody THEN c
    ELSE LET l == c.handshake
             s == c.loop[l].socket
             d == [c EXCEPT !.handshake = Nobody, !.connecting = FALSE, !.alarms = @ \ {s},
                            !.socket = IF @ = s THEN NoSocket ELSE @,
                            !.authenticated = @ /\ c.socket # s]
         IN  IF how = "refused" THEN Finished(d, l, how) ELSE AttemptFailed(d, l)

\* settleAuth without one: connect() returns, and its caller goes on to syncAll.
HandshakeDone(c) ==
    LET l == c.handshake
        a == [c EXCEPT !.authenticated = TRUE]
    IN  IF l = Nobody THEN a
        ELSE [a EXCEPT !.handshake = Nobody, !.connecting = FALSE,
                       !.alarms = @ \ {c.loop[l].socket}, !.loop[l].at = "syncing"]

\* Mutant: the close of a socket that was replaced does nothing at all.
SocketClosedCurrentOnly(c, s) ==
    IF c.socket # s THEN c
    ELSE HandshakeFailed(Scheduled([AllRejected(c) EXCEPT !.socket = NoSocket,
                                                          !.authenticated = FALSE]), "down")

\* onclose: every waiter is rejected, whichever socket it was written to; the rest is
\* only for the current socket, and a handshake still waiting on it fails afterwards.
SocketClosed(c, s) ==
    LET woken == AllRejected(c)
    IN  IF c.socket # s THEN woken
        ELSE HandshakeFailed(Scheduled([woken EXCEPT !.socket = NoSocket,
                                                     !.authenticated = FALSE]), "down")
-------------------------------------------------------------------------------
\* Sockets the client abandons in a step are closed by it: their close event is to come.
Abandoned(how) == IF how \in {"open", "ending"} THEN "closing" ELSE how

Dialled(s) == [t \in Sockets |-> IF t = s THEN "open"
                                 ELSE IF t = client.socket THEN Abandoned(conn[t]) ELSE conn[t]]

\* What a handshake that failed leaves: its socket is closed.
HungUp == LET l == client.handshake
          IN  IF l = Nobody THEN conn
              ELSE [conn EXCEPT ![client.loop[l].socket] = Abandoned(@)]

\* A socket that is closing or gone delivers nothing any more.
Readable(d) == [s \in Sockets |-> IF conn'[s] \in {"open", "ending"} THEN d[s] ELSE <<>>]

\* The next socket there will be.
New(s) == conn[s] = "free" /\ \A r \in Sockets : conn[r] = "free" => s <= r
\* The provider's start() has made a client and called its connect().
Init ==
    /\ client = Dial(Fresh, "start", 1, 1)
    /\ conn = [s \in Sockets |-> IF s = 1 THEN "open" ELSE "free"]
    /\ up = [s \in Sockets |-> <<>>] /\ down = [s \in Sockets |-> <<>>]
    /\ accepted = {} /\ applying = {} /\ log = <<>> /\ verdicts = {} /\ trouble = 0 /\ visits = 0
-------------------------------------------------------------------------------
\* The client's own steps.

\* enqueue: the id and the entry exist before the first attempt.
Enqueue(m) ==
    /\ client.call[m] = "new"
    /\ client' = [client EXCEPT !.outbox[m] = "pending", !.call[m] = "pausing"]
    /\ UNCHANGED <<wire, applying, log, verdicts, trouble, visits>>

\* sendWithRetry: one more attempt, by way of reconnect() when there is no socket.
Attempt(m) ==
    LET c == [client EXCEPT !.tries[m] = @ + 1]
    IN  /\ client.call[m] = "pausing" /\ client.tries[m] < MaxAttempts
        /\ \/ /\ client.socket # NoSocket
              /\ client' = Flushed(c, m)
              /\ up' = IF Wrote(client, m)
                       THEN [up EXCEPT ![client.socket] = Append(@, m)] ELSE up
              /\ conn' = conn
           \/ /\ client.socket = NoSocket
              /\ \E s \in Sockets :
                    /\ New(s)
                    /\ client' = Dial([c EXCEPT !.call[m] = "recovering", !.reconnecting = TRUE],
                                      m, s, Retries)
                    /\ conn' = Dialled(s)
              /\ up' = up
        /\ down' = Readable(down)
        /\ UNCHANGED <<accepted, applying, log, verdicts, trouble, visits>>

\* Mutant: a send that is given up takes its entry with it.
ExhaustDropping(m) ==
    /\ client.call[m] = "pausing" /\ client.tries[m] = MaxAttempts
    /\ client' = [client EXCEPT !.call[m] = "failed", !.outbox[m] = "none"]
    /\ UNCHANGED <<wire, applying, log, verdicts, trouble, visits>>

\* Attempts used up: the entry stays, marked for the member to see.
Exhaust(m) ==
    /\ client.call[m] = "pausing" /\ client.tries[m] = MaxAttempts
    /\ client' = [client EXCEPT !.call[m] = "failed",
                                !.outbox[m] = IF @ = "pending" THEN "failed" ELSE @]
    /\ UNCHANGED <<wire, applying, log, verdicts, trouble, visits>>

\* The member taps a failed message: flushOne, with nobody to retry it.
Tap(m) ==
    /\ client.outbox[m] = "failed" /\ visits < MaxVisits
    /\ visits' = visits + 1
    /\ client' = [client EXCEPT !.waiters = @ \union {m}]
    /\ up' = IF Usable(client) THEN [up EXCEPT ![client.socket] = Append(@, m)] ELSE up
    /\ UNCHANGED <<conn, accepted, down, applying, log, verdicts, trouble>>

\* A loop nobody will wake: another connect() took its resolver.
Orphan(l) == client.loop[l].at = "connecting" /\ client.handshake # l

Begin(l, c, left) ==
    \E s \in Sockets :
        /\ New(s)
        /\ client' = Dial(c, l, s, left)
        /\ conn' = Dialled(s) /\ down' = Readable(down)
        /\ UNCHANGED <<up, accepted, applying, log, verdicts, trouble>>

\* The app comes back to the foreground.
Foreground ==
    /\ visits < MaxVisits /\ visits' = visits + 1
    /\ client.loop["app"].at = "off" \/ Orphan("app")
    /\ Begin("app", [client EXCEPT !.reconnecting = TRUE], Retries)

\* The armed timer: a reconnect() of one attempt.
TimerFires ==
    /\ client.timer /\ (client.loop["timer"].at = "off" \/ Orphan("timer"))
    /\ Begin("timer", [client EXCEPT !.reconnecting = TRUE], 1) /\ UNCHANGED visits

\* reconnect()'s backoff is over.
DialAgain(l) ==
    /\ client.loop[l].at = "backoff"
    /\ Begin(l, client, client.loop[l].left) /\ UNCHANGED visits

\* subscribe and syncAll, over HTTP whatever the socket does; then reconnect() returns.
SyncEnds(l) ==
    /\ client.loop[l].at = "syncing"
    /\ \/ /\ client' = Finished(client, l, "up")
          /\ up' = IF l \in Messages /\ Wrote(client, l)
                   THEN [up EXCEPT ![client.socket] = Append(@, l)] ELSE up
          /\ UNCHANGED trouble
       \/ /\ trouble < MaxTrouble /\ trouble' = trouble + 1
          /\ client' = AttemptFailed(client, l) /\ up' = up
    /\ UNCHANGED <<conn, accepted, down, applying, log, verdicts, visits>>

\* connect()'s timeout: it settles whatever handshake is pending now, be it another's.
\* On a socket that is well its own server answers first, unless that takes too long.
HandshakeTimeout(s) ==
    /\ s \in client.alarms
    /\ \/ conn[s] # "open" /\ UNCHANGED trouble
       \/ conn[s] = "open" /\ trouble < MaxTrouble /\ trouble' = trouble + 1
    /\ client' = HandshakeFailed([client EXCEPT !.alarms = @ \ {s}], "down")
    /\ conn' = HungUp /\ down' = Readable(down)
    /\ UNCHANGED <<up, accepted, applying, log, verdicts, visits>>

\* close(): the member signs out.
SignOut ==
    /\ visits < MaxVisits /\ visits' = visits + 1 /\ ~client.closedByUs
    /\ client' = [client EXCEPT !.closedByUs = TRUE, !.authenticated = FALSE,
                                !.timer = FALSE, !.socket = NoSocket]
    /\ conn' = [s \in Sockets |-> IF s = client.socket THEN Abandoned(conn[s]) ELSE conn[s]]
    /\ down' = Readable(down)
    /\ UNCHANGED <<up, accepted, applying, log, verdicts, trouble>>

\* The close event: of a socket we closed, of a broken one, or after the server's close.
CloseEvent(s) ==
    /\ \/ conn[s] \in {"closing", "broken"}
       \/ conn[s] = "ending" /\ down[s] = <<>>
    /\ client' = SocketClosed(client, s)
    /\ conn' = [conn EXCEPT ![s] = "gone"]
    /\ down' = Readable(down)
    /\ UNCHANGED <<up, accepted, applying, log, verdicts, trouble, visits>>

\* The next frame of a socket.
Receive(s) ==
    /\ conn[s] \in {"open", "ending"} /\ down[s] # <<>>
    /\ LET frame == Head(down[s])
       IN  /\ \/ frame.t = "auth.ok" /\ client' = HandshakeDone(client)
              \/ frame.t = "auth.err" /\ client' = HandshakeFailed(client, frame.code)
              \/ frame.t = "msg.err"
                 /\ client' = Rejected(client, frame.m, frame.code \in TerminalCodes)
              \/ frame.t = "msg.ack" /\ client' = client
           /\ conn' = IF frame.t = "auth.err" THEN HungUp ELSE conn
           /\ applying' = IF frame.t = "msg.ack" THEN applying \union {frame} ELSE applying
    /\ down' = Readable([down EXCEPT ![s] = Tail(@)])
    /\ UNCHANGED <<up, accepted, log, verdicts, trouble, visits>>

\* The ack's message has been stored on the device; only now is the entry dropped.
Settle(ack) ==
    /\ applying' = applying \ {ack}
    /\ client' = [client EXCEPT !.outbox[ack.m] = "none", !.waiters = @ \ {ack.m},
                                !.call[ack.m] = IF ack.m \in client.waiters /\ @ = "waiting"
                                                THEN "sent" ELSE @,
                                !.got[ack.m] = IF ack.m \in client.waiters /\ client.call[ack.m] = "waiting"
                                               THEN ack.seq ELSE @]
    /\ UNCHANGED <<wire, log, verdicts, trouble, visits>>
-------------------------------------------------------------------------------
\* The gateway and the network.

Send(s, frame) == down' = IF conn[s] = "open" THEN [down EXCEPT ![s] = Append(@, frame)] ELSE down

\* handleAuth accepts the token, or refuses it and closes the socket.
AcceptAuth(s) ==
    /\ conn[s] = "open" /\ s \notin accepted
    /\ accepted' = accepted \union {s}
    /\ Send(s, [t |-> "auth.ok"])
    /\ UNCHANGED <<client, conn, up, applying, log, verdicts, trouble, visits>>

\* invalid_token or signin_blocked end it; "timeout" is a moment.
RefuseAuth(s, code) ==
    /\ trouble < MaxTrouble /\ trouble' = trouble + 1
    /\ conn[s] = "open" /\ s \notin accepted
    /\ Send(s, [t |-> "auth.err", code |-> code])
    /\ conn' = [conn EXCEPT ![s] = "ending"]
    /\ UNCHANGED <<client, up, accepted, applying, log, verdicts, visits>>

\* Mutant: a retried frame is stored again.
HandleSendAgain(s) ==
    LET m == Head(up[s])
    IN  /\ s \in accepted /\ up[s] # <<>>
        /\ up' = [up EXCEPT ![s] = Tail(@)]
        /\ log' = Append(log, m)
        /\ Send(s, [t |-> "msg.ack", m |-> m, seq |-> Len(log')])
        /\ UNCHANGED <<client, conn, accepted, applying, verdicts, trouble, visits>>

\* handleSend: the append is idempotent, the ack carries the seq that was stored.
HandleSend(s) ==
    LET m == Head(up[s])
    IN  /\ s \in accepted /\ up[s] # <<>>
        /\ up' = [up EXCEPT ![s] = Tail(@)]
        /\ log' = IF m \in ToSet(log) THEN log ELSE Append(log, m)
        /\ Send(s, [t |-> "msg.ack", m |-> m, seq |-> CHOOSE i \in DOMAIN log' : log'[i] = m])
        /\ UNCHANGED <<client, conn, accepted, applying, verdicts, trouble, visits>>

\* "moment": the bucket is empty, the channel is gone, the upload is not ready.  "refused":
\* the content, or the sender, is not allowed.  "malformed": also any exception, except in
\* the reads before handleSend's try, which end in "silence".
FailSend(s, code) ==
    /\ trouble < MaxTrouble /\ trouble' = trouble + 1
    /\ s \in accepted /\ up[s] # <<>>
    /\ up' = [up EXCEPT ![s] = Tail(@)]
    /\ IF code = "silence" THEN down' = down
       ELSE Send(s, [t |-> "msg.err", m |-> Head(up[s]), code |-> code])
    /\ verdicts' = verdicts \union {<<Head(up[s]), code>> : c \in {code} \ {"moment", "malformed"}}
    /\ UNCHANGED <<client, conn, accepted, applying, log, visits>>

\* The transport dies, silently: what was under way to the client is lost.
Break(s) ==
    /\ trouble < MaxTrouble /\ trouble' = trouble + 1
    /\ conn[s] \in {"open", "ending"}
    /\ conn' = [conn EXCEPT ![s] = "broken"]
    /\ down' = Readable(down)
    /\ UNCHANGED <<client, up, accepted, applying, log, verdicts, visits>>

\* What was written to a socket that is gone is lost, or has been handled by now.
Forget(s) ==
    /\ conn[s] = "gone" /\ s \notin client.alarms
    /\ conn' = [conn EXCEPT ![s] = "free"]
    /\ up' = [up EXCEPT ![s] = <<>>]
    /\ accepted' = accepted \ {s}
    /\ UNCHANGED <<client, down, applying, log, verdicts, trouble, visits>>
-------------------------------------------------------------------------------
Next ==
    \/ \E m \in Messages : Enqueue(m) \/ Attempt(m) \/ Exhaust(m) \/ Tap(m)
    \/ \E l \in Loops : DialAgain(l) \/ SyncEnds(l)
    \/ Foreground \/ TimerFires \/ SignOut
    \/ \E s \in Sockets :
          \/ HandshakeTimeout(s) \/ CloseEvent(s) \/ Receive(s) \/ AcceptAuth(s)
          \/ HandleSend(s) \/ Break(s) \/ Forget(s)
          \/ \E code \in {"refused", "timeout"} : RefuseAuth(s, code)
          \/ \E code \in {"moment", "refused", "malformed", "silence"} : FailSend(s, code)
    \/ \E ack \in applying : Settle(ack)

Spec == Init /\ [][Next]_vars

\* Timers fire, requests end, frames that arrive are handled, sockets report their end.
Fairness ==
    /\ \A m \in Messages : WF_vars(Attempt(m)) /\ WF_vars(Exhaust(m))
    /\ \A l \in Loops : WF_vars(DialAgain(l)) /\ WF_vars(SyncEnds(l))
    /\ WF_vars(TimerFires)
    /\ \A s \in Sockets : /\ WF_vars(HandshakeTimeout(s)) /\ WF_vars(CloseEvent(s))
                          /\ WF_vars(Receive(s)) /\ WF_vars(AcceptAuth(s))
                          /\ WF_vars(HandleSend(s)) /\ WF_vars(Forget(s))
    /\ WF_vars(\E ack \in applying : Settle(ack))

FairSpec == Spec /\ Fairness
-------------------------------------------------------------------------------
Calls == {"new", "waiting", "recovering", "pausing", "sent", "refused", "failed"}

TypeOK ==
    /\ client.outbox \in [Messages -> {"none", "pending", "failed"}]
    /\ client.waiters \subseteq Messages
    /\ client.call \in [Messages -> Calls] /\ client.tries \in [Messages -> 0..MaxAttempts]
    /\ client.socket \in Sockets \union {NoSocket}
    /\ client.handshake \in Loops \union {Nobody}
    /\ conn \in [Sockets -> {"free", "open", "ending", "closing", "broken", "gone"}]
    /\ accepted \subseteq Sockets /\ log \in Seq(Messages)

\* "Recorded before it is sent, kept until answered": a message the member sent is in the
\* outbox until the server has stored it or has answered that it never will.
KeptUntilAnswered ==
    \A m \in Messages : client.call[m] # "new" /\ client.outbox[m] = "none" =>
        m \in ToSet(log) \/ client.call[m] = "refused"

\* A send that resolved was stored, once, at the seq it resolved with, however many
\* times its frame was sent and on however many sockets.
ResolvedIsStored ==
    /\ \A i, j \in DOMAIN log : log[i] = log[j] => i = j
    /\ \A m \in Messages : client.call[m] = "sent" =>
           client.got[m] \in DOMAIN log /\ log[client.got[m]] = m

\* The gateway met an exception it does not answer: nothing but the socket's end helps.
Unanswered(m) == <<m, "silence">> \in verdicts

\* A send that waits will be woken: its answer or its frame is still somewhere, or
\* some socket's close event is to come, which wakes every waiter.
WakeUpIsComing ==
    \A m \in Messages : client.call[m] = "waiting" =>
        /\ m \in client.waiters
        /\ \/ Unanswered(m)
           \/ \E ack \in applying : ack.m = m
           \/ \E s \in Sockets : \/ conn[s] \in {"ending", "closing", "broken"}
                                \/ /\ conn[s] = "open"
                                   /\ \/ m \in ToSet(up[s])
                                      \/ \E f \in ToSet(down[s]) :
                                            f.t \in {"msg.ack", "msg.err"} /\ f.m = m

Ended(m) == client.call[m] \in {"sent", "refused", "failed"}

\* Every send ends: resolved, refused or failed for the member to see.
SendsEnd == \A m \in Messages : client.call[m] # "new" ~> Ended(m)

\* It does, except for a send whose own connect() another one overtook, or whose frame
\* the gateway never answered.
SendsEndUnlessOvertaken ==
    \A m \in Messages : client.call[m] # "new" ~> Ended(m) \/ Orphan(m) \/ Unanswered(m)

\* What the screen says of a send: it is stored, or refused for what it is, or still listed.
NeverSilentlyDropped ==
    \A m \in Messages : client.call[m] # "new" =>
        client.outbox[m] # "none" \/ m \in ToSet(log) \/ <<m, "refused">> \in verdicts

\* "ChatClient pings every thirty seconds and reconnects a dropped socket on its own":
\* after a drop there is a usable socket again, unless the server turns the session away.
ComesBack ==
    Usable(client) /\ conn[client.socket] = "broken" ~>
        \/ Usable(client) /\ conn[client.socket] = "open"
        \/ client.closedByUs
        \/ \E s \in Sockets : [t |-> "auth.err", code |-> "refused"] \in ToSet(down[s])
===============================================================================
