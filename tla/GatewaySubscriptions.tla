-------------------------- MODULE GatewaySubscriptions --------------------------
(***************************************************************************)
(* One gateway process and one channel: the sockets that asked for the      *)
(* channel (gateway/server.ts), the map from the channel to its sockets     *)
(* (gateway/channel-subscriptions.ts), the gateway's one subscriber         *)
(* connection to Redis (bus/redis.ts), and the revocations the worker       *)
(* publishes when a membership ends, which reach whoever listens just then. *)
(*                                                                          *)
(* The process runs one callback at a time.  handleSubscribe is cut at its  *)
(* two awaits: the database reads, and Redis' answer to SUBSCRIBE.  Frames  *)
(* of one socket wait for each other; those of different sockets do not,    *)
(* and neither do a close and a revocation.                                 *)
(*                                                                          *)
(* ioredis keeps a command until its answer comes: after a break it sends   *)
(* again what was unanswered, and first subscribes to the topics it had.    *)
(***************************************************************************)
EXTENDS Integers, FiniteSets, SequencesExt

CONSTANTS Users, Sockets,
          SocketOwners, \* whom the sockets may be of
          MaxFrames,  \* bound: subscribe and unsubscribe frames
          MaxChanges  \* bound: memberships ended or begun, revocations repeated, and breaks

ASSUME GatewayAssumption == SocketOwners \subseteq [Sockets -> Users] /\ MaxFrames \in Nat /\ MaxChanges \in Nat

VARIABLES owner,      \* the user each socket authenticated as
          open,       \* the socket is in `states'
          subscribed, \* state.subscribed holds the channel
          sockets,    \* byChannel: the channel's entry, {} when there is none
          pc,         \* per socket: its frame in progress, with what loadAccessContext said
          toRedis, topic, fromRedis, \* the subscriber connection and Redis' side of it
          connected,  \* there is a subscriber connection
          hearing,    \* the SUBSCRIBE to the revocation topic was accepted
          joined,     \* ioredis will subscribe to the channel's topic again
          member,     \* club_members, as committed
          revoking,   \* users whose revocation the worker has not published yet
          frames, changes,
          stale,      \* history: sockets subscribed when their user's membership ended
          unheard,    \* history: users whose last revocation reached nobody
          crossed     \* history: an UNSUBSCRIBE was sent behind the SUBSCRIBE of a frame in progress

socketVars == <<owner, open, subscribed, sockets, pc>>
linkVars == <<connected, hearing, joined>>
redisVars == <<toRedis, topic, fromRedis>>
memberVars == <<member, revoking>>
history == <<stale, unheard, crossed>>
vars == <<socketVars, linkVars, redisVars, memberVars, frames, changes, history>>

Init == /\ owner \in SocketOwners
        /\ open = [s \in Sockets |-> TRUE]
        /\ subscribed = [s \in Sockets |-> FALSE]
        /\ sockets = {}
        /\ pc = [s \in Sockets |-> "idle"]
        /\ toRedis = <<>> /\ topic = FALSE /\ fromRedis = <<>>
        /\ connected = TRUE /\ hearing \in BOOLEAN /\ joined = FALSE
        /\ member = Users /\ revoking = {}
        /\ frames = 0 /\ changes = 0
        /\ stale = {} /\ unheard = {} /\ crossed = FALSE
-------------------------------------------------------------------------------
Goto(s, at) == pc' = [pc EXCEPT ![s] = at]

Subscribe(s) == [cmd |-> "subscribe", for |-> s]
Unsubscribe == [cmd |-> "unsubscribe"]

\* What comes back on the connection.
Accepted(s) == [t |-> "accepted", for |-> s]
Refused(s) == [t |-> "refused", for |-> s]
Unsubscribed == [t |-> "unsubscribed"]
Revocation(u) == [t |-> "revoke", for |-> u]

\* loadAccessContext and isChannelMember, of a club's channel.
MayRead(u) == u \in member

\* handleSubscribe: the access context is read ...
SubscribeFrame(s) ==
    /\ open[s] /\ pc[s] = "idle" /\ frames < MaxFrames
    /\ frames' = frames + 1
    /\ Goto(s, IF MayRead(owner[s]) THEN "allowed" ELSE "denied")
    /\ UNCHANGED <<owner, open, subscribed, sockets, linkVars, redisVars, memberVars, changes, history>>

Reject(s) ==
    /\ pc[s] = "denied"
    /\ Goto(s, "idle")
    /\ UNCHANGED <<owner, open, subscribed, sockets, linkVars, redisVars, memberVars, frames,
                   changes, history>>

\* ... attach finds the channel's entry, or asks Redis for the topic first.
AttachExisting(s) ==
    /\ pc[s] = "allowed"
    /\ sockets # {}
    /\ sockets' = sockets \union {s}
    /\ subscribed' = [subscribed EXCEPT ![s] = TRUE]
    /\ Goto(s, "idle")
    /\ UNCHANGED <<owner, open, linkVars, redisVars, memberVars, frames, changes, history>>

Attaching == {s \in Sockets : pc[s] = "attaching"}

AttachFirst(s) ==
    /\ pc[s] = "allowed"
    /\ sockets = {}
    /\ toRedis' = Append(toRedis, Subscribe(s))
    /\ Goto(s, "attaching")
    /\ crossed' = (crossed /\ Attaching # {})
    /\ UNCHANGED <<owner, open, subscribed, sockets, linkVars, topic, fromRedis, memberVars,
                   frames, changes, stale, unheard>>

\* Redis answers the commands of one connection in order; it may refuse one.
RedisServe ==
    /\ connected /\ toRedis # <<>>
    /\ toRedis' = Tail(toRedis)
    /\ LET c == Head(toRedis)
       IN  \/ /\ topic' = (c.cmd = "subscribe")
              /\ fromRedis' = Append(fromRedis, IF c.cmd = "subscribe" THEN Accepted(c.for) ELSE Unsubscribed)
           \/ /\ c.cmd = "subscribe"
              /\ UNCHANGED topic
              /\ fromRedis' = Append(fromRedis, Refused(c.for))
    /\ UNCHANGED <<socketVars, linkVars, memberVars, frames, changes, history>>

Read(answer) ==
    /\ fromRedis # <<>> /\ Head(fromRedis) = answer
    /\ fromRedis' = Tail(fromRedis)

\* Mutant: the second of two first subscribers replaces the set of the first.
AttachDoneReplacing(s) ==
    /\ Read(Accepted(s))
    /\ joined' = TRUE
    /\ sockets' = {s}
    /\ subscribed' = [subscribed EXCEPT ![s] = TRUE]
    /\ Goto(s, "idle")
    /\ UNCHANGED <<owner, open, connected, hearing, toRedis, topic, memberVars, frames, changes, history>>

\* The SUBSCRIBE was accepted: the entry is read again, and joined.
AttachDone(s) ==
    /\ Read(Accepted(s))
    /\ joined' = TRUE
    /\ sockets' = sockets \union {s}
    /\ subscribed' = [subscribed EXCEPT ![s] = TRUE]
    /\ Goto(s, "idle")
    /\ UNCHANGED <<owner, open, connected, hearing, toRedis, topic, memberVars, frames, changes, history>>

\* Mutant: the entry that was made before the SUBSCRIBE stays when that is refused.
AttachRefusedKeepsEntry(s) ==
    /\ Read(Refused(s))
    /\ sockets' = sockets \union {s}
    /\ Goto(s, "idle")
    /\ UNCHANGED <<owner, open, subscribed, linkVars, toRedis, topic, memberVars, frames,
                   changes, history>>

\* The SUBSCRIBE was refused: the channel is rejected and the map left as it was.
AttachRefused(s) ==
    /\ Read(Refused(s))
    /\ Goto(s, "idle")
    /\ UNCHANGED <<owner, open, subscribed, sockets, linkVars, toRedis, topic, memberVars,
                   frames, changes, history>>

\* detach, of every socket in S: the last one out drops the topic.
Detach(S) ==
    /\ sockets' = sockets \ S
    /\ subscribed' = [s \in Sockets |-> subscribed[s] /\ s \notin S]
    /\ stale' = stale \ S
    /\ IF sockets # {} /\ sockets \subseteq S
       THEN /\ toRedis' = Append(toRedis, Unsubscribe)
            /\ crossed' = (Attaching # {})
       ELSE UNCHANGED <<toRedis, crossed>>

UnsubscribeFrame(s) ==
    /\ open[s] /\ pc[s] = "idle" /\ frames < MaxFrames
    /\ frames' = frames + 1
    /\ Detach({s})
    /\ UNCHANGED <<owner, open, pc, linkVars, topic, fromRedis, memberVars, changes, unheard>>

\* The socket's close handler; a frame it had in progress goes on.
Close(s) ==
    /\ open[s]
    /\ open' = [open EXCEPT ![s] = FALSE]
    /\ Detach({s} \intersect {r \in Sockets : subscribed[r]})
    /\ UNCHANGED <<owner, pc, linkVars, topic, fromRedis, memberVars, frames, changes, unheard>>
-------------------------------------------------------------------------------
\* Nobody waits for the answer to an UNSUBSCRIBE.
Left ==
    /\ Read(Unsubscribed)
    /\ joined' = FALSE
    /\ UNCHANGED <<socketVars, connected, hearing, toRedis, topic, memberVars, frames, changes, history>>

Again(answer) == IF answer = Unsubscribed THEN Unsubscribe ELSE Subscribe(answer.for)

\* The connection breaks: the answers under way do not arrive and their commands are to be sent
\* again, before those not served; the revocations under way are gone.
Disconnect ==
    /\ connected /\ changes < MaxChanges
    /\ changes' = changes + 1
    /\ connected' = FALSE /\ topic' = FALSE /\ fromRedis' = <<>>
    /\ LET answers == {i \in DOMAIN fromRedis : fromRedis[i].t # "revoke"}
       IN  \E at \in UNION {[1..n -> answers] : n \in 0..Len(fromRedis)} :
              /\ \A i, j \in DOMAIN at : i < j => at[i] < at[j]
              /\ \A k \in answers : \E i \in DOMAIN at : at[i] = k
              /\ toRedis' = [i \in DOMAIN at |-> Again(fromRedis[at[i]])] \o toRedis
    /\ unheard' = unheard \union {u \in Users \ revoking :
                                     \E i \in DOMAIN fromRedis : fromRedis[i] = Revocation(u)}
    /\ UNCHANGED <<socketVars, hearing, joined, memberVars, frames, stale, crossed>>

\* There is a connection again, and the topics that were subscribed to are subscribed to again.
Reconnect ==
    /\ ~connected
    /\ connected' = TRUE /\ topic' = joined
    /\ UNCHANGED <<socketVars, hearing, joined, toRedis, fromRedis, memberVars, frames, changes, history>>

\* maxRetriesPerRequest: a command without a connection for long enough fails where it stands.
Flush ==
    /\ ~connected /\ toRedis # <<>>
    /\ toRedis' = Tail(toRedis)
    /\ LET c == Head(toRedis)
       IN  pc' = [s \in Sockets |-> IF c = Subscribe(s) THEN "idle" ELSE pc[s]]
    /\ UNCHANGED <<owner, open, subscribed, sockets, linkVars, topic, fromRedis, memberVars,
                   frames, changes, history>>
-------------------------------------------------------------------------------
\* A membership ends in the database; the outbox makes the worker publish it.
EndMembership(u) ==
    /\ u \in member /\ changes < MaxChanges
    /\ changes' = changes + 1
    /\ member' = member \ {u}
    /\ revoking' = revoking \union {u}
    /\ stale' = stale \union {s \in Sockets : owner[s] = u /\ subscribed[s]}
    /\ unheard' = unheard \ {u}
    /\ UNCHANGED <<socketVars, linkVars, redisVars, frames, crossed>>

Rejoin(u) ==
    /\ u \notin member /\ changes < MaxChanges
    /\ changes' = changes + 1
    /\ member' = member \union {u}
    /\ stale' = {s \in stale : owner[s] # u}
    /\ UNCHANGED <<socketVars, linkVars, redisVars, revoking, frames, unheard, crossed>>

\* publishRevocation, to whoever is subscribed at that moment: a PUBLISH is not kept for the
\* others.  An event delivered again publishes again.
PublishRevocation(u) ==
    /\ u \in revoking
    /\ fromRedis' = IF connected /\ hearing THEN Append(fromRedis, Revocation(u)) ELSE fromRedis
    /\ \/ /\ revoking' = revoking \ {u}
          /\ unheard' = IF connected /\ hearing THEN unheard ELSE unheard \union {u}
          /\ UNCHANGED changes
       \/ /\ changes < MaxChanges /\ changes' = changes + 1
          /\ UNCHANGED <<revoking, unheard>>
    /\ UNCHANGED <<socketVars, linkVars, toRedis, topic, member, frames, stale, crossed>>

\* Every attempt of the event failed and the outbox parked it.
ParkRevocation(u) ==
    /\ u \in revoking
    /\ revoking' = revoking \ {u}
    /\ unheard' = unheard \union {u}
    /\ UNCHANGED <<socketVars, linkVars, redisVars, member, frames, changes, stale, crossed>>

\* The first instruction that has arrived.  An answer to a SUBSCRIBE before it in
\* the same read only resolves a promise, so its frame may go on after it.
Instructions(u) == {i \in DOMAIN fromRedis : /\ fromRedis[i] = Revocation(u)
                                            /\ \A j \in 1..i-1 : fromRedis[j].t # "revoke"}

\* Mutant: only one of the user's sockets is dropped.
RevokeOne(u) == \E i \in Instructions(u) :
    /\ LET mine == {s \in Sockets : open[s] /\ owner[s] = u /\ subscribed[s]}
       IN  IF mine = {} THEN Detach({}) ELSE Detach({CHOOSE s \in mine : TRUE})
    /\ fromRedis' = RemoveAt(fromRedis, i)
    /\ UNCHANGED <<owner, open, pc, linkVars, topic, memberVars, frames, changes, unheard>>

\* revoke: the sockets of the user that hold the channel now.
Revoke(u) == \E i \in Instructions(u) :
    /\ Detach({s \in Sockets : open[s] /\ owner[s] = u /\ subscribed[s]})
    /\ fromRedis' = RemoveAt(fromRedis, i)
    /\ UNCHANGED <<owner, open, pc, linkVars, topic, memberVars, frames, changes, unheard>>

Handle(s) == Reject(s) \/ AttachExisting(s) \/ AttachFirst(s) \/ AttachDone(s) \/ AttachRefused(s)

Next == \/ \E s \in Sockets : SubscribeFrame(s) \/ UnsubscribeFrame(s) \/ Close(s) \/ Handle(s)
        \/ \E u \in Users : \/ EndMembership(u) \/ Rejoin(u)
                           \/ PublishRevocation(u) \/ ParkRevocation(u) \/ Revoke(u)
        \/ RedisServe \/ Left \/ Disconnect \/ Reconnect \/ Flush

Spec == Init /\ [][Next]_vars

\* The event loop runs every callback, Redis answers what it is sent, ioredis goes on dialling
\* or gives its commands up, the outbox is drained.
FairSpec == /\ Spec
            /\ WF_vars(RedisServe) /\ WF_vars(Left) /\ WF_vars(Reconnect \/ Flush)
            /\ \A s \in Sockets : WF_vars(Handle(s))
            /\ \A u \in Users : WF_vars(PublishRevocation(u)) /\ WF_vars(Revoke(u))
-------------------------------------------------------------------------------
TypeOK ==
    /\ owner \in [Sockets -> Users]
    /\ open \in [Sockets -> BOOLEAN] /\ subscribed \in [Sockets -> BOOLEAN]
    /\ sockets \subseteq Sockets
    /\ pc \in [Sockets -> {"idle", "allowed", "denied", "attaching"}]
    /\ toRedis \in Seq([cmd: {"subscribe"}, for: Sockets] \union {Unsubscribe})
    /\ topic \in BOOLEAN
    /\ fromRedis \in Seq([t: {"accepted", "refused"}, for: Sockets] \union {Unsubscribed} \union [t: {"revoke"}, for: Users])
    /\ connected \in BOOLEAN /\ hearing \in BOOLEAN /\ joined \in BOOLEAN
    /\ member \subseteq Users /\ revoking \subseteq Users
    /\ frames \in 0..MaxFrames /\ changes \in 0..MaxChanges
    /\ stale \subseteq Sockets /\ unheard \subseteq Users /\ crossed \in BOOLEAN

\* The socket's own record and the channel's entry never disagree about an open
\* socket: what close and revoke go by is what the fan-out goes by.
BookkeepingAgrees == \A s \in Sockets : open[s] => (subscribed[s] <=> s \in sockets)

\* The channel's entry is what tells that Redis sends its messages (channel-subscriptions.ts:
\* "an entry exists only for a channel this process has an accepted Redis SUBSCRIBE for"): while
\* it is there, no refusal, break or socket that leaves has taken the topic away.  Unless the last
\* one out left behind the SUBSCRIBE of a frame in progress, which the code does not see.
FanOutIsFed == connected /\ sockets # {} /\ ~crossed => topic

Quiet == toRedis = <<>> /\ fromRedis = <<>> /\ \A s \in Sockets : pc[s] = "idle"

\* A socket that held the channel when its user's membership ended loses it, unless it closes or
\* the user is a member again first, or nobody heard the last revocation published: the gateway
\* had no connection just then, had never got the revocation topic, or the event was parked.  And
\* the frame a socket was handling ends, so that the frames behind it are handled.
RevocationReaches ==
    \A s \in Sockets : /\ s \in stale /\ open[s] ~> s \notin stale \/ ~open[s] \/ owner[s] \in unheard
                       /\ pc[s] # "idle" ~> pc[s] = "idle"

\* "Removing someone from a club ... must therefore force-unsubscribe their
\* sockets": a removed member does not keep reading (server.ts).
RemovedReadsNothing ==
    Quiet /\ revoking = {} =>
        \A s \in Sockets : open[s] /\ s \in sockets => owner[s] \in member
===============================================================================
