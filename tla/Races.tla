------------------------------- MODULE Races -------------------------------
(***************************************************************************)
(* One race of one club: its roster, the requests to join it, its car      *)
(* groups with their Incharge, and the cards that put a request in front   *)
(* of the race's admins.                                                   *)
(*                                                                         *)
(* Every request is judged on an access context read when it arrives and   *)
(* commits later.  Transactions run at READ COMMITTED: what a statement    *)
(* writes is seen by others at commit, and until then the rows it deleted  *)
(* or selected FOR UPDATE make other writers wait.  Only rows of           *)
(* car_group_members are fought over, so only they have a lock here; an    *)
(* update of car_groups is merged with the commit that follows it.         *)
(*                                                                         *)
(* Roles change here only by leaving the club and by deleting the account  *)
(* (see Membership for the rest).                                          *)
(***************************************************************************)
EXTENDS Integers, Sequences, FiniteSets

CONSTANTS
  Users,
  Role,           \* Role[u]: u's role in the club at the start
  Procs,          \* requests served at a time
  NoProc,         \* holds no lock
  NoOne,          \* the Incharge of a group without one
  MaxGroups,      \* car groups ever created
  MaxRequests,    \* requests accepted
  MaxFaults       \* deaths of a request or of the worker

NoGroup == 0

ASSUME RacesAssumption ==
  /\ Role \in [Users -> {"none", "member", "admin", "owner"}]
  /\ NoProc \notin Procs
  /\ NoOne \notin Users
  /\ {MaxGroups, MaxRequests, MaxFaults} \subseteq Nat

VARIABLES
  role,           \* club_memberships
  deleted,        \* users.anonymized_at: whose account is gone, though its row stays
  race,           \* the race exists
  roster,         \* race_memberships
  asks,           \* race_join_requests, in insertion order; "gone" is a deleted row
  made, groups,   \* car_groups: how many ever, and which are left
  seat, incharge, \* car_group_members, one row per user at most; incharge_user_id
  lock,           \* lock[u]: the transaction that holds u's row of car_group_members
  events,         \* the club's partition of the outbox
  handled,        \* how many of them the worker has finished
  cards,          \* race_join_request notifications
  work,           \* what each process is doing
  requests, faults

cars == <<made, groups, seat, incharge, lock>>
queue == <<events, handled, cards>>
vars == <<role, deleted, race, roster, asks, cars, queue, work, requests, faults>>

Idle == [op |-> "none"]

isClubAdmin(u) == role[u] \in {"admin", "owner"}
isRaceMember(u) == u \in roster
isRaceManager(u) == isRaceMember(u) /\ isClubAdmin(u)

Pending(r) == asks[r].status = "pending"
PendingOf(U) == {r \in DOMAIN asks : Pending(r) /\ asks[r].user \in U}
With(R, status) ==
  [r \in DOMAIN asks |-> IF r \in R THEN [asks[r] EXCEPT !.status = status] ELSE asks[r]]

\* An outbox row: whom it names, and the requests it announces or answers.
Event(type, U, R) == [type |-> type, users |-> U, asks |-> R]

\* Any race as it may stand: someone manages it, whoever rides is on the roster, and each
\* Incharge rides in their group.
Init ==
  /\ role = Role /\ deleted = {}
  /\ race = TRUE
  /\ roster \in {R \in SUBSET {u \in Users : Role[u] # "none"} : \E u \in R : Role[u] \in {"admin", "owner"}}
  /\ asks = <<>>
  /\ made \in 0..MaxGroups /\ groups = 1..made
  /\ seat \in {f \in [Users -> 0..MaxGroups] : \A u \in Users : f[u] # NoGroup => f[u] \in groups /\ u \in roster}
  /\ incharge \in {f \in [1..MaxGroups -> Users \cup {NoOne}] : \A g \in 1..MaxGroups : f[g] # NoOne => seat[f[g]] = g}
  /\ lock = [u \in Users |-> NoProc]
  /\ events = <<>> /\ handled = 0 /\ cards = {}
  /\ work = [p \in Procs |-> Idle]
  /\ requests = 0 /\ faults = 0

(***************************************************************************)
(* A request is accepted: the early checks of each operation.              *)
(***************************************************************************)

Accept(p, w) ==
  /\ requests < MaxRequests
  /\ work[p] = Idle
  /\ work' = [work EXCEPT ![p] = w]
  /\ requests' = requests + 1
  /\ UNCHANGED <<role, deleted, race, roster, asks, cars, queue, faults>>

requestRaceAccess(p, u) ==
  /\ race /\ role[u] # "none" /\ ~isRaceMember(u)
  /\ Accept(p, [op |-> "ask", user |-> u])

\* A request that is no longer pending stays so, and its decision changes nothing.
decideRaceRequest(p, by, r, approve) ==
  /\ race /\ Pending(r) /\ isRaceManager(by)
  /\ Accept(p, [op |-> "decide", ask |-> r, approve |-> approve])

addRaceMembers(p, by, U) ==
  /\ race /\ isRaceManager(by)
  /\ by \notin U /\ U # {}
  /\ Accept(p, [op |-> "add", users |-> U])

joinRaceDirectly(p, u) ==
  /\ race /\ role[u] = "owner" /\ ~isRaceMember(u)
  /\ Accept(p, [op |-> "join", users |-> {u}])

\* Departing is one's own business, or a manager's.
removeRaceMember(p, by, u) ==
  /\ race
  /\ IF by = u THEN isRaceMember(u) ELSE isRaceManager(by)
  /\ Accept(p, [op |-> "remove", user |-> u, step |-> "find", group |-> NoGroup])

leaveCarGroup(p, by, u) ==
  /\ race
  /\ IF by = u THEN isRaceMember(u) ELSE isRaceManager(by)
  /\ Accept(p, [op |-> "alight", user |-> u, step |-> "find", group |-> NoGroup])

\* Leaving the club, or being removed or banned from it: never the Owner.
departClub(p, u) ==
  /\ role[u] \in {"member", "admin"}
  /\ Accept(p, [op |-> "depart", user |-> u, step |-> "vacate"])

\* Not while they own a club.
deleteOwnAccount(p, u) ==
  /\ u \notin deleted /\ role[u] # "owner"
  /\ Accept(p, [op |-> "delete", user |-> u, step |-> "vacate"])

\* The members to tell are read here, before the transaction.
deleteRace(p, by) ==
  /\ race /\ isRaceManager(by)
  /\ Accept(p, [op |-> "erase", users |-> roster])

createCarGroup(p, by) ==
  /\ race /\ isRaceManager(by)
  /\ Accept(p, [op |-> "create"])

deleteCarGroup(p, by, g) ==
  /\ g \in groups /\ isRaceManager(by)
  /\ Accept(p, [op |-> "disband", group |-> g])

assignToCarGroup(p, by, g, u) ==
  /\ g \in groups /\ isRaceManager(by) /\ isRaceMember(u)
  /\ Accept(p, [op |-> "assign", group |-> g, user |-> u])

setCarGroupIncharge(p, by, g, u) ==
  /\ g \in groups /\ isRaceManager(by)
  /\ Accept(p, [op |-> "name", group |-> g, user |-> u, step |-> "select"])

clearCarGroupIncharge(p, by, g) ==
  /\ g \in groups /\ isRaceManager(by)
  /\ Accept(p, [op |-> "clear", group |-> g])

(***************************************************************************)
(* The roster and its requests: each commits at once, but for the request  *)
(* itself, whose row and event are two statements outside a transaction.   *)
(***************************************************************************)

Finish(p) == work' = [work EXCEPT ![p] = Idle]
Reject(p) == Finish(p) /\ UNCHANGED <<roster, asks, events>>

\* One pending request per user, and the race must be there to refer to.
InsertRequest(p) ==
  /\ work[p].op = "ask"
  /\ LET u == work[p].user
         refused == ~race \/ PendingOf({u}) # {}
     IN \/ refused /\ Reject(p)
        \/ /\ ~refused
           /\ asks' = Append(asks, [user |-> u, status |-> "pending"])
           /\ work' = [work EXCEPT ![p] = [op |-> "announce", user |-> u, ask |-> Len(asks) + 1]]
           /\ UNCHANGED <<roster, events>>
  /\ UNCHANGED <<role, deleted, race, cars, handled, cards, requests, faults>>

AnnounceRequest(p) ==
  /\ work[p].op = "announce"
  /\ events' = Append(events, Event("join_requested", {work[p].user}, {work[p].ask}))
  /\ Finish(p)
  /\ UNCHANGED <<role, deleted, race, roster, asks, cars, handled, cards, requests, faults>>

\* Conditional on the request being pending still.
CommitDecision(p) ==
  /\ work[p].op = "decide"
  /\ LET r == work[p].ask
         approved == work[p].approve
     IN \/ ~Pending(r) /\ Reject(p)
        \/ /\ Pending(r)
           /\ asks' = With({r}, IF approved THEN "approved" ELSE "denied")
           /\ roster' = IF approved THEN roster \cup {asks[r].user} ELSE roster
           /\ events' = Append(events, Event("membership_decided", {asks[r].user}, {r}))
           /\ Finish(p)
  /\ UNCHANGED <<role, deleted, race, cars, handled, cards, requests, faults>>

\* Only the newcomers are announced, and only their requests answered.
CommitAddition(p) ==
  /\ work[p].op \in {"add", "join"}
  /\ LET new == work[p].users \ roster
     IN \/ (~race \/ new = {}) /\ Reject(p)
        \/ /\ race /\ new # {}
           /\ roster' = roster \cup new
           /\ asks' = With(PendingOf(new), "approved")
           /\ events' = Append(events, Event(IF work[p].op = "add" THEN "members_added" ELSE "membership_decided", new, PendingOf(new)))
           /\ Finish(p)
  /\ UNCHANGED <<role, deleted, race, cars, handled, cards, requests, faults>>

(***************************************************************************)
(* Departures.                                                             *)
(***************************************************************************)

\* departCarGroup reads which group the member is in, holding nothing ...
FindSeat(p) ==
  /\ work[p].op \in {"remove", "alight"} /\ work[p].step = "find"
  /\ LET found == seat[work[p].user]
     IN IF found = NoGroup /\ work[p].op = "alight"
        THEN Finish(p)
        ELSE work' = [work EXCEPT ![p].step = IF found = NoGroup THEN "commit" ELSE "vacate", ![p].group = found]
  /\ UNCHANGED <<role, deleted, race, roster, asks, cars, queue, requests, faults>>

Free(u) == lock[u] = NoProc

\* ... and deletes that row, unless it is gone.  cascadeOut and the deletion of the account
\* delete whatever row there is.
Vacate(p) ==
  /\ work[p].op \in {"remove", "alight", "depart", "delete"} /\ work[p].step = "vacate"
  /\ LET u == work[p].user
         present == seat[u] # NoGroup /\ (work[p].op \in {"depart", "delete"} \/ seat[u] = work[p].group)
     IN /\ present => Free(u)
        /\ lock' = IF present THEN [lock EXCEPT ![u] = p] ELSE lock
  /\ work' = [work EXCEPT ![p].step = "commit"]
  /\ UNCHANGED <<role, deleted, race, roster, asks, made, groups, seat, incharge, queue, requests, faults>>

Released(p) == [u \in Users |-> IF lock[u] = p THEN NoProc ELSE lock[u]]
Vacated(p) == [u \in Users |-> IF lock[u] = p THEN NoGroup ELSE seat[u]]

\* The clearing statement decides whether the departing member was the Incharge.
Vacates(p, g) == g = work[p].group /\ incharge[g] = work[p].user

\* departCarGroup, then what removeRaceMember adds to it.
CommitDeparture(p) ==
  /\ work[p].op \in {"remove", "alight"} /\ work[p].step = "commit"
  /\ LET u == work[p].user
         removed == work[p].op = "remove"
         left == {g \in groups : Vacates(p, g)}
     IN /\ seat' = Vacated(p)
        /\ incharge' = [g \in DOMAIN incharge |-> IF g \in left THEN NoOne ELSE incharge[g]]
        /\ roster' = IF removed THEN roster \ {u} ELSE roster
        /\ asks' = IF removed THEN With(PendingOf({u}), "gone") ELSE asks
        /\ events' = events \o (IF left # {} THEN <<Event("incharge_left", {u}, {})>> ELSE <<>>)
                            \o (IF removed THEN <<Event("member_departed", {u}, {})>> ELSE <<>>)
  /\ lock' = Released(p)
  /\ Finish(p)
  /\ UNCHANGED <<role, deleted, race, made, groups, handled, cards, requests, faults>>

\* cascadeOut: every seat, every Incharge, the roster, what is pending, the membership.
CommitClubDeparture(p) ==
  /\ work[p].op = "depart" /\ work[p].step = "commit"
  /\ LET u == work[p].user
     IN /\ seat' = Vacated(p)
        /\ incharge' = [g \in DOMAIN incharge |-> IF incharge[g] = u THEN NoOne ELSE incharge[g]]
        /\ roster' = roster \ {u}
        /\ asks' = With(PendingOf({u}), "gone")
        /\ role' = [role EXCEPT ![u] = "none"]
        /\ events' = Append(events, Event("club_departed", {u}, {}))
  /\ lock' = Released(p)
  /\ Finish(p)
  /\ UNCHANGED <<deleted, race, made, groups, handled, cards, requests, faults>>

\* deleteOwnAccount: the memberships and the seat, and nothing else of this club.  What it
\* announces is in the account's own partition.
CommitAccountDeletion(p) ==
  /\ work[p].op = "delete" /\ work[p].step = "commit"
  /\ LET u == work[p].user
     IN /\ seat' = Vacated(p)
        /\ roster' = roster \ {u}
        /\ role' = [role EXCEPT ![u] = "none"]
        /\ deleted' = deleted \cup {u}
  /\ lock' = Released(p)
  /\ Finish(p)
  /\ UNCHANGED <<race, asks, made, groups, incharge, events, handled, cards, requests, faults>>

\* The race goes with all that refers to it; the delete waits for locked rows.
CommitDeletion(p) ==
  /\ work[p].op = "erase"
  /\ \A u \in Users : Free(u)
  /\ race' = FALSE
  /\ roster' = {}
  /\ asks' = With(DOMAIN asks, "gone")
  /\ groups' = {}
  /\ seat' = [u \in Users |-> NoGroup]
  /\ incharge' = [g \in DOMAIN incharge |-> NoOne]
  /\ events' = Append(events, Event("deleted", work[p].users, {}))
  /\ Finish(p)
  /\ UNCHANGED <<role, deleted, made, lock, handled, cards, requests, faults>>

(***************************************************************************)
(* Car groups.                                                             *)
(***************************************************************************)

CommitGroup(p) ==
  /\ work[p].op = "create"
  /\ made < MaxGroups /\ race
  /\ made' = made + 1
  /\ groups' = groups \cup {made + 1}
  /\ Finish(p)
  /\ UNCHANGED <<role, deleted, race, roster, asks, seat, incharge, lock, queue, requests, faults>>

\* Its members' rows cascade.
CommitGroupDeletion(p) ==
  /\ work[p].op = "disband"
  /\ LET g == work[p].group
     IN /\ \A u \in Users : seat[u] = g => Free(u)
        /\ groups' = groups \ {g}
        /\ seat' = [u \in Users |-> IF seat[u] = g THEN NoGroup ELSE seat[u]]
        /\ incharge' = [incharge EXCEPT ![g] = NoOne]
  /\ Finish(p)
  /\ UNCHANGED <<role, deleted, race, roster, asks, made, lock, queue, requests, faults>>

\* One seat per user and race; somebody seated elsewhere is refused, and one whose
\* departure is not yet committed makes the insert wait.
CommitSeat(p) ==
  /\ work[p].op = "assign"
  /\ LET u == work[p].user
         g == work[p].group
     IN /\ Free(u)
        /\ seat' = IF g \in groups /\ seat[u] = NoGroup THEN [seat EXCEPT ![u] = g] ELSE seat
  /\ Finish(p)
  /\ UNCHANGED <<role, deleted, race, roster, asks, made, groups, incharge, lock, queue, requests, faults>>

SelectUnlocked(p) ==
  /\ work[p].op = "name" /\ work[p].step = "select"
  /\ IF seat[work[p].user] = work[p].group
     THEN work' = [work EXCEPT ![p].step = "commit"]
     ELSE Finish(p)
  /\ UNCHANGED <<role, deleted, race, roster, asks, cars, queue, requests, faults>>

\* SELECT ... FOR UPDATE of the row whose existence is the question ...
SelectForUpdate(p) ==
  /\ work[p].op = "name" /\ work[p].step = "select"
  /\ LET u == work[p].user
     IN IF seat[u] = work[p].group
        THEN /\ Free(u)
             /\ lock' = [lock EXCEPT ![u] = p]
             /\ work' = [work EXCEPT ![p].step = "commit"]
        ELSE Finish(p) /\ UNCHANGED lock
  /\ UNCHANGED <<role, deleted, race, roster, asks, made, groups, seat, incharge, queue, requests, faults>>

\* ... then the update.
CommitIncharge(p) ==
  /\ work[p].op = "name" /\ work[p].step = "commit"
  /\ incharge' = [incharge EXCEPT ![work[p].group] = work[p].user]
  /\ lock' = Released(p)
  /\ Finish(p)
  /\ UNCHANGED <<role, deleted, race, roster, asks, made, groups, seat, queue, requests, faults>>

CommitClearing(p) ==
  /\ work[p].op = "clear"
  /\ incharge' = [incharge EXCEPT ![work[p].group] = NoOne]
  /\ Finish(p)
  /\ UNCHANGED <<role, deleted, race, roster, asks, made, groups, seat, lock, queue, requests, faults>>

\* A process dies between two statements, or Postgres breaks a deadlock by failing its
\* transaction.  One that has neither written nor locked might as well not have begun.
Abort(p) ==
  /\ work[p].op = "announce" \/ \E u \in Users : lock[u] = p
  /\ faults < MaxFaults
  /\ faults' = faults + 1
  /\ lock' = Released(p)
  /\ Finish(p)
  /\ UNCHANGED <<role, deleted, race, roster, asks, made, groups, seat, incharge, queue, requests>>

(***************************************************************************)
(* The worker, one event of the club at a time.                            *)
(***************************************************************************)

\* raceRosterAdmins, but for the one who asked.
Audience(e) == {u \in roster : isClubAdmin(u)} \ e.users

AnsweringTheAsked == {"membership_decided"}
\* Which events answer the cards of those they name.  A race that is gone has no members
\* to add, and the handler returns early.
Answering == {"membership_decided"} \cup IF race THEN {"members_added"} ELSE {}

\* resolvePendingRequests: whatever of theirs is undecided.
Resolved(U) == {[c EXCEPT !.decided = @ \/ c.user \in U] : c \in cards}

\* Cards are unique by event and recipient; a handled event leaves the earlier ones as
\* they are but for those it answers.
CardsAfter(i) ==
  LET e == events[i]
  IN CASE e.type = "join_requested" ->
            cards \cup {[event |-> i, to |-> u, user |-> v, decided |-> FALSE] :
                          u \in {w \in Audience(e) : \A c \in cards : c.event # i \/ c.to # w}, v \in e.users}
       [] e.type \in Answering -> Resolved(e.users)
       [] OTHER -> cards

Handle ==
  /\ handled < Len(events)
  /\ cards' = CardsAfter(handled + 1)
  /\ handled' = handled + 1
  /\ UNCHANGED <<role, deleted, race, roster, asks, cars, events, work, requests, faults>>

\* The worker dies, or the handler throws, after its writes: the event is handled again.
HandleAndDie ==
  /\ handled < Len(events)
  /\ faults < MaxFaults
  /\ faults' = faults + 1
  /\ cards' = CardsAfter(handled + 1)
  /\ UNCHANGED <<role, deleted, race, roster, asks, cars, events, handled, work, requests>>

(***************************************************************************)
(* Specification.                                                          *)
(***************************************************************************)

Arrival(p) ==
  \/ \E by \in Users : deleteRace(p, by) \/ createCarGroup(p, by)
  \/ \E u \in Users : requestRaceAccess(p, u) \/ joinRaceDirectly(p, u) \/ departClub(p, u) \/ deleteOwnAccount(p, u)
  \/ \E by \in Users, U \in SUBSET Users : addRaceMembers(p, by, U)
  \/ \E by \in Users, r \in DOMAIN asks, approve \in BOOLEAN : decideRaceRequest(p, by, r, approve)
  \/ \E by, u \in Users : removeRaceMember(p, by, u) \/ leaveCarGroup(p, by, u)
  \/ \E by \in Users, g \in groups : deleteCarGroup(p, by, g) \/ clearCarGroupIncharge(p, by, g)
  \/ \E by, u \in Users, g \in groups : assignToCarGroup(p, by, g, u) \/ setCarGroupIncharge(p, by, g, u)

Step(p) ==
  \/ InsertRequest(p) \/ AnnounceRequest(p) \/ CommitDecision(p) \/ CommitAddition(p)
  \/ FindSeat(p) \/ Vacate(p) \/ CommitDeparture(p) \/ CommitClubDeparture(p)
  \/ CommitAccountDeletion(p) \/ CommitDeletion(p)
  \/ CommitGroup(p) \/ CommitGroupDeletion(p) \/ CommitSeat(p)
  \/ SelectForUpdate(p) \/ CommitIncharge(p) \/ CommitClearing(p)
  \/ Abort(p)

Next == (\E p \in Procs : Arrival(p) \/ Step(p)) \/ Handle \/ HandleAndDie

Spec == Init /\ [][Next]_vars

(***************************************************************************)
(* Properties.                                                             *)
(***************************************************************************)

\* The values each variable may take.
TypeOK ==
  /\ role \in [Users -> {"none", "member", "admin", "owner"}] /\ deleted \subseteq Users
  /\ race \in BOOLEAN
  /\ roster \subseteq Users
  /\ asks \in Seq([user : Users, status : {"pending", "approved", "denied", "gone"}])
  /\ made \in 0..MaxGroups /\ groups \subseteq 1..made
  /\ seat \in [Users -> 0..MaxGroups]
  /\ incharge \in [1..MaxGroups -> Users \cup {NoOne}]
  /\ lock \in [Users -> Procs \cup {NoProc}]
  /\ handled \in 0..Len(events)
  /\ requests \in 0..MaxRequests /\ faults \in 0..MaxFaults

\* The Incharge of a car group rides in it: two tables that no constraint ties together,
\* whatever departures, moves, deletions and appointments run at the same time (ADR-0042).
\* Only an account that was deleted keeps the office without the seat.
InchargeIsAboard ==
  \A g \in 1..MaxGroups : incharge[g] # NoOne /\ incharge[g] \notin deleted => seat[incharge[g]] = g

\* schema.ts:1183 says that the office is "cleared automatically when the holder leaves the
\* group".  deleteOwnAccount takes the seat and leaves the office.
EveryInchargeIsAboard == \A g \in 1..MaxGroups : incharge[g] # NoOne => seat[incharge[g]] = g

Drained == handled = Len(events)
\* The answer may be queued before the announcement: the request's row and event are two
\* statements, and a manager can decide in between.
Overtaken(i) == \E j \in 1..(i - 1) : events[i].asks \cap events[j].asks # {}

\* When the queue is empty, no admin is left with a card asking them to decide what was
\* decided, by whichever of the three routes onto the roster or by a refusal, unless the
\* answer overtook the question.
CardsSettle ==
  Drained /\ race => \A c \in cards :
    (\A r \in events[c.event].asks : asks[r].status \in {"approved", "denied"}) /\ ~Overtaken(c.event) => c.decided

\* SPEC/PRD/02-roles-and-permissions.md says that race membership is always a subset of club
\* membership.  The code decides on what it read before its transaction.
RosterWithinClub == \A u \in roster : role[u] # "none"
=============================================================================
