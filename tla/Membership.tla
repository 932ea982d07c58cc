------------------------------ MODULE Membership ------------------------------
(***************************************************************************)
(* One club's roster: who is in it, in which role, who is in its Eboard     *)
(* space, who is barred and who has asked to join.  The commands are those  *)
(* of domain/membership.ts, domain/eboard.ts and account deletion.          *)
(*                                                                          *)
(* A command decides from reads made before its transaction: the access     *)
(* context loaded when the request arrived, then statements of its own.     *)
(* Each read that matters later, each autocommitted statement and each      *)
(* transaction is a step, so other commands come in between.  A transaction *)
(* that locks one membership row is one step that waits for the row; a      *)
(* transfer takes two row locks one after the other and holds them.         *)
(***************************************************************************)
EXTENDS Integers, FiniteSets

CONSTANTS Users,       \* user ids, ordered as transferOwnership sorts them
          Procs,       \* requests in progress at once
          NoProc,      \* the holder of a free row
          Roster,      \* the roles the club starts from
          MaxAsks,     \* bound: requests a user may file, per kind
          MaxRequests  \* bound: commands accepted

Roles == {"owner", "admin", "member", "none"}
AdminTier == {"owner", "admin"}

ASSUME MembershipAssumption ==
    /\ Users \subseteq Nat /\ IsFiniteSet(Users) /\ NoProc \notin Procs
    /\ Roster \in [Users -> Roles]
    /\ \E u \in Users : Roster[u] = "owner" /\ \A v \in Users \ {u} : Roster[v] # "owner"
    /\ MaxAsks \in Nat /\ MaxRequests \in Nat

VARIABLES club, policy,  \* the clubs row: exists, join_policy
          role,          \* club_memberships; "none" is no row
          eboard,        \* eboard_memberships
          banned,        \* club_bans
          asks,          \* club_join_requests, by id
          eboardAsks,    \* eboard_join_requests, by id
          decisions,     \* club.join_decided events written, by request
          deleted,       \* users with anonymized_at set
          lock,          \* who holds each membership row FOR UPDATE
          work,          \* what each process is doing
          handled

tables == <<club, policy, role, eboard, banned, asks, eboardAsks, decisions, deleted>>
vars == <<tables, lock, work, handled>>

Ids == Users \X (1..MaxAsks)
Statuses == {"unfiled", "pending", "approved", "denied", "cleared"}
Steps == {"check", "admit", "file", "decide", "policy", "roleRead", "roleWrite", "lockFirst",
          "lockSecond", "transfer", "removeRead", "banRead", "bar", "unask", "lift", "cascade",
          "drop", "erase", "eboardFile", "eboardDecide", "eligible", "eboardAdd", "eboardRemove"}
Args == {"", "admit", "file", "approve", "deny", "open", "request", "owner", "admin", "member"}

Idle == [at |-> "idle"]
\* who: the user acted upon.  by: the actor, kept only where a later step reads it.
\* seen, mine: roles of who and by as read.
Requests == [at : Steps, who : Users, by : Users, arg : Args, ask : 0..MaxAsks,
             seen : Roles, mine : Roles]
FullRequest(at, u, a, arg, k, seen) == [at |-> at, who |-> u, by |-> a, arg |-> arg, ask |-> k,
                                        seen |-> seen, mine |-> "none"]
Request(at, u, arg) == FullRequest(at, u, u, arg, 0, "none")

TypeOK == /\ club \in BOOLEAN /\ policy \in {"open", "request"}
          /\ role \in [Users -> Roles]
          /\ eboard \subseteq Users /\ banned \subseteq Users /\ deleted \subseteq Users
          /\ asks \in [Ids -> Statuses] /\ eboardAsks \in [Ids -> Statuses]
          /\ decisions \in [Ids -> Nat]
          /\ lock \in [Users -> Procs \cup {NoProc}]
          /\ work \in [Procs -> Requests \cup {Idle}]
          /\ handled \in Nat

\* The club createClub made, after its first members joined and were promoted.
Init == /\ club = TRUE /\ policy \in {"open", "request"}
        /\ role = Roster
        /\ eboard = {u \in Users : Roster[u] \in AdminTier}
        /\ banned = {} /\ deleted = {}
        /\ asks = [i \in Ids |-> "unfiled"] /\ eboardAsks = [i \in Ids |-> "unfiled"]
        /\ decisions = [i \in Ids |-> 0]
        /\ lock = [u \in Users |-> NoProc]
        /\ work = [p \in Procs |-> Idle]
        /\ handled = 0
-------------------------------------------------------------------------------
IsAdmin(u) == role[u] \in AdminTier
Pending(s, u) == \E k \in 1..MaxAsks : s[<<u, k>>] = "pending"

\* INSERT under the one-pending index: a second pending row is refused as a duplicate.
FileFor(s, u) ==
    LET free == {k \in 1..MaxAsks : s[<<u, k>>] = "unfiled" /\ ~Pending(s, u)}
    IN  [i \in Ids |-> IF i[1] = u /\ i[2] \in free /\ \A k \in free : i[2] <= k
                       THEN "pending" ELSE s[i]]

\* DELETE of the user's pending row.
ClearFor(s, u) == [i \in Ids |-> IF i[1] = u /\ s[i] = "pending" THEN "cleared" ELSE s[i]]

\* INSERT ... ON CONFLICT DO NOTHING of plain members.
WithMembers(us) == [u \in Users |-> IF u \in us /\ role[u] = "none" THEN "member" ELSE role[u]]

\* A request is authenticated and its access context loaded.
Accept(p, actor, r) == /\ work[p] = Idle /\ handled < MaxRequests
                       /\ club /\ actor \notin deleted
                       /\ work' = [work EXCEPT ![p] = r]
                       /\ handled' = handled + 1
                       /\ UNCHANGED <<tables, lock>>

At(p, at) == club /\ work[p].at = at
Goto(p, at) == work' = [work EXCEPT ![p].at = at]
End(p) == work' = [work EXCEPT ![p] = Idle]
Free(u) == lock[u] = NoProc
-------------------------------------------------------------------------------
(* Ways in: search, the two invite links, an admin adding somebody. *)
WayIn(bypass) == IF bypass \/ policy = "open" THEN "admit" ELSE "file"

JoinClub(p, u) == Accept(p, u, Request("check", u, WayIn(FALSE)))

RedeemInvite(p, u, adminLink) == Accept(p, u, Request("check", u, WayIn(adminLink)))

AddMember(p, a, u) == IsAdmin(a) /\ Accept(p, a, Request("check", u, "admit"))

\* Mutant: the ban is asked of those admitted only, not of those who file a request.
CheckWayInAdmitted(p) ==
    LET r == work[p] IN
    /\ At(p, "check")
    /\ IF role[r.who] = "none" /\ (r.who \notin banned \/ r.arg = "file")
       THEN work' = [work EXCEPT ![p] = Request(r.arg, r.who, "")]
       ELSE End(p)
    /\ UNCHANGED <<tables, lock, handled>>

\* roleOf, then isBannedFrom; what they refuse changes nothing.
CheckWayIn(p) ==
    LET r == work[p] IN
    /\ At(p, "check")
    /\ IF role[r.who] = "none" /\ r.who \notin banned
       THEN work' = [work EXCEPT ![p] = Request(r.arg, r.who, "")]
       ELSE End(p)
    /\ UNCHANGED <<tables, lock, handled>>

Admit(p) == /\ At(p, "admit")
            /\ role' = WithMembers({work[p].who})
            /\ End(p)
            /\ UNCHANGED <<club, policy, eboard, banned, asks, eboardAsks, decisions, deleted,
                           lock, handled>>

FileJoinRequest(p) ==
    /\ At(p, "file")
    /\ asks' = FileFor(asks, work[p].who)
    /\ End(p)
    /\ UNCHANGED <<club, policy, role, eboard, banned, eboardAsks, decisions, deleted, lock,
                   handled>>

(* Deciding requests *)
DecideJoinRequest(p, a, i, verdict) ==
    /\ asks[i] \in {"pending", "approved", "denied"} /\ IsAdmin(a)
    /\ Accept(p, a, FullRequest("decide", i[1], i[1], verdict, i[2], "none"))

\* Mutant: the UPDATE does not ask for a pending row.
DecideAnyway(p) ==
    LET r == work[p]
        i == <<r.who, r.ask>>
    IN  /\ At(p, "decide")
        /\ asks' = [asks EXCEPT ![i] = IF r.arg = "approve" THEN "approved" ELSE "denied"]
        /\ role' = IF r.arg = "approve" THEN WithMembers({r.who}) ELSE role
        /\ decisions' = [decisions EXCEPT ![i] = @ + 1]
        /\ End(p)
        /\ UNCHANGED <<club, policy, eboard, banned, eboardAsks, deleted, lock, handled>>

\* The UPDATE ... WHERE status = 'pending' and what follows it in its transaction.
Decide(p) ==
    LET r == work[p]
        i == <<r.who, r.ask>>
    IN  /\ At(p, "decide")
        /\ IF asks[i] = "pending"
           THEN /\ asks' = [asks EXCEPT ![i] = IF r.arg = "approve" THEN "approved" ELSE "denied"]
                /\ role' = IF r.arg = "approve" THEN WithMembers({r.who}) ELSE role
                /\ decisions' = [decisions EXCEPT ![i] = @ + 1]
           ELSE UNCHANGED <<asks, role, decisions>>
        /\ End(p)
        /\ UNCHANGED <<club, policy, eboard, banned, eboardAsks, deleted, lock, handled>>

SetJoinPolicy(p, a, to) == IsAdmin(a) /\ Accept(p, a, Request("policy", a, to))

\* Opening the club approves everybody who waits, in the same transaction.
WritePolicy(p) ==
    LET waiting == {i \in Ids : asks[i] = "pending"} IN
    /\ At(p, "policy")
    /\ policy' = work[p].arg
    /\ IF policy' = "open"
       THEN /\ asks' = [i \in Ids |-> IF i \in waiting THEN "approved" ELSE asks[i]]
            /\ role' = WithMembers({i[1] : i \in waiting})
            /\ decisions' = [i \in Ids |-> decisions[i] + (IF i \in waiting THEN 1 ELSE 0)]
       ELSE UNCHANGED <<asks, role, decisions>>
    /\ End(p)
    /\ UNCHANGED <<club, eboard, banned, eboardAsks, deleted, lock, handled>>
-------------------------------------------------------------------------------
(* Roles *)
ChangeRole(p, a, u, newRole) == IsAdmin(a) /\ Accept(p, a, Request("roleRead", u, newRole))

ReadRole(p) ==
    LET r == work[p] IN
    /\ At(p, "roleRead")
    /\ IF role[r.who] \in {"none", "owner", r.arg}
       THEN End(p)
       ELSE work' = [work EXCEPT ![p].at = "roleWrite", ![p].seen = role[r.who]]
    /\ UNCHANGED <<tables, lock, handled>>

\* Mutant: the UPDATE does not carry the role it was authorized against.
WriteRoleBlind(p) ==
    LET r == work[p] IN
    /\ At(p, "roleWrite") /\ Free(r.who)
    /\ role' = [role EXCEPT ![r.who] = IF @ = "none" THEN "none" ELSE r.arg]
    /\ eboard' = IF r.arg = "admin" THEN eboard \cup {r.who} ELSE eboard \ {r.who}
    /\ End(p)
    /\ UNCHANGED <<club, policy, banned, asks, eboardAsks, decisions, deleted, lock, handled>>

\* The UPDATE carries the role it was authorized against; no row moved is a conflict.
WriteRole(p) ==
    LET r == work[p] IN
    /\ At(p, "roleWrite") /\ Free(r.who)
    /\ IF role[r.who] = r.seen
       THEN /\ role' = [role EXCEPT ![r.who] = r.arg]
            /\ eboard' = IF r.arg = "admin" THEN eboard \cup {r.who} ELSE eboard \ {r.who}
       ELSE UNCHANGED <<role, eboard>>
    /\ End(p)
    /\ UNCHANGED <<club, policy, banned, asks, eboardAsks, decisions, deleted, lock, handled>>

TransferOwnership(p, a, u) ==
    /\ role[a] = "owner" /\ u # a
    /\ Accept(p, a, FullRequest("lockFirst", u, a, "", 0, "none"))

\* Mutant: the actor's row first.
FirstActor(r) == r.by

\* SELECT ... WHERE user_id IN (by, who) ORDER BY user_id FOR UPDATE.
First(r) == IF r.by < r.who THEN r.by ELSE r.who
Second(r) == IF First(r) = r.by THEN r.who ELSE r.by

\* The statement's snapshot decides which rows it locks, here the first of them.
LockFirst(p) ==
    LET r == work[p] IN
    /\ At(p, "lockFirst") /\ Free(First(r))
    /\ lock' = IF role[First(r)] = "none" THEN lock ELSE [lock EXCEPT ![First(r)] = p]
    /\ work' = [work EXCEPT ![p].at = "lockSecond",
                            ![p].seen = role[r.who], ![p].mine = role[r.by]]
    /\ UNCHANGED <<tables, handled>>

\* A row of the snapshot is locked and read again; one it missed stays missed.
LockSecond(p) ==
    LET r == work[p]
        u == Second(r)
        inSnapshot == (IF u = r.who THEN r.seen ELSE r.mine) # "none"
    IN  /\ At(p, "lockSecond") /\ Free(u)
        /\ lock' = IF inSnapshot /\ role[u] # "none" THEN [lock EXCEPT ![u] = p] ELSE lock
        /\ work' = [work EXCEPT ![p].at = "transfer",
                       ![p].seen = IF u = r.who /\ inSnapshot THEN role[u] ELSE @,
                       ![p].mine = IF u = r.by /\ inSnapshot THEN role[u] ELSE @]
        /\ UNCHANGED <<tables, handled>>

Unlocked(p) == [u \in Users |-> IF lock[u] = p THEN NoProc ELSE lock[u]]

\* Target gone: not_found.  Actor no longer Owner: conflict.  Otherwise demote, promote.
Transfer(p) ==
    LET r == work[p] IN
    /\ At(p, "transfer")
    /\ IF r.seen # "none" /\ r.mine = "owner"
       THEN /\ role' = [role EXCEPT ![r.by] = "admin", ![r.who] = "owner"]
            /\ eboard' = eboard \cup {r.who}
       ELSE UNCHANGED <<role, eboard>>
    /\ lock' = Unlocked(p)
    /\ End(p)
    /\ UNCHANGED <<club, policy, banned, asks, eboardAsks, decisions, deleted, handled>>
-------------------------------------------------------------------------------
(* Leaving, removal, bans, deletion *)

\* canRemoveMember and canBanFromClub, with the actor's role of the access context.
MayEject(actorRole, targetRole) ==
    /\ targetRole # "owner"
    /\ targetRole = "admin" => actorRole = "owner"

RemoveMember(p, a, u) ==
    IsAdmin(a) /\ u # a /\ Accept(p, a, Request("removeRead", u, role[a]))

ReadForRemoval(p) ==
    LET r == work[p] IN
    /\ At(p, "removeRead")
    /\ IF role[r.who] # "none" /\ MayEject(r.arg, role[r.who])
       THEN work' = [work EXCEPT ![p] = Request("cascade", r.who, "")]
       ELSE End(p)
    /\ UNCHANGED <<tables, lock, handled>>

LeaveClub(p, u) ==
    role[u] \in {"admin", "member"} /\ Accept(p, u, Request("cascade", u, ""))

\* Mutant: the locked row's role is not asked.
CascadeOutBlind(p) ==
    LET u == work[p].who IN
    /\ At(p, "cascade") /\ Free(u)
    /\ role' = [role EXCEPT ![u] = "none"]
    /\ eboard' = eboard \ {u}
    /\ asks' = ClearFor(asks, u)
    /\ End(p)
    /\ UNCHANGED <<club, policy, banned, eboardAsks, decisions, deleted, lock, handled>>

\* cascadeOut: locks the row and asks again; everything the member had goes with it.
CascadeOut(p) ==
    LET u == work[p].who IN
    /\ At(p, "cascade") /\ Free(u)
    /\ IF role[u] = "owner"
       THEN UNCHANGED <<role, eboard, asks>>
       ELSE /\ role' = [role EXCEPT ![u] = "none"]
            /\ eboard' = eboard \ {u}
            /\ asks' = ClearFor(asks, u)
    /\ End(p)
    /\ UNCHANGED <<club, policy, banned, eboardAsks, decisions, deleted, lock, handled>>

BanFromClub(p, a, u) ==
    IsAdmin(a) /\ u # a /\ Accept(p, a, Request("banRead", u, role[a]))

ReadForBan(p) ==
    LET r == work[p] IN
    /\ At(p, "banRead")
    /\ IF MayEject(r.arg, role[r.who])
       THEN work' = [work EXCEPT ![p] = FullRequest("bar", r.who, r.who, "", 0, role[r.who])]
       ELSE End(p)
    /\ UNCHANGED <<tables, lock, handled>>

\* The ban is a statement of its own; the removal follows in another transaction.
Bar(p) ==
    LET r == work[p] IN
    /\ At(p, "bar")
    /\ banned' = banned \cup {r.who}
    /\ work' = [work EXCEPT ![p] = Request(IF r.seen = "none" THEN "unask" ELSE "cascade",
                                           r.who, "")]
    /\ UNCHANGED <<club, policy, role, eboard, asks, eboardAsks, decisions, deleted, lock,
                   handled>>

Unask(p) == /\ At(p, "unask")
            /\ asks' = ClearFor(asks, work[p].who)
            /\ End(p)
            /\ UNCHANGED <<club, policy, role, eboard, banned, eboardAsks, decisions, deleted,
                           lock, handled>>

LiftClubBan(p, a, u) == IsAdmin(a) /\ Accept(p, a, Request("lift", u, ""))

Lift(p) == /\ At(p, "lift")
           /\ banned' = banned \ {work[p].who}
           /\ End(p)
           /\ UNCHANGED <<club, policy, role, eboard, asks, eboardAsks, decisions, deleted,
                          lock, handled>>

DeleteClub(p, a) == role[a] = "owner" /\ Accept(p, a, Request("drop", a, ""))

\* The clubs row and, by foreign key, everything that hangs from it.
Drop(p) == /\ At(p, "drop") /\ \A u \in Users : Free(u)
           /\ club' = FALSE
           /\ role' = [u \in Users |-> "none"] /\ eboard' = {} /\ banned' = {}
           /\ asks' = [i \in Ids |-> "unfiled"] /\ eboardAsks' = [i \in Ids |-> "unfiled"]
           /\ decisions' = [i \in Ids |-> 0]
           /\ End(p)
           /\ UNCHANGED <<policy, deleted, lock, handled>>

\* Refused while a statement of its own finds the user owning a club.
DeleteOwnAccount(p, u) == role[u] # "owner" /\ Accept(p, u, Request("erase", u, ""))

\* Its transaction deletes the membership rows whatever their role is by then.
Erase(p) ==
    LET u == work[p].who IN
    /\ At(p, "erase") /\ Free(u)
    /\ deleted' = deleted \cup {u}
    /\ role' = [role EXCEPT ![u] = "none"]
    /\ eboard' = eboard \ {u}
    /\ End(p)
    /\ UNCHANGED <<club, policy, banned, asks, eboardAsks, decisions, lock, handled>>
-------------------------------------------------------------------------------
(* The Eboard space *)
RequestEboardAccess(p, a) ==
    IsAdmin(a) /\ a \notin eboard /\ Accept(p, a, Request("eboardFile", a, ""))

FileEboardRequest(p) ==
    /\ At(p, "eboardFile")
    /\ eboardAsks' = FileFor(eboardAsks, work[p].who)
    /\ End(p)
    /\ UNCHANGED <<club, policy, role, eboard, banned, asks, decisions, deleted, lock, handled>>

DecideEboardRequest(p, a, i, verdict) ==
    /\ eboardAsks[i] \in {"pending", "approved", "denied"} /\ a \in eboard
    /\ Accept(p, a, FullRequest("eboardDecide", i[1], i[1], verdict, i[2], "none"))

DecideEboard(p) ==
    LET r == work[p]
        i == <<r.who, r.ask>>
        approved == r.arg = "approve"
    IN  /\ At(p, "eboardDecide")
        /\ IF eboardAsks[i] = "pending"
           THEN /\ eboardAsks' = [eboardAsks EXCEPT ![i] = IF approved THEN "approved"
                                                                        ELSE "denied"]
                /\ eboard' = IF approved THEN eboard \cup {r.who} ELSE eboard
           ELSE UNCHANGED <<eboardAsks, eboard>>
        /\ End(p)
        /\ UNCHANGED <<club, policy, role, banned, asks, decisions, deleted, lock, handled>>

AddEboardMember(p, a, u) == a \in eboard /\ Accept(p, a, Request("eligible", u, ""))

ReadEligible(p) == /\ At(p, "eligible")
                   /\ IF IsAdmin(work[p].who) THEN Goto(p, "eboardAdd") ELSE End(p)
                   /\ UNCHANGED <<tables, lock, handled>>

InsertEboardMember(p) ==
    LET u == work[p].who IN
    /\ At(p, "eboardAdd")
    /\ IF u \in eboard
       THEN UNCHANGED <<eboard, eboardAsks>>
       ELSE eboard' = eboard \cup {u} /\ eboardAsks' = ClearFor(eboardAsks, u)
    /\ End(p)
    /\ UNCHANGED <<club, policy, role, banned, asks, decisions, deleted, lock, handled>>

\* Anybody inside may leave; only the Owner, inside, removes somebody else.
RemoveEboardMember(p, a, u) ==
    /\ a \in eboard /\ (u = a \/ role[a] = "owner")
    /\ Accept(p, a, Request("eboardRemove", u, ""))

DeleteEboardMember(p) ==
    /\ At(p, "eboardRemove")
    /\ eboard' = eboard \ {work[p].who}
    /\ End(p)
    /\ UNCHANGED <<club, policy, role, banned, asks, eboardAsks, decisions, deleted, lock,
                   handled>>
-------------------------------------------------------------------------------
\* The process dies, a statement fails, or the club is gone: an open transaction rolls back.
Abandon(p) == /\ work[p] # Idle
              /\ End(p)
              /\ lock' = Unlocked(p)
              /\ UNCHANGED <<tables, handled>>

Command(p) ==
    \/ \E u \in Users : \/ JoinClub(p, u) \/ LeaveClub(p, u) \/ DeleteOwnAccount(p, u)
                        \/ DeleteClub(p, u) \/ RequestEboardAccess(p, u)
                        \/ \E l \in BOOLEAN : RedeemInvite(p, u, l)
                        \/ \E to \in {"open", "request"} : SetJoinPolicy(p, u, to)
    \/ \E a, u \in Users : \/ AddMember(p, a, u) \/ TransferOwnership(p, a, u)
                           \/ RemoveMember(p, a, u) \/ BanFromClub(p, a, u)
                           \/ LiftClubBan(p, a, u) \/ AddEboardMember(p, a, u)
                           \/ RemoveEboardMember(p, a, u)
                           \/ \E to \in {"admin", "member"} : ChangeRole(p, a, u, to)
    \/ \E a \in Users, i \in Ids, verdict \in {"approve", "deny"} :
          DecideJoinRequest(p, a, i, verdict) \/ DecideEboardRequest(p, a, i, verdict)

Step(p) == \/ CheckWayIn(p) \/ Admit(p) \/ FileJoinRequest(p) \/ Decide(p) \/ WritePolicy(p)
           \/ ReadRole(p) \/ WriteRole(p) \/ LockFirst(p) \/ LockSecond(p) \/ Transfer(p)
           \/ ReadForRemoval(p) \/ CascadeOut(p) \/ ReadForBan(p) \/ Bar(p) \/ Unask(p)
           \/ Lift(p) \/ Drop(p) \/ Erase(p) \/ FileEboardRequest(p) \/ DecideEboard(p)
           \/ ReadEligible(p) \/ InsertEboardMember(p) \/ DeleteEboardMember(p)

Next == \E p \in Procs : Command(p) \/ Step(p) \/ Abandon(p)

Spec == Init /\ [][Next]_vars
-------------------------------------------------------------------------------
Owners == {u \in Users : role[u] = "owner"}

\* Until somebody deletes an account, a club that exists has an Owner; it never has two.
OneOwnerUntilDeletion ==
    /\ \A u, v \in Owners : u = v
    /\ club /\ deleted = {} => Owners # {}

\* The Owner stops being Owner only by handing the club to somebody who is in it, who
\* becomes the Owner in the same step, by deleting the club, or by deleting the account.
OwnershipMoves ==
    [][\A u \in Owners : role'[u] # "owner" =>
          \/ ~club' \/ u \in deleted'
          \/ \E v \in Users \ {u} : role[v] # "none" /\ role'[v] = "owner"]_vars

\* Every way in is closed to u: outside, barred, not waiting for a decision, and past
\* the ban check of no request in progress.
ShutOut(u) == /\ role[u] = "none" /\ u \in banned /\ ~Pending(asks, u)
              /\ \A p \in Procs : ~(work[p].at \in {"admit", "file"} /\ work[p].who = u)

\* A ban is durable (ADR-0021): whoever is shut out stays so until the ban is lifted.
BanIsDurable == [][\A u \in Users : ShutOut(u) => ShutOut(u)' \/ u \notin banned']_vars

\* Two admins deciding the same request, or opening the club meanwhile, announce it once,
\* and a request that was cleared is never announced.
DecidedOnce ==
    \A i \in Ids : decisions[i] = IF asks[i] \in {"approved", "denied"} THEN 1 ELSE 0

\* Transfers wait for each other's rows but never in a circle: while rows are held, some
\* holder is not waiting (the comment above transferOwnership).
Waiting(p) == \/ work[p].at = "lockFirst" /\ ~Free(First(work[p]))
              \/ work[p].at = "lockSecond" /\ ~Free(Second(work[p]))
LocksDrain ==
    (\E u \in Users : ~Free(u)) => \E u \in Users : ~Free(u) /\ ~Waiting(lock[u])

\* "The ownerless club is unreachable through the domain layer" (ADR-0042).
OneOwner == club => \E u \in Owners : Owners = {u}

\* "The board membership cannot drift out of sync with who is actually an admin" (README).
EboardIsAdminTier == \A u \in eboard : IsAdmin(u)
===============================================================================
