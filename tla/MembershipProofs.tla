--------------------------- MODULE MembershipProofs ---------------------------
(***************************************************************************)
(* Theorems about Membership, for every set of users and of concurrent     *)
(* requests, every starting roster and every bound; and, at the end, about *)
(* the gateway's records of who reads what (GatewaySubscriptions).         *)
(***************************************************************************)
EXTENDS Membership, FiniteSetTheorems, SequenceTheorems, WellFoundedInduction, TLAPS

\* A request's parameters fit the step it is at, and what it read does not let a
\* role change touch the Owner.
RequestOK(r) ==
    /\ r.at = "check" => r.arg \in {"admit", "file"}
    /\ r.at \in {"decide", "eboardDecide"} => <<r.who, r.ask>> \in Ids
    /\ r.at = "policy" => r.arg \in {"open", "request"}
    /\ r.at \in {"roleRead", "roleWrite"} => r.arg \in {"admin", "member"}
    /\ r.at = "roleWrite" => r.seen \in {"admin", "member"}
    /\ r.at \in {"lockFirst", "lockSecond", "transfer"} => r.who # r.by
RequestInv == \A p \in Procs : RequestOK(work[p])

\* p holds the row of u and u's role is still the one p read.
Holds(p, u, read) == read # "none" => lock[u] = p /\ role[u] = read

\* What a transfer has read of the rows it locked still stands.
HeldInv ==
    \A p \in Procs :
        /\ work[p].at = "lockSecond" =>
              /\ First(work[p]) = work[p].who => Holds(p, work[p].who, work[p].seen)
              /\ First(work[p]) = work[p].by => Holds(p, work[p].by, work[p].mine)
        /\ work[p].at = "transfer" => /\ Holds(p, work[p].who, work[p].seen)
                                      /\ Holds(p, work[p].by, work[p].mine)

CoreInv == TypeOK /\ RequestInv /\ HeldInv
IInv == CoreInv /\ OneOwnerUntilDeletion
-------------------------------------------------------------------------------
\* The starting roster satisfies the invariant.
LEMMA InvInit == Init => IInv
<1> SUFFICES ASSUME Init PROVE IInv
  OBVIOUS
<1>1. TypeOK
  BY MembershipAssumption DEF Init, TypeOK, Statuses
<1>2. RequestInv /\ HeldInv
  BY DEF Init, RequestInv, RequestOK, HeldInv, Idle
<1>3. OneOwnerUntilDeletion
  BY MembershipAssumption DEF Init, OneOwnerUntilDeletion, Owners
<1>4. QED
  BY <1>1, <1>2, <1>3 DEF IInv, CoreInv

\* A process that is not idle carries a request.
LEMMA Working ==
  ASSUME TypeOK, NEW p \in Procs, work[p].at # "idle"
  PROVE  /\ work[p] \in Requests
         /\ work[p].who \in Users /\ work[p].by \in Users
         /\ role[work[p].who] \in Roles /\ role[work[p].by] \in Roles
<1>1. work[p] \in Requests
  BY DEF TypeOK, Idle
<1>2. work[p].who \in Users /\ work[p].by \in Users
  BY <1>1 DEF Requests
<1>3. QED
  BY <1>1, <1>2 DEF TypeOK

\* A request made with the constructor is one.
LEMMA RequestType ==
  ASSUME NEW at \in Steps, NEW u \in Users, NEW a \in Users, NEW arg \in Args,
         NEW k \in 0..MaxAsks, NEW seen \in Roles
  PROVE  FullRequest(at, u, a, arg, k, seen) \in Requests
BY DEF FullRequest, Requests, Roles

\* So is one that names only the user it acts upon.
LEMMA PlainRequestType ==
  ASSUME NEW at \in Steps, NEW u \in Users, NEW arg \in Args
  PROVE  Request(at, u, arg) \in Requests
BY MembershipAssumption, RequestType DEF Request, Roles

\* The steps and arguments that later steps of a command give it.
LEMMA Names == /\ {"admit", "file", "bar", "unask", "cascade"} \subseteq Steps
               /\ {"", "admit", "file"} \subseteq Args /\ 0 \in 0..MaxAsks
BY MembershipAssumption DEF Steps, Args

\* What a command leaves behind when it is accepted.
Accepted(p, r) ==
    /\ r \in Requests /\ RequestOK(r)
    /\ r.at \notin {"lockSecond", "transfer", "admit", "file"}
    /\ work' = [work EXCEPT ![p] = r]
    /\ handled' = handled + 1
    /\ UNCHANGED <<tables, lock>>

\* Every command only records its request.
LEMMA CommandShape ==
  ASSUME TypeOK, NEW p \in Procs, Command(p)
  PROVE  \E r : Accepted(p, r)
<1>1. ASSUME NEW at \in {"erase", "cascade", "drop", "eboardFile", "lift", "eligible",
                         "eboardRemove"},
             NEW a \in Users, NEW u \in Users, Accept(p, a, Request(at, u, ""))
      PROVE  \E r : Accepted(p, r)
  BY <1>1, PlainRequestType DEF Accepted, Accept, RequestOK, Request, FullRequest, Steps, Args
<1>2. ASSUME NEW arg \in {"admit", "file"}, NEW a \in Users, NEW u \in Users,
             Accept(p, a, Request("check", u, arg))
      PROVE  \E r : Accepted(p, r)
  BY <1>2, PlainRequestType DEF Accepted, Accept, RequestOK, Request, FullRequest, Steps, Args
<1>3. ASSUME NEW u \in Users, \/ JoinClub(p, u) \/ LeaveClub(p, u) \/ DeleteOwnAccount(p, u)
                              \/ DeleteClub(p, u) \/ RequestEboardAccess(p, u)
                              \/ \E l \in BOOLEAN : RedeemInvite(p, u, l)
      PROVE  \E r : Accepted(p, r)
  <2>1. \A b \in BOOLEAN : WayIn(b) \in {"admit", "file"}
    BY DEF WayIn
  <2>2. CASE JoinClub(p, u)
    BY <1>2, <2>1, <2>2 DEF JoinClub
  <2>3. ASSUME NEW l \in BOOLEAN, RedeemInvite(p, u, l) PROVE \E r : Accepted(p, r)
    BY <1>2, <2>1, <2>3 DEF RedeemInvite
  <2>4. CASE LeaveClub(p, u) \/ DeleteOwnAccount(p, u)
    BY <1>1, <2>4 DEF LeaveClub, DeleteOwnAccount
  <2>5. CASE DeleteClub(p, u) \/ RequestEboardAccess(p, u)
    BY <1>1, <2>5 DEF DeleteClub, RequestEboardAccess
  <2>6. QED
    BY <1>3, <2>2, <2>3, <2>4, <2>5
<1>4. ASSUME NEW u \in Users, NEW to \in {"open", "request"}, SetJoinPolicy(p, u, to)
      PROVE  \E r : Accepted(p, r)
  BY <1>4, PlainRequestType DEF SetJoinPolicy, Accepted, Accept, RequestOK, Request, FullRequest, Steps, Args
<1>5. ASSUME NEW a \in Users, NEW u \in Users,
             \/ AddMember(p, a, u) \/ LiftClubBan(p, a, u) \/ AddEboardMember(p, a, u)
             \/ RemoveEboardMember(p, a, u)
      PROVE  \E r : Accepted(p, r)
  BY <1>1, <1>2, <1>5 DEF AddMember, LiftClubBan, AddEboardMember, RemoveEboardMember
<1>6. ASSUME NEW a \in Users, NEW u \in Users, TransferOwnership(p, a, u)
      PROVE  \E r : Accepted(p, r)
  <2> DEFINE r == FullRequest("lockFirst", u, a, "", 0, "none")
  <2>1. r \in Requests
    <3>1. "lockFirst" \in Steps /\ "" \in Args /\ "none" \in Roles
      BY DEF Steps, Args, Roles
    <3>2. 0 \in 0..MaxAsks
      BY MembershipAssumption
    <3>3. QED
      BY <3>1, <3>2, RequestType
  <2>2. r.at = "lockFirst" /\ r.who = u /\ r.by = a
    BY DEF FullRequest
  <2>3. Accept(p, a, r) /\ u # a
    BY <1>6 DEF TransferOwnership
  <2> HIDE DEF r
  <2>4. RequestOK(r)
    BY <2>2, <2>3 DEF RequestOK
  <2>5. QED
    BY <2>1, <2>2, <2>3, <2>4 DEF Accepted, Accept
<1>7. ASSUME NEW a \in Users, NEW u \in Users, RemoveMember(p, a, u) \/ BanFromClub(p, a, u)
      PROVE  \E r : Accepted(p, r)
  <2>1. role[a] \in Args
    BY <1>7 DEF RemoveMember, BanFromClub, IsAdmin, AdminTier, Args
  <2>2. QED
    BY <1>7, <2>1, PlainRequestType DEF RemoveMember, BanFromClub, Accepted, Accept, RequestOK,
       Request, FullRequest, Steps
<1>8. ASSUME NEW a \in Users, NEW u \in Users, NEW to \in {"admin", "member"},
             ChangeRole(p, a, u, to)
      PROVE  \E r : Accepted(p, r)
  BY <1>8, PlainRequestType DEF ChangeRole, Accepted, Accept, RequestOK, Request, FullRequest, Steps, Args
<1>9. ASSUME NEW a \in Users, NEW i \in Ids, NEW verdict \in {"approve", "deny"},
             DecideJoinRequest(p, a, i, verdict) \/ DecideEboardRequest(p, a, i, verdict)
      PROVE  \E r : Accepted(p, r)
  <2>1. /\ i[1] \in Users /\ i[2] \in 1..MaxAsks /\ i[2] \in 0..MaxAsks
        /\ i = <<i[1], i[2]>>
    BY MembershipAssumption DEF Ids
  <2>2. PICK at \in {"decide", "eboardDecide"} :
           Accept(p, a, FullRequest(at, i[1], i[1], verdict, i[2], "none"))
    BY <1>9 DEF DecideJoinRequest, DecideEboardRequest
  <2> DEFINE r == FullRequest(at, i[1], i[1], verdict, i[2], "none")
  <2>3. r \in Requests
    BY <2>1, RequestType DEF Steps, Args, Roles
  <2>4. RequestOK(r) /\ r.at = at
    BY <2>1 DEF RequestOK, FullRequest
  <2>5. Accept(p, a, r)
    BY <2>2
  <2> HIDE DEF r
  <2>6. QED
    BY <2>3, <2>4, <2>5 DEF Accepted, Accept
<1>10. QED
  BY <1>3, <1>4, <1>5, <1>6, <1>7, <1>8, <1>9 DEF Command

\* A command is accepted by a process that was idle.
LEMMA CommandIdle ==
  ASSUME NEW p \in Procs, Command(p)
  PROVE  work[p] = Idle
<1> USE DEF Accept
<1>1. ASSUME NEW u \in Users, \/ JoinClub(p, u) \/ LeaveClub(p, u) \/ DeleteOwnAccount(p, u)
                              \/ DeleteClub(p, u) \/ RequestEboardAccess(p, u)
                              \/ \E l \in BOOLEAN : RedeemInvite(p, u, l)
                              \/ \E to \in {"open", "request"} : SetJoinPolicy(p, u, to)
      PROVE  work[p] = Idle
  BY <1>1 DEF JoinClub, LeaveClub, DeleteOwnAccount, DeleteClub, RequestEboardAccess,
     RedeemInvite, SetJoinPolicy
<1>2. ASSUME NEW a \in Users, NEW u \in Users,
             \/ AddMember(p, a, u) \/ TransferOwnership(p, a, u)
             \/ RemoveMember(p, a, u) \/ BanFromClub(p, a, u)
             \/ LiftClubBan(p, a, u) \/ AddEboardMember(p, a, u)
             \/ RemoveEboardMember(p, a, u)
             \/ \E to \in {"admin", "member"} : ChangeRole(p, a, u, to)
      PROVE  work[p] = Idle
  BY <1>2 DEF AddMember, TransferOwnership, RemoveMember, BanFromClub, LiftClubBan,
     AddEboardMember, RemoveEboardMember, ChangeRole
<1>3. ASSUME NEW a \in Users, NEW i \in Ids, NEW verdict \in {"approve", "deny"},
             DecideJoinRequest(p, a, i, verdict) \/ DecideEboardRequest(p, a, i, verdict)
      PROVE  work[p] = Idle
  BY <1>3 DEF DecideJoinRequest, DecideEboardRequest
<1>4. QED
  BY <1>1, <1>2, <1>3 DEF Command

\* A step of p that moves p out of a transfer, and leaves the rows others hold and their
\* roles alone, leaves what the other transfers have read standing.
LEMMA HeldKept ==
  ASSUME TypeOK, HeldInv, NEW p \in Procs, NEW r,
         r.at \notin {"lockSecond", "transfer"},
         work' = [work EXCEPT ![p] = r],
         \A u \in Users : lock[u] = p \/ lock'[u] = lock[u],
         \A u \in Users : role'[u] = role[u] \/ role[u] = "none" \/ lock[u] \in {p, NoProc}
  PROVE  HeldInv'
<1> SUFFICES ASSUME NEW q \in Procs, work'[q].at \in {"lockSecond", "transfer"}
             PROVE  /\ q # p /\ work'[q] = work[q] /\ work[q] \in Requests
                    /\ \A u \in Users : \A read : Holds(q, u, read) => Holds(q, u, read)'
  BY DEF HeldInv, First, Requests
<1>1. q # p /\ work'[q] = work[q]
  BY DEF TypeOK
<1>2. work[q] \in Requests
  BY <1>1, Working
<1>3. ASSUME NEW u \in Users, NEW read, Holds(q, u, read) PROVE Holds(q, u, read)'
  BY <1>1, <1>3, MembershipAssumption DEF Holds
<1>4. QED
  BY <1>1, <1>2, <1>3

\* The parameters of the other requests do not change.
LEMMA RequestKept ==
  ASSUME TypeOK, RequestInv, NEW p \in Procs, NEW r, RequestOK(r),
         work' = [work EXCEPT ![p] = r]
  PROVE  RequestInv'
BY DEF TypeOK, RequestInv

\* An idle process has read nothing.
LEMMA IdleOK == RequestOK(Idle) /\ Idle.at \notin {"lockSecond", "transfer"}
BY DEF RequestOK, Idle

\* The tables keep their types under the writes the commands are made of.
LEMMA WriteTypes ==
  ASSUME TypeOK
  PROVE  /\ \A u : /\ FileFor(asks, u) \in [Ids -> Statuses]
                   /\ FileFor(eboardAsks, u) \in [Ids -> Statuses]
                   /\ ClearFor(asks, u) \in [Ids -> Statuses]
                   /\ ClearFor(eboardAsks, u) \in [Ids -> Statuses]
         /\ \A us : WithMembers(us) \in [Users -> Roles]
<1> USE DEF TypeOK, Statuses
<1>1. ASSUME NEW s \in [Ids -> Statuses], NEW u
      PROVE  FileFor(s, u) \in [Ids -> Statuses] /\ ClearFor(s, u) \in [Ids -> Statuses]
  <2>1. FileFor(s, u) \in [Ids -> Statuses]
    BY <1>1 DEF FileFor
  <2>2. ClearFor(s, u) \in [Ids -> Statuses]
    BY <1>1 DEF ClearFor
  <2>3. QED
    BY <2>1, <2>2
<1>2. ASSUME NEW us PROVE WithMembers(us) \in [Users -> Roles]
  BY DEF WithMembers, Roles
<1>3. QED
  BY <1>1, <1>2

\* The steps of a command that only read, or write no role: they keep the core.
LEMMA CoreRead ==
  ASSUME CoreInv, NEW p \in Procs,
         \/ CheckWayIn(p) \/ ReadRole(p) \/ ReadForRemoval(p) \/ ReadForBan(p) \/ Bar(p)
         \/ ReadEligible(p)
  PROVE  CoreInv'
<1> USE DEF CoreInv
<1>1. /\ work[p] \in Requests
      /\ work[p].who \in Users /\ role[work[p].who] \in Roles
  BY Working DEF CheckWayIn, ReadRole, ReadForRemoval, ReadForBan, Bar, ReadEligible, At
<1>2. PICK r \in Requests \cup {Idle} :
         /\ RequestOK(r) /\ r.at \notin {"lockSecond", "transfer"}
         /\ work' = [work EXCEPT ![p] = r]
  <2>1. CASE CheckWayIn(p)
    <3>1. RequestOK(Request(work[p].arg, work[p].who, "")) /\ work[p].arg \in {"admit", "file"}
      BY <2>1 DEF CheckWayIn, At, RequestInv, RequestOK, Request, FullRequest
    <3>2. Request(work[p].arg, work[p].who, "") \in Requests
      BY <1>1, <3>1, PlainRequestType, Names
    <3>3. Request(work[p].arg, work[p].who, "").at \in {"admit", "file"}
      BY <3>1 DEF Request, FullRequest
    <3>4. QED
      BY <2>1, <3>1, <3>2, <3>3, IdleOK DEF CheckWayIn, End
  <2>2. CASE ReadRole(p)
    <3> DEFINE r == [work[p] EXCEPT !.at = "roleWrite", !.seen = role[work[p].who]]
    <3>1. CASE role[work[p].who] \in {"none", "owner", work[p].arg}
      BY <2>2, <3>1, IdleOK DEF ReadRole, End
    <3>2. CASE role[work[p].who] \notin {"none", "owner", work[p].arg}
      <4>1. work' = [work EXCEPT ![p] = r]
        BY <2>2, <3>2 DEF ReadRole, TypeOK
      <4>2. role[work[p].who] \in {"admin", "member"}
        BY <1>1, <3>2 DEF TypeOK, Roles, Requests
      <4>3. r \in Requests /\ RequestOK(r) /\ r.at = "roleWrite"
        BY <1>1, <2>2, <4>2 DEF Requests, Steps, Roles, ReadRole, At, RequestInv, RequestOK
      <4>4. QED
        BY <4>1, <4>3
    <3>3. QED
      BY <3>1, <3>2
  <2>3. CASE ReadForRemoval(p)
    <3>1. Request("cascade", work[p].who, "") \in Requests
      BY <1>1, PlainRequestType, Names
    <3>2. /\ RequestOK(Request("cascade", work[p].who, ""))
          /\ Request("cascade", work[p].who, "").at = "cascade"
      BY DEF RequestOK, Request, FullRequest
    <3>3. QED
      BY <2>3, <3>1, <3>2, IdleOK DEF ReadForRemoval, End
  <2>4. CASE ReadForBan(p)
    <3> DEFINE u == work[p].who
               r == FullRequest("bar", u, u, "", 0, role[u])
    <3>1. "bar" \in Steps /\ "" \in Args /\ 0 \in 0..MaxAsks /\ u \in Users /\ role[u] \in Roles
      BY <1>1, Names
    <3>2. r \in Requests
      BY <3>1, RequestType
    <3>3. RequestOK(r) /\ r.at = "bar"
      BY DEF RequestOK, FullRequest
    <3>4. QED
      BY <2>4, <3>2, <3>3, IdleOK DEF ReadForBan, End
  <2>5. CASE Bar(p)
    <3>1. PICK at \in {"unask", "cascade"} :
             work' = [work EXCEPT ![p] = Request(at, work[p].who, "")]
      BY <2>5 DEF Bar
    <3>2. Request(at, work[p].who, "") \in Requests
      BY <1>1, PlainRequestType, Names
    <3>3. RequestOK(Request(at, work[p].who, "")) /\ Request(at, work[p].who, "").at = at
      BY DEF RequestOK, Request, FullRequest
    <3>4. QED
      BY <3>1, <3>2, <3>3
  <2>6. CASE ReadEligible(p)
    <3> DEFINE r == [work[p] EXCEPT !.at = "eboardAdd"]
    <3>1. work' = [work EXCEPT ![p] = Idle] \/ work' = [work EXCEPT ![p] = r]
      BY <2>6 DEF ReadEligible, Goto, End, TypeOK
    <3>2. r \in Requests /\ RequestOK(r) /\ r.at = "eboardAdd"
      BY <1>1 DEF Requests, Steps, RequestOK
    <3>3. QED
      BY <3>1, <3>2, IdleOK
  <2>7. QED
    BY <2>1, <2>2, <2>3, <2>4, <2>5, <2>6
<1>3. UNCHANGED <<club, policy, role, eboard, asks, eboardAsks, decisions, deleted, lock,
                  handled>> /\ banned' \subseteq Users
  BY <1>1 DEF CheckWayIn, ReadRole, ReadForRemoval, ReadForBan, Bar, ReadEligible, tables,
     TypeOK, Requests
<1>4. TypeOK'
  BY <1>2, <1>3 DEF TypeOK
<1>5. RequestInv'
  BY <1>2, RequestKept
<1>6. HeldInv'
  BY <1>2, <1>3, HeldKept
<1>7. QED
  BY <1>4, <1>5, <1>6

\* A step that writes tables and ends its command keeps the core, if the tables keep
\* their types and it respects the rows others hold.
LEMMA CoreEnd ==
  ASSUME CoreInv, NEW p \in Procs, End(p), UNCHANGED handled,
         club' \in BOOLEAN, policy' \in {"open", "request"}, role' \in [Users -> Roles],
         eboard' \subseteq Users, banned' \subseteq Users, deleted' \subseteq Users,
         asks' \in [Ids -> Statuses], eboardAsks' \in [Ids -> Statuses],
         decisions' \in [Ids -> Nat],
         lock' = lock \/ lock' = Unlocked(p),
         \A u \in Users : role'[u] = role[u] \/ role[u] = "none" \/ lock[u] \in {p, NoProc}
  PROVE  CoreInv'
<1> USE DEF CoreInv
<1>1. TypeOK'
  BY DEF TypeOK, End, Unlocked
<1>2. RequestInv'
  BY RequestKept, IdleOK DEF End
<1>3. \A u \in Users : lock[u] = p \/ lock'[u] = lock[u]
  BY DEF Unlocked
<1>4. HeldInv'
  BY <1>3, HeldKept, IdleOK DEF End
<1>5. QED
  BY <1>1, <1>2, <1>4

\* Joining, deciding, opening: rows are added where there was none.
LEMMA CoreJoin ==
  ASSUME CoreInv, NEW p \in Procs, Admit(p) \/ FileJoinRequest(p) \/ Decide(p) \/ WritePolicy(p)
  PROVE  CoreInv'
<1>1. TypeOK /\ RequestOK(work[p])
  BY DEF CoreInv, RequestInv
<1>2. \A us : \A u \in Users : WithMembers(us)[u] = role[u] \/ role[u] = "none"
  BY DEF WithMembers
<1>3. CASE Admit(p)
  BY <1>1, <1>2, <1>3, CoreEnd, WriteTypes DEF Admit, TypeOK
<1>4. CASE FileJoinRequest(p)
  BY <1>1, <1>4, CoreEnd, WriteTypes DEF FileJoinRequest, TypeOK
<1>5. CASE Decide(p)
  <2> DEFINE i == <<work[p].who, work[p].ask>>
  <2>1. i \in Ids
    BY <1>1, <1>5 DEF Decide, At, RequestOK
  <2>2. asks' \in [Ids -> Statuses] /\ decisions' \in [Ids -> Nat]
    BY <1>1, <1>5, <2>1 DEF Decide, TypeOK, Statuses
  <2>3. role' = role \/ role' = WithMembers({work[p].who})
    BY <1>5 DEF Decide
  <2>4. QED
    BY <1>1, <1>2, <1>5, <2>2, <2>3, CoreEnd, WriteTypes DEF Decide, TypeOK
<1>6. CASE WritePolicy(p)
  <2>1. policy' \in {"open", "request"}
    BY <1>1, <1>6 DEF WritePolicy, At, RequestOK
  <2>2. asks' \in [Ids -> Statuses] /\ decisions' \in [Ids -> Nat]
    BY <1>1, <1>6 DEF WritePolicy, TypeOK, Statuses
  <2>3. role' = role \/ \E us : role' = WithMembers(us)
    BY <1>6 DEF WritePolicy
  <2>4. QED
    BY <1>1, <1>2, <1>6, <2>1, <2>2, <2>3, CoreEnd, WriteTypes DEF WritePolicy, TypeOK
<1>7. QED
  BY <1>3, <1>4, <1>5, <1>6

\* Role changes, departures and deletions wait for the rows they write.
LEMMA CoreWrite ==
  ASSUME CoreInv, NEW p \in Procs, WriteRole(p) \/ CascadeOut(p) \/ Drop(p) \/ Erase(p)
  PROVE  CoreInv'
<1>1. TypeOK /\ RequestOK(work[p]) /\ work[p].who \in Users
  BY Working DEF CoreInv, RequestInv, WriteRole, CascadeOut, Drop, Erase, At
<1>2. CASE WriteRole(p)
  <2>1. work[p].arg \in Roles
    BY <1>1, <1>2 DEF WriteRole, At, RequestOK, Roles
  <2>2. role' \in [Users -> Roles] /\ eboard' \subseteq Users
    BY <1>1, <1>2, <2>1 DEF WriteRole, TypeOK
  <2>3. \A u \in Users : role'[u] = role[u] \/ lock[u] = NoProc
    BY <1>1, <1>2 DEF WriteRole, TypeOK, Free
  <2>4. QED
    BY <1>1, <1>2, <2>2, <2>3, CoreEnd DEF WriteRole, TypeOK
<1>3. CASE CascadeOut(p)
  <2>1. role' \in [Users -> Roles] /\ eboard' \subseteq Users
    BY <1>1, <1>3 DEF CascadeOut, TypeOK, Roles
  <2>2. \A u \in Users : role'[u] = role[u] \/ lock[u] = NoProc
    BY <1>1, <1>3 DEF CascadeOut, TypeOK, Free
  <2>3. asks' \in [Ids -> Statuses]
    BY <1>1, <1>3, WriteTypes DEF CascadeOut, TypeOK
  <2>4. QED
    BY <1>1, <1>3, <2>1, <2>2, <2>3, CoreEnd DEF CascadeOut, TypeOK
<1>4. CASE Drop(p)
  <2>1. /\ role' \in [Users -> Roles] /\ asks' \in [Ids -> Statuses]
        /\ eboardAsks' \in [Ids -> Statuses] /\ decisions' \in [Ids -> Nat]
        /\ eboard' \subseteq Users /\ banned' \subseteq Users /\ club' \in BOOLEAN
    BY <1>4 DEF Drop, Roles, Statuses
  <2>2. \A u \in Users : lock[u] = NoProc
    BY <1>4 DEF Drop, Free
  <2>3. QED
    BY <1>1, <1>4, <2>1, <2>2, CoreEnd DEF Drop, TypeOK
<1>5. CASE Erase(p)
  <2>1. role' \in [Users -> Roles] /\ eboard' \subseteq Users /\ deleted' \subseteq Users
    BY <1>1, <1>5 DEF Erase, TypeOK, Roles
  <2>2. \A u \in Users : role'[u] = role[u] \/ lock[u] = NoProc
    BY <1>1, <1>5 DEF Erase, TypeOK, Free
  <2>3. QED
    BY <1>1, <1>5, <2>1, <2>2, CoreEnd DEF Erase, TypeOK
<1>6. QED
  BY <1>2, <1>3, <1>4, <1>5

\* Bans, join requests and the Eboard: no role is written.
LEMMA CoreOther ==
  ASSUME CoreInv, NEW p \in Procs,
         \/ Unask(p) \/ Lift(p) \/ FileEboardRequest(p) \/ DecideEboard(p)
         \/ InsertEboardMember(p) \/ DeleteEboardMember(p) \/ Abandon(p)
  PROVE  CoreInv'
<1>2. TypeOK /\ RequestOK(work[p])
  BY DEF CoreInv, RequestInv
<1>3. CASE Unask(p) \/ Lift(p)
  BY <1>2, <1>3, CoreEnd, WriteTypes DEF Unask, Lift, TypeOK
<1>4. CASE FileEboardRequest(p) \/ DeleteEboardMember(p)
  BY <1>2, <1>4, CoreEnd, WriteTypes DEF FileEboardRequest, DeleteEboardMember, TypeOK
<1>5. CASE DecideEboard(p)
  <2>1. <<work[p].who, work[p].ask>> \in Ids /\ work[p].who \in Users
    BY <1>2, <1>5, Working DEF DecideEboard, At, RequestOK
  <2>2. eboardAsks' \in [Ids -> Statuses] /\ eboard' \subseteq Users
    BY <1>2, <1>5, <2>1 DEF DecideEboard, TypeOK, Statuses
  <2>3. QED
    BY <1>2, <1>5, <2>2, CoreEnd DEF DecideEboard, TypeOK
<1>6. CASE InsertEboardMember(p)
  <2>1. work[p].who \in Users
    BY <1>2, <1>6, Working DEF InsertEboardMember, At
  <2>2. eboardAsks' \in [Ids -> Statuses] /\ eboard' \subseteq Users
    BY <1>2, <1>6, <2>1, WriteTypes DEF InsertEboardMember, TypeOK
  <2>3. QED
    BY <1>2, <1>6, <2>2, CoreEnd DEF InsertEboardMember, TypeOK
<1>7. CASE Abandon(p)
  BY <1>2, <1>7, CoreEnd DEF Abandon, tables, TypeOK
<1>8. QED
  BY <1>3, <1>4, <1>5, <1>6, <1>7

\* Accepting a command records it and nothing else.
LEMMA CoreAccept ==
  ASSUME CoreInv, NEW p \in Procs, Command(p)
  PROVE  CoreInv'
<1> USE DEF CoreInv
<1>1. PICK r : Accepted(p, r)
  BY CommandShape
<1>2. TypeOK'
  BY <1>1 DEF Accepted, tables, TypeOK
<1>3. RequestInv'
  BY <1>1, RequestKept DEF Accepted
<1>4. HeldInv'
  BY <1>1, HeldKept DEF Accepted, tables
<1>5. QED
  BY <1>2, <1>3, <1>4

\* A transfer's two row locks are of rows nobody holds, and of the two users it names.
LEMMA CoreLock ==
  ASSUME CoreInv, NEW p \in Procs, LockFirst(p) \/ LockSecond(p)
  PROVE  CoreInv'
<1> USE DEF CoreInv
<1> DEFINE r == work[p]
<1>1. /\ r \in Requests /\ r.who \in Users /\ r.by \in Users
      /\ role[r.who] \in Roles /\ role[r.by] \in Roles
      /\ RequestOK(r) /\ r.who # r.by
  BY Working DEF LockFirst, LockSecond, At, RequestInv, RequestOK
<1>2. First(r) \in {r.who, r.by} /\ Second(r) \in {r.who, r.by} /\ First(r) # Second(r)
  BY <1>1 DEF First, Second
<1>3. /\ work' \in [Procs -> Requests \cup {Idle}] /\ RequestOK(work'[p])
      /\ \A q \in Procs \ {p} : work'[q] = work[q]
      /\ work'[p].who = r.who /\ work'[p].by = r.by
      /\ First(work'[p]) = First(r)
  <2>1. PICK at \in {"lockSecond", "transfer"}, seen \in Roles, mine \in Roles :
          work' = [work EXCEPT ![p].at = at, ![p].seen = seen, ![p].mine = mine]
    <3>1. CASE LockFirst(p)
      BY <1>1, <3>1 DEF LockFirst
    <3>2. CASE LockSecond(p)
      <4> DEFINE u == Second(r)
                 inSnapshot == (IF u = r.who THEN r.seen ELSE r.mine) # "none"
                 seen == IF u = r.who /\ inSnapshot THEN role[u] ELSE r.seen
                 mine == IF u = r.by /\ inSnapshot THEN role[u] ELSE r.mine
      <4>1. r.seen \in Roles /\ r.mine \in Roles
        BY <1>1 DEF Requests
      <4>2. seen \in Roles /\ mine \in Roles
        BY <1>1, <1>2, <4>1
      <4>3. work' = [work EXCEPT ![p].at = "transfer", ![p].seen = seen, ![p].mine = mine]
        BY <3>2 DEF LockSecond, TypeOK
      <4>4. QED
        BY <4>2, <4>3
    <3>3. QED
      BY <3>1, <3>2
  <2>2. at \in Steps
    BY DEF Steps
  <2>3. QED
    BY <1>1, <2>1, <2>2 DEF TypeOK, Requests, RequestOK, First
<1>4. UNCHANGED <<tables, handled>> /\ lock' \in [Users -> Procs \cup {NoProc}]
  BY <1>1, <1>2 DEF LockFirst, LockSecond, TypeOK
<1>5. \A u \in Users : lock[u] # NoProc => lock'[u] = lock[u]
  BY <1>1, <1>2 DEF LockFirst, LockSecond, TypeOK, Free
<1>6. HeldInv'
  <2> SUFFICES ASSUME NEW q \in Procs
               PROVE  /\ (work[q].at = "lockSecond" =>
                             /\ First(work[q]) = work[q].who => Holds(q, work[q].who, work[q].seen)
                             /\ First(work[q]) = work[q].by => Holds(q, work[q].by, work[q].mine))'
                      /\ (work[q].at = "transfer" => /\ Holds(q, work[q].who, work[q].seen)
                                                     /\ Holds(q, work[q].by, work[q].mine))'
    BY DEF HeldInv
  <2>1. ASSUME NEW u \in Users, NEW s \in Procs, NEW read, Holds(s, u, read)
        PROVE  Holds(s, u, read)'
    BY <1>4, <1>5, <2>1, MembershipAssumption DEF Holds, tables
  <2>2. CASE q # p
    <3>1. CASE work[q].at \notin {"lockSecond", "transfer"}
      BY <1>3, <2>2, <3>1
    <3>2. CASE work[q].at \in {"lockSecond", "transfer"}
      <4>1. work[q].who \in Users /\ work[q].by \in Users
        BY <3>2, Working
      <4>2. QED
        BY <1>3, <2>1, <2>2, <4>1 DEF HeldInv
    <3>3. QED
      BY <3>1, <3>2
  <2>3. CASE q = p /\ LockFirst(p)
    <3>1. /\ work'[p].at = "lockSecond" /\ work'[p].seen = role[r.who]
          /\ work'[p].mine = role[r.by]
      BY <1>1, <2>3 DEF LockFirst, TypeOK, Requests
    <3>2. role[First(r)] # "none" => lock'[First(r)] = p
      BY <1>1, <1>2, <2>3 DEF LockFirst, TypeOK
    <3>3. QED
      BY <1>3, <1>4, <2>3, <3>1, <3>2 DEF Holds, tables
  <2>4. CASE q = p /\ LockSecond(p)
    <3> DEFINE u == Second(r)
               inSnapshot == (IF u = r.who THEN r.seen ELSE r.mine) # "none"
    <3>1. /\ work'[p].at = "transfer"
          /\ work'[p].seen = IF u = r.who /\ inSnapshot THEN role[u] ELSE r.seen
          /\ work'[p].mine = IF u = r.by /\ inSnapshot THEN role[u] ELSE r.mine
      BY <1>1, <2>4 DEF LockSecond, TypeOK, Requests
    <3>2. inSnapshot /\ role[u] # "none" => lock'[u] = p
      BY <1>1, <1>2, <2>4 DEF LockSecond, TypeOK
    <3>3. r.at = "lockSecond"
      BY <2>4 DEF LockSecond, At
    <3>4. CASE u = r.who
      <4>1. Holds(p, r.by, r.mine)
        BY <1>1, <1>2, <3>3, <3>4 DEF HeldInv
      <4>2. r.mine # "none" => lock'[r.by] = p /\ role'[r.by] = r.mine
        BY <1>1, <1>4, <1>5, <4>1, MembershipAssumption DEF Holds, tables
      <4>3. QED
        BY <1>1, <1>3, <1>4, <2>4, <3>1, <3>2, <3>4, <4>2 DEF Holds, tables
    <3>5. CASE u = r.by
      <4>1. Holds(p, r.who, r.seen)
        BY <1>1, <1>2, <3>3, <3>5 DEF HeldInv
      <4>2. r.seen # "none" => lock'[r.who] = p /\ role'[r.who] = r.seen
        BY <1>1, <1>4, <1>5, <4>1, MembershipAssumption DEF Holds, tables
      <4>3. QED
        BY <1>1, <1>3, <1>4, <2>4, <3>1, <3>2, <3>5, <4>2 DEF Holds, tables
    <3>6. QED
      BY <1>2, <3>4, <3>5
  <2>5. QED
    BY <2>2, <2>3, <2>4
<1>7. QED
  BY <1>3, <1>4, <1>6 DEF TypeOK, RequestInv, tables

\* A transfer writes only the rows it still holds, and gives them back.
LEMMA CoreTransfer ==
  ASSUME CoreInv, NEW p \in Procs, Transfer(p)
  PROVE  CoreInv'
<1> DEFINE r == work[p]
<1>1. /\ TypeOK /\ r \in Requests /\ r.who \in Users /\ r.by \in Users
  BY Working DEF CoreInv, Transfer, At
<1>2. r.seen # "none" /\ r.mine = "owner" => lock[r.who] = p /\ lock[r.by] = p
  BY DEF CoreInv, HeldInv, Transfer, At, Holds
<1>3. role' \in [Users -> Roles] /\ eboard' \subseteq Users
  BY <1>1 DEF Transfer, TypeOK, Roles
<1>4. \A u \in Users : role'[u] = role[u] \/ lock[u] = p
  BY <1>1, <1>2 DEF Transfer, TypeOK
<1>5. QED
  BY <1>1, <1>3, <1>4, CoreEnd DEF Transfer, TypeOK

\* Every step keeps the core.
LEMMA CoreStep ==
  ASSUME CoreInv, [Next]_vars
  PROVE  CoreInv'
<1>1. CASE UNCHANGED vars
  BY <1>1 DEF CoreInv, TypeOK, RequestInv, HeldInv, Holds, First, vars, tables
<1>2. ASSUME NEW p \in Procs, Command(p) \/ Step(p) \/ Abandon(p)
      PROVE  CoreInv'
  BY <1>2, CoreAccept, CoreRead, CoreEnd, CoreJoin, CoreWrite, CoreLock, CoreTransfer, CoreOther
     DEF Step
<1>3. QED
  BY <1>1, <1>2 DEF Next

\* Every table, lock and request of the roster stays of its type.
THEOREM TypeCorrect == Spec => []TypeOK
<1>1. Init => CoreInv
  BY InvInit DEF IInv
<1>2. CoreInv /\ [Next]_vars => CoreInv'
  BY CoreStep
<1>3. CoreInv => TypeOK
  BY DEF CoreInv
<1>4. QED
  BY <1>1, <1>2, <1>3, PTL DEF Spec
-------------------------------------------------------------------------------
(* Who is Owner changes in three ways only. *)
SameOwners == \A u \in Users : role'[u] = "owner" <=> role[u] = "owner"
Deletes(u) == /\ deleted' = deleted \cup {u}
              /\ \A v \in Users : role'[v] = IF v = u THEN "none" ELSE role[v]
HandsOver(a, u) ==
    /\ role[a] = "owner" /\ role[u] # "none" /\ u # a
    /\ \A v \in Users : role'[v] = IF v = u THEN "owner" ELSE IF v = a THEN "admin" ELSE role[v]

\* Joining, deciding, role changes, departures and everything else that is not a transfer
\* or a deletion leaves the Owner alone.
LEMMA OwnersStay ==
  ASSUME CoreInv, NEW p \in Procs, Command(p) \/ Step(p) \/ Abandon(p),
         ~Drop(p), ~Erase(p), ~Transfer(p)
  PROVE  SameOwners /\ UNCHANGED <<club, deleted>>
<1> USE DEF SameOwners
<1>1. TypeOK /\ RequestOK(work[p])
  BY DEF CoreInv, RequestInv
<1>2. \A us : \A u \in Users : WithMembers(us)[u] = "owner" <=> role[u] = "owner"
  BY DEF WithMembers
<1>3. CASE Command(p)
  BY <1>1, <1>3, CommandShape DEF Accepted, tables
<1>4. CASE Admit(p) \/ Decide(p) \/ WritePolicy(p)
  BY <1>2, <1>4 DEF Admit, Decide, WritePolicy
<1>5. CASE WriteRole(p)
  <2>1. work[p].seen # "owner" /\ work[p].arg # "owner"
    BY <1>1, <1>5 DEF WriteRole, At, RequestOK
  <2>2. QED
    BY <1>1, <1>5, <2>1 DEF WriteRole, TypeOK
<1>6. CASE CascadeOut(p)
  BY <1>1, <1>6 DEF CascadeOut, TypeOK
<1>7. CASE \/ CheckWayIn(p) \/ ReadRole(p) \/ ReadForRemoval(p) \/ ReadForBan(p)
           \/ ReadEligible(p) \/ LockFirst(p) \/ LockSecond(p) \/ Abandon(p)
  BY <1>7 DEF CheckWayIn, ReadRole, ReadForRemoval, ReadForBan, ReadEligible, LockFirst,
     LockSecond, Abandon, tables
<1>8. CASE \/ FileJoinRequest(p) \/ Bar(p) \/ Unask(p) \/ Lift(p) \/ FileEboardRequest(p)
           \/ DecideEboard(p) \/ InsertEboardMember(p) \/ DeleteEboardMember(p)
  BY <1>8 DEF FileJoinRequest, Bar, Unask, Lift, FileEboardRequest, DecideEboard,
     InsertEboardMember, DeleteEboardMember
<1>9. QED
  BY <1>3, <1>4, <1>5, <1>6, <1>7, <1>8 DEF Step

\* Any other step hands the club over, drops it, or deletes one account.
LEMMA OwnersMove ==
  ASSUME CoreInv, [Next]_vars
  PROVE  \/ SameOwners /\ UNCHANGED <<club, deleted>>
         \/ ~club' /\ \A u \in Users : role'[u] # "owner"
         \/ \E u \in Users : Deletes(u) /\ club' = club
         \/ \E a, u \in Users : HandsOver(a, u) /\ UNCHANGED <<club, deleted>>
<1>1. CASE UNCHANGED vars
  BY <1>1 DEF vars, tables, SameOwners
<1>2. ASSUME NEW p \in Procs, Drop(p)
      PROVE  ~club' /\ \A u \in Users : role'[u] # "owner"
  BY <1>2 DEF Drop
<1>3. ASSUME NEW p \in Procs, Erase(p)
      PROVE  \E u \in Users : Deletes(u) /\ club' = club
  <2>1. TypeOK /\ work[p].who \in Users
    BY <1>3, Working DEF CoreInv, Erase, At
  <2>2. Deletes(work[p].who) /\ club' = club
    BY <1>3, <2>1 DEF Erase, Deletes, TypeOK
  <2>3. QED
    BY <2>1, <2>2
<1>4. ASSUME NEW p \in Procs, Transfer(p)
      PROVE  \/ SameOwners /\ UNCHANGED <<club, deleted>>
             \/ \E a, u \in Users : HandsOver(a, u) /\ UNCHANGED <<club, deleted>>
  <2> DEFINE r == work[p]
  <2>1. /\ TypeOK /\ r.who \in Users /\ r.by \in Users
        /\ r.who # r.by
    BY <1>4, Working DEF CoreInv, Transfer, At, RequestInv, RequestOK
  <2>2. UNCHANGED <<club, deleted>>
    BY <1>4 DEF Transfer
  <2>3. CASE r.seen # "none" /\ r.mine = "owner"
    <3>1. role[r.by] = "owner" /\ role[r.who] # "none"
      BY <1>4, <2>3 DEF CoreInv, HeldInv, Transfer, At, Holds
    <3>2. HandsOver(r.by, r.who)
      BY <1>4, <2>1, <2>3, <3>1 DEF Transfer, HandsOver, TypeOK
    <3>3. QED
      BY <2>1, <2>2, <3>2
  <2>4. CASE ~(r.seen # "none" /\ r.mine = "owner")
    BY <1>4, <2>2, <2>4 DEF Transfer, SameOwners
  <2>5. QED
    BY <2>3, <2>4
<1>5. ASSUME NEW p \in Procs, Command(p) \/ Step(p) \/ Abandon(p),
             ~Drop(p), ~Erase(p), ~Transfer(p)
      PROVE  SameOwners /\ UNCHANGED <<club, deleted>>
  BY <1>5, OwnersStay
<1>6. QED
  BY <1>1, <1>2, <1>3, <1>4, <1>5 DEF Next

\* The club never has two Owners, and has one as long as it exists and no account has
\* been deleted: whatever transfers, role changes, removals and departures interleave.
THEOREM OwnedUntilDeletion == Spec => []OneOwnerUntilDeletion
<1>1. IInv /\ [Next]_vars => IInv'
  <2> SUFFICES ASSUME IInv, [Next]_vars PROVE IInv'
    OBVIOUS
  <2>1. CoreInv /\ CoreInv'
    BY CoreStep DEF IInv
  <2>2. OneOwnerUntilDeletion'
    <3>1. OneOwnerUntilDeletion
      BY DEF IInv
    <3>2. CASE SameOwners /\ UNCHANGED <<club, deleted>>
      BY <3>1, <3>2 DEF SameOwners, OneOwnerUntilDeletion, Owners
    <3>3. CASE ~club' /\ \A u \in Users : role'[u] # "owner"
      BY <3>3 DEF OneOwnerUntilDeletion, Owners
    <3>4. ASSUME NEW u \in Users, Deletes(u), club' = club PROVE OneOwnerUntilDeletion'
      BY <3>1, <3>4 DEF Deletes, OneOwnerUntilDeletion, Owners
    <3>5. ASSUME NEW a \in Users, NEW u \in Users, HandsOver(a, u)
          PROVE  OneOwnerUntilDeletion'
      BY <3>1, <3>5 DEF HandsOver, OneOwnerUntilDeletion, Owners
    <3>6. QED
      BY <2>1, <3>2, <3>3, <3>4, <3>5, OwnersMove
  <2>3. QED
    BY <2>1, <2>2 DEF IInv
<1>2. IInv => OneOwnerUntilDeletion
  BY DEF IInv
<1>3. QED
  BY InvInit, <1>1, <1>2, PTL DEF Spec

\* Ownership leaves somebody only for another user who is in the club, or with the club
\* or the account.
THEOREM OwnershipHandedOver == Spec => OwnershipMoves
<1>1. CoreInv /\ [Next]_vars
      => [\A u \in Owners : role'[u] # "owner" =>
             \/ ~club' \/ u \in deleted'
             \/ \E v \in Users \ {u} : role[v] # "none" /\ role'[v] = "owner"]_vars
  <2> SUFFICES ASSUME CoreInv, [Next]_vars, NEW u \in Owners, role'[u] # "owner"
               PROVE  \/ ~club' \/ u \in deleted'
                      \/ \E v \in Users \ {u} : role[v] # "none" /\ role'[v] = "owner"
    OBVIOUS
  <2>1. u \in Users /\ role[u] = "owner"
    BY DEF Owners
  <2>2. ASSUME NEW v \in Users, Deletes(v) PROVE u \in deleted'
    BY <2>1, <2>2 DEF Deletes
  <2>3. ASSUME NEW a \in Users, NEW v \in Users, HandsOver(a, v)
        PROVE  v \in Users \ {u} /\ role[v] # "none" /\ role'[v] = "owner"
    BY <2>1, <2>3 DEF HandsOver
  <2>4. QED
    BY <2>1, <2>2, <2>3, OwnersMove DEF SameOwners
<1>2. Init => CoreInv
  BY InvInit DEF IInv
<1>3. CoreInv /\ [Next]_vars => CoreInv'
  BY CoreStep
<1>4. QED
  BY <1>1, <1>2, <1>3, PTL DEF Spec, OwnershipMoves
-------------------------------------------------------------------------------
(* Requests to join, and bans. *)

\* Every step that is not about a join request leaves the requests and their events alone,
\* or only clears the pending rows of the user it removes.
LEMMA AsksStay ==
  ASSUME NEW p \in Procs, Command(p) \/ Step(p) \/ Abandon(p), TypeOK,
         ~FileJoinRequest(p), ~Decide(p), ~WritePolicy(p), ~Drop(p)
  PROVE  decisions' = decisions /\ (asks' = asks \/ \E u : asks' = ClearFor(asks, u))
<1>1. CASE Command(p)
  BY <1>1, CommandShape DEF Accepted, tables
<1>2. CASE Unask(p) \/ CascadeOut(p)
  BY <1>2 DEF Unask, CascadeOut
<1>3. CASE \/ CheckWayIn(p) \/ ReadRole(p) \/ ReadForRemoval(p) \/ ReadForBan(p)
           \/ ReadEligible(p) \/ LockFirst(p) \/ LockSecond(p) \/ Abandon(p)
  BY <1>3 DEF CheckWayIn, ReadRole, ReadForRemoval, ReadForBan, ReadEligible, LockFirst,
     LockSecond, Abandon, tables
<1>4. CASE \/ Admit(p) \/ WriteRole(p) \/ Transfer(p) \/ Bar(p) \/ Lift(p) \/ Erase(p)
           \/ FileEboardRequest(p) \/ DecideEboard(p) \/ InsertEboardMember(p)
           \/ DeleteEboardMember(p)
  BY <1>4 DEF Admit, WriteRole, Transfer, Bar, Lift, Erase, FileEboardRequest, DecideEboard,
     InsertEboardMember, DeleteEboardMember
<1>5. QED
  BY <1>1, <1>2, <1>3, <1>4 DEF Step

\* However many admins decide a request, and whether the club opens meanwhile, the request
\* is announced exactly once, and only if it was approved or denied.
THEOREM DecidedExactlyOnce == Spec => []DecidedOnce
<1>1. Init => DecidedOnce
  BY DEF Init, DecidedOnce
<1>2. CoreInv /\ DecidedOnce /\ [Next]_vars => DecidedOnce'
  <2> SUFFICES ASSUME CoreInv, DecidedOnce, [Next]_vars PROVE DecidedOnce'
    OBVIOUS
  <2>1. TypeOK
    BY DEF CoreInv
  <2>2. CASE UNCHANGED vars
    BY <2>2 DEF vars, tables, DecidedOnce
  <2>3. ASSUME NEW p \in Procs, FileJoinRequest(p) PROVE DecidedOnce'
    <3>1. \A i \in Ids : i = <<i[1], i[2]>>
      BY DEF Ids
    <3>2. ASSUME NEW u, NEW i \in Ids
          PROVE  \/ FileFor(asks, u)[i] = asks[i]
                 \/ asks[i] = "unfiled" /\ FileFor(asks, u)[i] = "pending"
      <4> DEFINE free == {k \in 1..MaxAsks : asks[<<u, k>>] = "unfiled" /\ ~Pending(asks, u)}
                 filed == i[1] = u /\ i[2] \in free /\ \A k \in free : i[2] <= k
      <4>1. FileFor(asks, u)[i] = IF filed THEN "pending" ELSE asks[i]
        BY DEF FileFor
      <4>2. filed => asks[<<i[1], i[2]>>] = "unfiled"
        OBVIOUS
      <4>3. QED
        BY <3>1, <4>1, <4>2
    <3>3. QED
      BY <2>3, <3>2 DEF FileJoinRequest, DecidedOnce
  <2>4. ASSUME NEW p \in Procs, Decide(p) PROVE DecidedOnce'
    BY <2>1, <2>4 DEF Decide, DecidedOnce, TypeOK
  <2>5. ASSUME NEW p \in Procs, WritePolicy(p) PROVE DecidedOnce'
    BY <2>1, <2>5 DEF WritePolicy, DecidedOnce, TypeOK
  <2>6. ASSUME NEW p \in Procs, Drop(p) PROVE DecidedOnce'
    BY <2>6 DEF Drop, DecidedOnce
  <2>7. ASSUME NEW p \in Procs, Command(p) \/ Step(p) \/ Abandon(p),
               ~FileJoinRequest(p), ~Decide(p), ~WritePolicy(p), ~Drop(p)
        PROVE  DecidedOnce'
    <3>1. decisions' = decisions /\ (asks' = asks \/ \E u : asks' = ClearFor(asks, u))
      BY <2>1, <2>7, AsksStay
    <3>2. \A u : \A i \in Ids : ClearFor(asks, u)[i] \in {"approved", "denied"}
                                <=> asks[i] \in {"approved", "denied"}
      BY DEF ClearFor
    <3>3. QED
      BY <3>1, <3>2 DEF DecidedOnce
  <2>8. QED
    BY <2>2, <2>3, <2>4, <2>5, <2>6, <2>7 DEF Next
<1>3. Init => CoreInv
  BY InvInit DEF IInv
<1>4. CoreInv /\ [Next]_vars => CoreInv'
  BY CoreStep
<1>5. QED
  BY <1>1, <1>2, <1>3, <1>4, PTL DEF Spec

\* A request gets past the ban check only as the check finds no ban.
LEMMA WayInChecked ==
  ASSUME CoreInv, NEW p \in Procs, Command(p) \/ Step(p) \/ Abandon(p), NEW q \in Procs,
         work'[q].at \in {"admit", "file"}
  PROVE  work'[q] = work[q] \/ work'[q].who \notin banned
<1>1. TypeOK
  BY DEF CoreInv
<1>2. CASE CheckWayIn(p)
  <2> DEFINE r == Request(work[p].arg, work[p].who, "")
  <2>1. r.who = work[p].who
    BY DEF Request, FullRequest
  <2>2. \/ work' = [work EXCEPT ![p] = r] /\ work[p].who \notin banned
       \/ End(p)
    BY <1>2 DEF CheckWayIn
  <2> HIDE DEF r
  <2>3. QED
    BY <1>1, <2>1, <2>2 DEF End, Idle, TypeOK
<1>3. CASE Command(p)
  BY <1>1, <1>3, CommandShape DEF Accepted, TypeOK
<1>4. CASE ReadRole(p) \/ LockFirst(p) \/ LockSecond(p) \/ ReadEligible(p)
  <2>1. work[p] \in Requests
    BY <1>1, <1>4, Working DEF ReadRole, LockFirst, LockSecond, ReadEligible, At
  <2>2. QED
    BY <1>1, <1>4, <2>1 DEF ReadRole, LockFirst, LockSecond, ReadEligible, Goto, End, Idle,
       TypeOK, Requests
<1>5. CASE ReadForRemoval(p) \/ ReadForBan(p) \/ Bar(p)
  <2>1. PICK r : work' = [work EXCEPT ![p] = r] /\ r.at \notin {"admit", "file"}
    <3>1. \/ \E r : r.at = "idle" /\ work' = [work EXCEPT ![p] = r]
          \/ \E at \in {"cascade", "unask"} : work' = [work EXCEPT ![p] = Request(at, work[p].who, "")]
          \/ \E u, seen : work' = [work EXCEPT ![p] = FullRequest("bar", u, u, "", 0, seen)]
      BY <1>5 DEF ReadForRemoval, ReadForBan, Bar, End, Idle
    <3>2. ASSUME NEW at \in {"cascade", "unask"} PROVE Request(at, work[p].who, "").at = at
      BY DEF Request, FullRequest
    <3>3. ASSUME NEW u, NEW seen PROVE FullRequest("bar", u, u, "", 0, seen).at = "bar"
      BY DEF FullRequest
    <3>4. QED
      BY <3>1, <3>2, <3>3, Zenon
  <2>2. QED
    BY <1>1, <2>1 DEF TypeOK
<1>6. CASE End(p)
  BY <1>1, <1>6 DEF End, Idle, TypeOK
<1>7. QED
  BY <1>2, <1>3, <1>4, <1>5, <1>6 DEF Step, Admit, FileJoinRequest, Decide, WritePolicy,
     WriteRole, Transfer, CascadeOut, Unask, Lift, Drop, Erase, FileEboardRequest,
     DecideEboard, InsertEboardMember, DeleteEboardMember, Abandon

\* Somebody outside who is not waiting, and whom no request lets in, is not given a role.
LEMMA StaysOut ==
  ASSUME CoreInv, NEW p \in Procs, Command(p) \/ Step(p) \/ Abandon(p),
         NEW u \in Users, ShutOut(u)
  PROVE  role'[u] = "none"
<1>1. /\ TypeOK /\ role[u] = "none" /\ ~Pending(asks, u)
      /\ ~(work[p].at \in {"admit", "file"} /\ work[p].who = u)
  BY DEF CoreInv, ShutOut
<1>2. \A us : u \notin us => WithMembers(us)[u] = "none"
  BY <1>1 DEF WithMembers
<1>3. \A i \in Ids : asks[i] = "pending" => i[1] # u
  BY <1>1 DEF Pending, Ids
<1>4. CASE Command(p)
  BY <1>1, <1>4, CommandShape DEF Accepted, tables
<1>5. CASE Admit(p)
  BY <1>1, <1>2, <1>5 DEF Admit, At
<1>6. CASE Decide(p)
  <2>1. <<work[p].who, work[p].ask>> \in Ids
    BY <1>6 DEF CoreInv, RequestInv, RequestOK, Decide, At
  <2>2. asks[<<work[p].who, work[p].ask>>] = "pending" => work[p].who # u
    BY <1>3, <2>1
  <2>3. QED
    BY <1>1, <1>2, <1>6, <2>2 DEF Decide
<1>7. CASE WritePolicy(p)
  <2>1. u \notin {i[1] : i \in {j \in Ids : asks[j] = "pending"}}
    BY <1>3
  <2>2. QED
    BY <1>1, <1>2, <1>7, <2>1 DEF WritePolicy
<1>8. CASE WriteRole(p)
  <2>1. work[p].seen # "none"
    BY <1>8 DEF CoreInv, RequestInv, RequestOK, WriteRole, At
  <2>2. QED
    BY <1>1, <1>8, <2>1 DEF WriteRole, TypeOK
<1>9. CASE Transfer(p)
  <2>1. work[p].seen # "none" /\ work[p].mine = "owner"
           => role[work[p].who] # "none" /\ role[work[p].by] # "none"
    BY <1>9 DEF CoreInv, HeldInv, Holds, Transfer, At
  <2>2. QED
    BY <1>1, <1>9, <2>1 DEF Transfer, TypeOK
<1>10. CASE CascadeOut(p) \/ Drop(p) \/ Erase(p)
  BY <1>1, <1>10 DEF CascadeOut, Drop, Erase, TypeOK
<1>11. CASE \/ CheckWayIn(p) \/ ReadRole(p) \/ ReadForRemoval(p) \/ ReadForBan(p)
            \/ ReadEligible(p) \/ LockFirst(p) \/ LockSecond(p) \/ Abandon(p)
  BY <1>1, <1>11 DEF CheckWayIn, ReadRole, ReadForRemoval, ReadForBan, ReadEligible, LockFirst,
     LockSecond, Abandon, tables
<1>12. CASE \/ FileJoinRequest(p) \/ Bar(p) \/ Unask(p) \/ Lift(p) \/ FileEboardRequest(p)
            \/ DecideEboard(p) \/ InsertEboardMember(p) \/ DeleteEboardMember(p)
  BY <1>1, <1>12 DEF FileJoinRequest, Bar, Unask, Lift, FileEboardRequest, DecideEboard,
     InsertEboardMember, DeleteEboardMember
<1>13. QED
  BY <1>4, <1>5, <1>6, <1>7, <1>8, <1>9, <1>10, <1>11, <1>12 DEF Step

\* Nor does a request of theirs become pending.
LEMMA StaysUnasked ==
  ASSUME CoreInv, NEW p \in Procs, Command(p) \/ Step(p) \/ Abandon(p),
         NEW u \in Users, ShutOut(u)
  PROVE  ~Pending(asks', u)
<1> SUFFICES ASSUME NEW k \in 1..MaxAsks PROVE asks'[<<u, k>>] # "pending"
  BY DEF Pending
<1>1. /\ TypeOK /\ asks[<<u, k>>] # "pending" /\ <<u, k>> \in Ids
      /\ ~(work[p].at = "file" /\ work[p].who = u)
  BY DEF CoreInv, ShutOut, Pending, Ids
<1>2. CASE FileJoinRequest(p)
  <2>1. work[p].who # u
    BY <1>1, <1>2 DEF FileJoinRequest, At
  <2>2. FileFor(asks, work[p].who)[<<u, k>>] = asks[<<u, k>>]
    BY <1>1, <2>1 DEF FileFor
  <2>3. QED
    BY <1>1, <1>2, <2>2 DEF FileJoinRequest
<1>3. CASE Decide(p) \/ WritePolicy(p) \/ Drop(p)
  BY <1>1, <1>3 DEF Decide, WritePolicy, Drop, TypeOK
<1>4. CASE ~FileJoinRequest(p) /\ ~Decide(p) /\ ~WritePolicy(p) /\ ~Drop(p)
  <2>1. asks' = asks \/ \E v : asks' = ClearFor(asks, v)
    BY <1>1, <1>4, AsksStay
  <2>2. \A v : ClearFor(asks, v)[<<u, k>>] # "pending"
    BY <1>1 DEF ClearFor
  <2>3. QED
    BY <1>1, <2>1, <2>2
<1>5. QED
  BY <1>2, <1>3, <1>4

\* A ban is durable: once somebody is outside, barred, without a pending request and past
\* no check, no interleaving lets them back in before the ban is lifted.
THEOREM BansHold == Spec => BanIsDurable
<1>1. CoreInv /\ [Next]_vars
      => [\A u \in Users : ShutOut(u) => ShutOut(u)' \/ u \notin banned']_vars
  <2> SUFFICES ASSUME CoreInv, NEW p \in Procs, Command(p) \/ Step(p) \/ Abandon(p),
                      NEW u \in Users, ShutOut(u), u \in banned'
               PROVE  ShutOut(u)'
    BY DEF Next
  <2>1. role'[u] = "none" /\ ~Pending(asks', u)
    BY StaysOut, StaysUnasked
  <2>2. \A q \in Procs : ~(work'[q].at \in {"admit", "file"} /\ work'[q].who = u)
    BY WayInChecked DEF ShutOut
  <2>3. QED
    BY <2>1, <2>2 DEF ShutOut, Pending
<1>2. Init => CoreInv
  BY InvInit DEF IInv
<1>3. CoreInv /\ [Next]_vars => CoreInv'
  BY CoreStep
<1>4. QED
  BY <1>1, <1>2, <1>3, PTL DEF Spec, BanIsDurable
-------------------------------------------------------------------------------
(* Transfers do not wait in a circle. *)

\* Only a transfer holds rows: its first one while it waits for the second.
HoldersTransfer ==
    \A u \in Users : lock[u] # NoProc =>
        \/ work[lock[u]].at = "lockSecond" /\ u = First(work[lock[u]])
        \/ work[lock[u]].at = "transfer"

\* A set of naturals has a least element, and a finite one a greatest.
LEMMA Least ==
  ASSUME NEW S \in SUBSET Nat, S # {}
  PROVE  \E m \in S : \A k \in S : m <= k
<1> DEFINE R == OpToRel(<, Nat)
<1>1. IsWellFoundedOn(R, Nat)
  BY NatLessThanWellFounded
<1>2. \A x, y \in Nat : y < x => <<y, x>> \in R
  BY DEF OpToRel
<1> HIDE DEF R
<1>3. PICK x \in S : \A y \in S : ~(<<y, x>> \in R)
  BY <1>1, WFMin
<1>4. \A y \in S : ~(y < x)
  BY <1>2, <1>3
<1>5. QED
  BY <1>4

LEMMA Greatest ==
  ASSUME NEW S \in SUBSET Nat, S # {}, IsFiniteSet(S)
  PROVE  \E m \in S : \A k \in S : k <= m
<1> DEFINE above == [m \in S |-> Cardinality({k \in S : k > m})]
           C == {above[m] : m \in S}
<1>1. \A m \in S : IsFiniteSet({k \in S : k > m}) /\ above[m] \in Nat
  BY FS_Subset, FS_CardinalityType
<1>2. PICK m \in S : \A k \in S : above[m] <= above[k]
  <2>1. C \in SUBSET Nat /\ C # {}
    BY <1>1
  <2>2. PICK c \in C : \A d \in C : c <= d
    <3> HIDE DEF C
    <3> QED BY <2>1, Least
  <2>3. QED
    BY <2>2
<1>3. SUFFICES ASSUME NEW k \in S, k > m PROVE FALSE
  BY <1>2
<1>4. {j \in S : j > k} \subseteq {j \in S : j > m} /\ {j \in S : j > k} # {j \in S : j > m}
  <2>1. k \in {j \in S : j > m} /\ k \notin {j \in S : j > k}
    BY <1>3
  <2>2. \A j \in S : j > k => j > m
    BY <1>3
  <2>3. QED
    BY <2>1, <2>2
<1>5. above[k] < above[m]
  <2> DEFINE A == {j \in S : j > k}
             B == {j \in S : j > m}
  <2>1. A \in SUBSET B /\ IsFiniteSet(B) /\ A # B
    BY <1>1, <1>4
  <2>2. above[k] = Cardinality(A) /\ above[m] = Cardinality(B)
    OBVIOUS
  <2>3. above[k] \in Nat /\ above[m] \in Nat
    BY <1>1
  <2> HIDE DEF A, B, above
  <2>4. QED
    BY <2>1, <2>2, <2>3, FS_Subset
<1>6. QED
  BY <1>1, <1>2, <1>5

\* A step of a process that holds nothing leaves the rows with their holders.
LEMMA OthersHold ==
  ASSUME TypeOK, HoldersTransfer, NEW p \in Procs, lock' = lock,
         work[p].at \notin {"lockSecond", "transfer"},
         \A q \in Procs \ {p} : work'[q] = work[q]
  PROVE  HoldersTransfer'
<1> SUFFICES ASSUME NEW u \in Users, lock[u] # NoProc
             PROVE  lock[u] \in Procs \ {p} /\ work'[lock[u]] = work[lock[u]]
  BY DEF HoldersTransfer, First
<1>1. lock[u] \in Procs /\ lock[u] # p
  BY DEF TypeOK, HoldersTransfer
<1>2. QED
  BY <1>1

\* A process that ends gives its rows back.
LEMMA GivesBack ==
  ASSUME TypeOK, HoldersTransfer, NEW p \in Procs, lock' = Unlocked(p), End(p)
  PROVE  HoldersTransfer'
<1> SUFFICES ASSUME NEW u \in Users, lock'[u] # NoProc
             PROVE  lock'[u] = lock[u] /\ lock[u] # NoProc /\ work'[lock[u]] = work[lock[u]]
  BY DEF HoldersTransfer, First
<1>1. lock'[u] = lock[u] /\ lock[u] # p /\ lock[u] \in Procs
  BY DEF Unlocked, TypeOK
<1>2. QED
  BY <1>1 DEF End, TypeOK

LEMMA HoldersStep ==
  ASSUME TypeOK, HoldersTransfer, [Next]_vars
  PROVE  HoldersTransfer'
<1>1. ASSUME NEW p \in Procs, Command(p) PROVE HoldersTransfer'
  <2>1. work[p] = Idle
    BY <1>1, CommandIdle
  <2>2. PICK r : Accepted(p, r)
    BY <1>1, CommandShape
  <2>3. QED
    BY <2>1, <2>2, OthersHold DEF Accepted, TypeOK, Idle
<1>2. ASSUME NEW p \in Procs,
             \/ CheckWayIn(p) \/ Admit(p) \/ FileJoinRequest(p) \/ Decide(p) \/ WritePolicy(p)
             \/ ReadRole(p) \/ WriteRole(p)
      PROVE  HoldersTransfer'
  BY <1>2, OthersHold DEF CheckWayIn, Admit, FileJoinRequest, Decide, WritePolicy, ReadRole,
     WriteRole, At, End, TypeOK
<1>3. ASSUME NEW p \in Procs,
             \/ ReadForRemoval(p) \/ CascadeOut(p) \/ ReadForBan(p) \/ Bar(p) \/ Unask(p)
             \/ Lift(p) \/ Drop(p) \/ Erase(p)
      PROVE  HoldersTransfer'
  BY <1>3, OthersHold DEF ReadForRemoval, CascadeOut, ReadForBan, Bar, Unask, Lift, Drop, Erase,
     At, End, TypeOK
<1>4. ASSUME NEW p \in Procs,
             \/ FileEboardRequest(p) \/ DecideEboard(p) \/ ReadEligible(p)
             \/ InsertEboardMember(p) \/ DeleteEboardMember(p)
      PROVE  HoldersTransfer'
  BY <1>4, OthersHold DEF FileEboardRequest, DecideEboard, ReadEligible, InsertEboardMember,
     DeleteEboardMember, At, End, Goto, TypeOK
<1>5. ASSUME NEW p \in Procs, LockFirst(p) PROVE HoldersTransfer'
  <2>1. work[p] \in Requests /\ First(work[p]) \in Users /\ work[p].at = "lockFirst"
    BY <1>5, Working DEF LockFirst, At, First
  <2>2. /\ work'[p].at = "lockSecond" /\ First(work'[p]) = First(work[p])
        /\ \A q \in Procs \ {p} : work'[q] = work[q]
    BY <1>5, <2>1 DEF LockFirst, TypeOK, Requests, First
  <2>3. SUFFICES ASSUME NEW u \in Users, lock'[u] # NoProc
                 PROVE  \/ work'[lock'[u]].at = "lockSecond" /\ u = First(work'[lock'[u]])
                        \/ work'[lock'[u]].at = "transfer"
    BY DEF HoldersTransfer, First
  <2>4. \/ lock'[u] = p /\ u = First(work[p])
        \/ lock'[u] = lock[u]
    BY <1>5, <2>1 DEF LockFirst, TypeOK
  <2>5. CASE lock'[u] = lock[u]
    <3>1. lock[u] \in Procs \ {p}
      BY <2>1, <2>3, <2>5 DEF TypeOK, HoldersTransfer
    <3>2. QED
      BY <2>2, <2>3, <2>5, <3>1 DEF HoldersTransfer
  <2>6. QED
    BY <2>2, <2>4, <2>5
<1>6. ASSUME NEW p \in Procs, LockSecond(p) PROVE HoldersTransfer'
  <2>1. work[p] \in Requests /\ Second(work[p]) \in Users
    BY <1>6, Working DEF LockSecond, At, First, Second
  <2>2. work'[p].at = "transfer" /\ \A q \in Procs \ {p} : work'[q] = work[q]
    BY <1>6, <2>1 DEF LockSecond, TypeOK, Requests
  <2>3. \A u \in Users : lock'[u] \in {p, lock[u]}
    BY <1>6, <2>1 DEF LockSecond, TypeOK
  <2>4. SUFFICES ASSUME NEW u \in Users, lock'[u] # NoProc, lock'[u] # p
                 PROVE  \/ work'[lock'[u]].at = "lockSecond" /\ u = First(work'[lock'[u]])
                        \/ work'[lock'[u]].at = "transfer"
    BY <2>2 DEF HoldersTransfer, First
  <2>5. lock'[u] = lock[u] /\ lock[u] \in Procs \ {p}
    BY <2>3, <2>4 DEF TypeOK
  <2>6. QED
    BY <2>2, <2>4, <2>5 DEF HoldersTransfer
<1>7. ASSUME NEW p \in Procs, Transfer(p) \/ Abandon(p) PROVE HoldersTransfer'
  BY <1>7, GivesBack DEF Transfer, Abandon
<1>8. CASE UNCHANGED vars
  BY <1>8 DEF HoldersTransfer, First, vars
<1>9. QED
  BY <1>1, <1>2, <1>3, <1>4, <1>5, <1>6, <1>7, <1>8 DEF Next, Step

\* LocksDrain: transferOwnership takes its two rows in the order of the users' ids, so of
\* the holders the one with the greatest row waits for nobody, whatever transfers are in
\* progress between whichever users.
THEOREM TransfersDrain == Spec => []LocksDrain
<1>1. CoreInv /\ HoldersTransfer => LocksDrain
  <2>1. SUFFICES ASSUME CoreInv, HoldersTransfer, \E u \in Users : ~Free(u)
                 PROVE  \E u \in Users : ~Free(u) /\ ~Waiting(lock[u])
    BY DEF LocksDrain
  <2> DEFINE Held == {u \in Users : ~Free(u)}
  <2>2. Held \in SUBSET Nat /\ Held # {} /\ IsFiniteSet(Held)
    BY <2>1, MembershipAssumption, FS_Subset
  <2>3. PICK u \in Held : \A v \in Held : v <= u
    <3> HIDE DEF Held
    <3> QED BY <2>2, Greatest
  <2>4. SUFFICES ASSUME Waiting(lock[u]) PROVE FALSE
    OBVIOUS
  <2> DEFINE p == lock[u]
             r == work[p]
  <2>5. p \in Procs
    BY <2>1, <2>3 DEF CoreInv, TypeOK, Free
  <2>6. r.at = "lockSecond" /\ u = First(r) /\ ~Free(Second(r))
    BY <2>1, <2>3, <2>4 DEF HoldersTransfer, Waiting, Free
  <2>7. r.who \in Users /\ r.by \in Users /\ r.who # r.by
    BY <2>1, <2>5, <2>6, Working DEF CoreInv, RequestInv, RequestOK
  <2>8. r.who \in Nat /\ r.by \in Nat
    BY <2>7, MembershipAssumption
  <2>9. First(r) < Second(r) /\ Second(r) \in Users /\ First(r) \in Nat /\ Second(r) \in Nat
    BY <2>7, <2>8 DEF First, Second
  <2>10. Second(r) <= First(r)
    BY <2>3, <2>6, <2>9
  <2>11. QED
    BY <2>9, <2>10
<1>2. Init => CoreInv /\ HoldersTransfer
  BY InvInit DEF IInv, Init, HoldersTransfer
<1>3. CoreInv /\ HoldersTransfer /\ [Next]_vars => CoreInv' /\ HoldersTransfer'
  BY CoreStep, HoldersStep DEF CoreInv
<1>4. QED
  BY <1>1, <1>2, <1>3, PTL DEF Spec

(***************************************************************************)
(* Who leaves a club stops reading it only if the gateway's records of its *)
(* sockets are right.  GatewaySubscriptions is instantiated beside the     *)
(* roster; its users are the same.                                         *)
(***************************************************************************)
CONSTANTS Sockets, SocketOwners, MaxFrames, MaxChanges
VARIABLES owner, open, subscribed, sockets, pc, toRedis, topic, fromRedis, connected, hearing, joined,
          member, revoking, frames, changes, stale, unheard, crossed

Gateway == INSTANCE GatewaySubscriptions

USE DEF Gateway!socketVars, Gateway!linkVars, Gateway!redisVars, Gateway!memberVars, Gateway!history

Commands == [cmd : {"subscribe"}, for : Sockets] \union {Gateway!Unsubscribe}
Answers == [t : {"accepted", "refused"}, for : Sockets] \union {Gateway!Unsubscribed}
Instructions == [t : {"revoke"}, for : Users]

\* Where the elements of V stand in q, and that there is one at most.
Places(q, V) == {i \in DOMAIN q : q[i] \in V}
Lone(q, V) == \A i, j \in Places(q, V) : i = j

LEMMA AppendIn ==
  ASSUME NEW T, NEW q \in Seq(T), NEW v \in T, NEW V, v \in V, Places(q, V) = {}
  PROVE  Places(Append(q, v), V) # {} /\ Lone(Append(q, v), V)
<1> DEFINE a == Append(q, v)
<1>1. DOMAIN a = 1..(Len(q) + 1) /\ DOMAIN q = 1..Len(q) /\ Len(q) \in Nat
  OBVIOUS
<1>2. a[Len(q) + 1] = v /\ \A i \in 1..Len(q) : a[i] = q[i]
  OBVIOUS
<1> HIDE DEF a
<1>3. Places(a, V) = {Len(q) + 1}
  <2>1. \A i \in 1..(Len(q) + 1) : i = Len(q) + 1 \/ i \in 1..Len(q)
    BY <1>1
  <2>2. \A i \in 1..Len(q) : q[i] \notin V
    BY <1>1 DEF Places
  <2>3. Len(q) + 1 \in 1..(Len(q) + 1)
    BY <1>1
  <2> QED BY <1>1, <1>2, <2>1, <2>2, <2>3 DEF Places
<1>4. Places(a, V) # {} /\ Lone(a, V)
  BY <1>3 DEF Lone
<1> QED BY <1>4 DEF a

LEMMA AppendOut ==
  ASSUME NEW T, NEW q \in Seq(T), NEW v \in T, NEW V, v \notin V
  PROVE  Places(Append(q, v), V) = Places(q, V)
<1> DEFINE a == Append(q, v)
<1>1. DOMAIN a = 1..(Len(q) + 1) /\ DOMAIN q = 1..Len(q) /\ Len(q) \in Nat
  OBVIOUS
<1>2. a[Len(q) + 1] = v /\ \A i \in 1..Len(q) : a[i] = q[i]
  OBVIOUS
<1> HIDE DEF a
<1>3. \A i \in 1..(Len(q) + 1) : i = Len(q) + 1 \/ i \in 1..Len(q)
  BY <1>1
<1>4. \A i \in 1..Len(q) : i \in 1..(Len(q) + 1)
  BY <1>1
<1>5. Places(a, V) = Places(q, V)
  BY <1>1, <1>2, <1>3, <1>4 DEF Places
<1> QED BY <1>5 DEF a

\* q without its i-th element.
Without(q, i, r) ==
  /\ DOMAIN r = 1..(Len(q) - 1)
  /\ \A j \in 1..(Len(q) - 1) : r[j] = IF j < i THEN q[j] ELSE q[j + 1]

LEMMA WithoutIn ==
  ASSUME NEW T, NEW q \in Seq(T), NEW i \in 1..Len(q), NEW r, Without(q, i, r), NEW V,
         q[i] \in V, Lone(q, V)
  PROVE  Places(r, V) = {}
<1>1. DOMAIN q = 1..Len(q) /\ Len(q) \in Nat
  OBVIOUS
<1>2. i \in Places(q, V)
  BY <1>1 DEF Places
<1> SUFFICES ASSUME NEW j \in Places(r, V) PROVE FALSE
  OBVIOUS
<1>3. j \in 1..(Len(q) - 1) /\ r[j] \in V
  BY DEF Places, Without
<1>4. CASE j < i
  <2>1. j \in 1..Len(q) /\ q[j] \in V
    BY <1>1, <1>3, <1>4 DEF Without
  <2> QED BY <1>1, <1>2, <1>4, <2>1 DEF Places, Lone
<1>5. CASE ~(j < i)
  <2>1. j + 1 \in 1..Len(q) /\ q[j + 1] \in V
    BY <1>1, <1>3, <1>5 DEF Without
  <2>2. j + 1 # i
    BY <1>3, <1>5
  <2> QED BY <1>1, <1>2, <2>1, <2>2 DEF Places, Lone
<1> QED BY <1>4, <1>5

LEMMA WithoutOut ==
  ASSUME NEW T, NEW q \in Seq(T), NEW i \in 1..Len(q), NEW r, Without(q, i, r), NEW V, q[i] \notin V
  PROVE  /\ Places(r, V) = {} <=> Places(q, V) = {}
         /\ Lone(q, V) => Lone(r, V)
<1> DEFINE from(j) == IF j < i THEN j ELSE j + 1
<1>1. DOMAIN q = 1..Len(q) /\ Len(q) \in Nat
  OBVIOUS
<1>2. \A j \in Places(r, V) : j \in Nat /\ from(j) \in Places(q, V)
  <2> SUFFICES ASSUME NEW j \in Places(r, V) PROVE j \in Nat /\ from(j) \in Places(q, V)
    OBVIOUS
  <2>1. j \in 1..(Len(q) - 1) /\ r[j] \in V
    BY DEF Places, Without
  <2>2. r[j] = q[from(j)]
    BY <2>1 DEF Without
  <2>3. from(j) \in 1..Len(q)
    BY <1>1, <2>1
  <2> HIDE DEF from
  <2> QED BY <1>1, <2>1, <2>2, <2>3 DEF Places
<1>3. \A k \in Places(q, V) : \E j \in Places(r, V) : TRUE
  <2> SUFFICES ASSUME NEW k \in Places(q, V) PROVE \E j \in Places(r, V) : TRUE
    OBVIOUS
  <2>1. k \in 1..Len(q) /\ q[k] \in V /\ k # i
    BY <1>1 DEF Places
  <2>2. CASE k < i
    <3>1. k \in 1..(Len(q) - 1) /\ r[k] = q[k]
      BY <1>1, <2>1, <2>2 DEF Without
    <3>2. k \in Places(r, V)
      BY <2>1, <3>1 DEF Places, Without
    <3> QED BY <3>2
  <2>3. CASE k > i
    <3>1. k - 1 \in 1..(Len(q) - 1) /\ ~(k - 1 < i) /\ (k - 1) + 1 = k
      BY <1>1, <2>1, <2>3
    <3>2. r[k - 1] = q[k]
      BY <3>1 DEF Without
    <3>3. k - 1 \in Places(r, V)
      BY <2>1, <3>1, <3>2 DEF Places, Without
    <3> QED BY <3>3
  <2> QED BY <1>1, <2>1, <2>2, <2>3
<1>4. \A j, k \in Nat : from(j) = from(k) => j = k
  OBVIOUS
<1> HIDE DEF from
<1>5. Lone(q, V) => Lone(r, V)
  BY <1>2, <1>4 DEF Lone
<1>6. Places(r, V) = {} <=> Places(q, V) = {}
  BY <1>2, <1>3
<1> QED BY <1>5, <1>6

LEMMA TailIs ==
  ASSUME NEW T, NEW q \in Seq(T), q # <<>>
  PROVE  /\ Without(q, 1, Tail(q)) /\ 1 \in 1..Len(q) /\ q[1] = Head(q) /\ Head(q) \in T
         /\ Tail(q) \in Seq(T)
<1>1. Len(q) \in Nat /\ Len(q) > 0
  OBVIOUS
<1>2. 1 \in 1..Len(q) /\ q[1] = Head(q) /\ Head(q) \in T
  BY <1>1
<1>3. Tail(q) \in Seq(T) /\ DOMAIN Tail(q) = 1..(Len(q) - 1)
  BY <1>1
<1>4. \A j \in 1..(Len(q) - 1) : Tail(q)[j] = q[j + 1]
  BY <1>1
<1> QED BY <1>1, <1>2, <1>3, <1>4 DEF Without

LEMMA RemoveAtIs ==
  ASSUME NEW T, NEW q \in Seq(T), NEW i \in 1..Len(q)
  PROVE  Without(q, i, Gateway!RemoveAt(q, i)) /\ Gateway!RemoveAt(q, i) \in Seq(T)
<1> DEFINE a == SubSeq(q, 1, i - 1)
           b == SubSeq(q, i + 1, Len(q))
           r == a \o b
<1>1. Len(q) \in Nat /\ i \in Nat /\ 1 <= i /\ i <= Len(q)
  OBVIOUS
<1>2. a \in Seq(T) /\ Len(a) = i - 1 /\ \A j \in 1..(i - 1) : a[j] = q[j]
  BY <1>1
<1>3. b \in Seq(T) /\ Len(b) = Len(q) - i /\ \A j \in 1..(Len(q) - i) : b[j] = q[i + j]
  BY <1>1
<1> HIDE DEF a, b
<1>4. /\ r \in Seq(T) /\ Len(r) = Len(a) + Len(b)
      /\ \A j \in 1..Len(r) : r[j] = IF j <= Len(a) THEN a[j] ELSE b[j - Len(a)]
  <2>1. a \in Seq(T) /\ b \in Seq(T)
    BY <1>2, <1>3
  <2>2. /\ r \in Seq(T) /\ Len(r) = Len(a) + Len(b)
        /\ \A j \in 1..(Len(a) + Len(b)) : r[j] = IF j <= Len(a) THEN a[j] ELSE b[j - Len(a)]
    BY Zenon, <2>1, ConcatProperties
  <2> HIDE DEF r
  <2> QED BY <2>2
<1>5. DOMAIN r = 1..Len(r)
  BY <1>4
<1> HIDE DEF r
<1>6. DOMAIN r = 1..(Len(q) - 1)
  BY <1>1, <1>2, <1>3, <1>4, <1>5
<1>7. \A j \in 1..(Len(q) - 1) : r[j] = IF j < i THEN q[j] ELSE q[j + 1]
  <2> SUFFICES ASSUME NEW j \in 1..(Len(q) - 1) PROVE r[j] = IF j < i THEN q[j] ELSE q[j + 1]
    OBVIOUS
  <2>1. Len(r) = Len(q) - 1
    BY <1>1, <1>2, <1>3, <1>4
  <2>2. r[j] = IF j <= i - 1 THEN a[j] ELSE b[j - (i - 1)]
    BY <1>2, <1>4, <2>1
  <2>3. CASE j < i
    <3>1. j \in 1..(i - 1) /\ j <= i - 1
      BY <1>1, <2>3
    <3> QED BY <1>2, <2>2, <2>3, <3>1
  <2>4. CASE ~(j < i)
    <3>1. j - (i - 1) \in 1..(Len(q) - i) /\ ~(j <= i - 1) /\ i + (j - (i - 1)) = j + 1
      BY <1>1, <2>4
    <3> QED BY <1>3, <2>2, <2>4, <3>1
  <2> QED BY <2>3, <2>4
<1>8. Gateway!RemoveAt(q, i) = r
  BY DEF Gateway!RemoveAt, r, a, b
<1> QED BY <1>4, <1>6, <1>7, <1>8 DEF Without

-----------------------------------------------------------------------------
Sub(s) == {Gateway!Subscribe(s)}
Ans(s) == {Gateway!Accepted(s), Gateway!Refused(s)}

\* A socket awaits the one SUBSCRIBE it has under way, or the one answer to it.
AwaitsOK(s) ==
  /\ pc[s] = "attaching" <=> (Places(toRedis, Sub(s)) # {} \/ Places(fromRedis, Ans(s)) # {})
  /\ Lone(toRedis, Sub(s)) /\ Lone(fromRedis, Ans(s))
  /\ Places(toRedis, Sub(s)) = {} \/ Places(fromRedis, Ans(s)) = {}
AwaitsInv == \A s \in Sockets : AwaitsOK(s)

\* A queue that gained or lost nothing of V.
Alike(q, r, V) ==
  /\ Places(r, V) = {} <=> Places(q, V) = {}
  /\ Lone(q, V) => Lone(r, V)

LEMMA AlikeSame == \A q, V : Alike(q, q, V)
  BY DEF Alike

LEMMA AwaitsKept ==
  ASSUME NEW s, AwaitsOK(s), Alike(toRedis, toRedis', Sub(s)), Alike(fromRedis, fromRedis', Ans(s)),
         pc'[s] = "attaching" <=> pc[s] = "attaching"
  PROVE  AwaitsOK(s)'
  BY DEF AwaitsOK, Alike, Sub, Ans, Gateway!Subscribe, Gateway!Accepted, Gateway!Refused

QueuesOK == toRedis \in Seq(Commands) /\ fromRedis \in Seq(Answers \union Instructions)
FlagsOK == /\ subscribed \in [Sockets -> BOOLEAN] /\ pc \in [Sockets -> {"idle", "allowed", "denied", "attaching"}]
           /\ sockets \subseteq Sockets /\ revoking \subseteq Users

\* Who leaves sends an UNSUBSCRIBE at most.
LEMMA DetachSays ==
  ASSUME QueuesOK, FlagsOK, NEW S \in SUBSET Sockets, Gateway!Detach(S)
  PROVE  /\ toRedis' \in Seq(Commands)
         /\ \A s \in Sockets : Alike(toRedis, toRedis', Sub(s))
<1>1. CASE toRedis' = toRedis
  BY <1>1, AlikeSame DEF QueuesOK
<1>2. CASE toRedis' # toRedis
  <2>1. toRedis' = Append(toRedis, Gateway!Unsubscribe)
    BY <1>2 DEF Gateway!Detach
  <2>2. PICK c : c = Gateway!Unsubscribe
    OBVIOUS
  <2>3. c \in Commands /\ \A s : c \notin Sub(s)
    BY <2>2 DEF Commands, Gateway!Unsubscribe, Sub, Gateway!Subscribe
  <2>4. toRedis' = Append(toRedis, c) /\ toRedis \in Seq(Commands)
    BY <2>1, <2>2 DEF QueuesOK
  <2>5. Append(toRedis, c) \in Seq(Commands)
    BY <2>3, <2>4
  <2>6. ASSUME NEW s \in Sockets PROVE Alike(toRedis, toRedis', Sub(s))
    <3>1. Places(Append(toRedis, c), Sub(s)) = Places(toRedis, Sub(s))
      BY <2>3, <2>4, AppendOut
    <3> QED BY <2>4, <3>1 DEF Alike, Lone
  <2> QED BY <2>4, <2>5, <2>6
<1> QED BY <1>1, <1>2

GatewayInv == QueuesOK /\ FlagsOK /\ AwaitsInv

LEMMA AttachFirstCore == ASSUME GatewayInv, NEW s \in Sockets, Gateway!AttachFirst(s) PROVE GatewayInv'
<1>1. /\ pc[s] = "allowed" /\ pc' = [pc EXCEPT ![s] = "attaching"]
      /\ toRedis' = Append(toRedis, Gateway!Subscribe(s))
      /\ subscribed' = subscribed /\ sockets' = sockets /\ fromRedis' = fromRedis /\ revoking' = revoking
  BY DEF Gateway!AttachFirst, Gateway!Goto
<1>2. PICK c : c = Gateway!Subscribe(s)
  OBVIOUS
<1>3. c \in Commands /\ c.for = s /\ c.cmd = "subscribe" /\ c \in Sub(s)
  BY <1>2 DEF Commands, Gateway!Subscribe, Sub
<1>4. toRedis' = Append(toRedis, c) /\ toRedis \in Seq(Commands)
  BY <1>1, <1>2 DEF GatewayInv, QueuesOK
<1>5. toRedis' \in Seq(Commands)
  <2>1. Append(toRedis, c) \in Seq(Commands)
    BY <1>3, <1>4
  <2> QED BY <1>4, <2>1
<1>6. FlagsOK'
  BY <1>1 DEF GatewayInv, FlagsOK
<1>7. AwaitsOK(s)'
  <2>1. Places(toRedis, Sub(s)) = {} /\ Places(fromRedis, Ans(s)) = {} /\ Lone(fromRedis, Ans(s))
    BY <1>1 DEF GatewayInv, AwaitsInv, AwaitsOK
  <2>2. Places(Append(toRedis, c), Sub(s)) # {} /\ Lone(Append(toRedis, c), Sub(s))
    BY <1>3, <1>4, <2>1, AppendIn
  <2>3. pc'[s] = "attaching"
    BY <1>1 DEF GatewayInv, FlagsOK
  <2> QED BY <1>1, <1>4, <2>1, <2>2, <2>3
          DEF AwaitsOK, Sub, Ans, Gateway!Subscribe, Gateway!Accepted, Gateway!Refused
<1>8. ASSUME NEW r \in Sockets, r # s PROVE AwaitsOK(r)'
  <2>1. c \notin Sub(r)
    BY <1>3, <1>8 DEF Sub, Gateway!Subscribe
  <2>2. Places(Append(toRedis, c), Sub(r)) = Places(toRedis, Sub(r))
    BY <1>3, <1>4, <2>1, AppendOut
  <2>3. Alike(toRedis, toRedis', Sub(r)) /\ Alike(fromRedis, fromRedis', Ans(r))
    BY <1>1, <1>4, <2>2, AlikeSame DEF Alike, Lone
  <2>4. pc'[r] = pc[r]
    BY <1>1, <1>8 DEF GatewayInv, FlagsOK
  <2> QED BY <2>3, <2>4, AwaitsKept DEF GatewayInv, AwaitsInv
<1>9. AwaitsInv'
  BY <1>7, <1>8 DEF AwaitsInv
<1> QED BY <1>1, <1>5, <1>6, <1>9 DEF GatewayInv, QueuesOK

\* The first command goes: who else awaits one is not concerned.
LEMMA HeadGoes ==
  ASSUME GatewayInv, toRedis # <<>>
  PROVE  /\ Tail(toRedis) \in Seq(Commands) /\ Head(toRedis) \in Commands
         /\ \A s \in Sockets : Head(toRedis) \notin Sub(s) => Alike(toRedis, Tail(toRedis), Sub(s))
         /\ \A s \in Sockets : Head(toRedis) \in Sub(s) =>
               /\ pc[s] = "attaching" /\ Places(fromRedis, Ans(s)) = {}
               /\ Places(Tail(toRedis), Sub(s)) = {} /\ Lone(Tail(toRedis), Sub(s))
<1>1. toRedis \in Seq(Commands)
  BY DEF GatewayInv, QueuesOK
<1>2. PICK r, c : /\ r = Tail(toRedis) /\ c = Head(toRedis)
                  /\ Without(toRedis, 1, r) /\ 1 \in 1..Len(toRedis) /\ toRedis[1] = c /\ c \in Commands
                  /\ r \in Seq(Commands)
  BY <1>1, TailIs
<1>3. ASSUME NEW s \in Sockets, c \notin Sub(s) PROVE Alike(toRedis, r, Sub(s))
  BY <1>1, <1>2, <1>3, WithoutOut DEF Alike
<1>4. ASSUME NEW s \in Sockets, c \in Sub(s)
      PROVE  /\ pc[s] = "attaching" /\ Places(fromRedis, Ans(s)) = {}
             /\ Places(r, Sub(s)) = {} /\ Lone(r, Sub(s))
  <2>1. 1 \in Places(toRedis, Sub(s))
    BY <1>1, <1>2, <1>4 DEF Places
  <2>2. pc[s] = "attaching" /\ Places(fromRedis, Ans(s)) = {} /\ Lone(toRedis, Sub(s))
    BY <2>1 DEF GatewayInv, AwaitsInv, AwaitsOK
  <2>3. Places(r, Sub(s)) = {}
    BY <1>1, <1>2, <1>4, <2>2, WithoutIn
  <2> QED BY <2>2, <2>3 DEF Lone
<1> QED BY <1>2, <1>3, <1>4

\* Redis takes the first command and answers it.
LEMMA RedisServeCore == ASSUME GatewayInv, Gateway!RedisServe PROVE GatewayInv'
<1>1. PICK c : c = Head(toRedis)
  OBVIOUS
<1>2. /\ toRedis # <<>> /\ toRedis' = Tail(toRedis) /\ pc' = pc
      /\ subscribed' = subscribed /\ sockets' = sockets /\ revoking' = revoking
  BY DEF Gateway!RedisServe
<1>3. fromRedis \in Seq(Answers \union Instructions)
  BY DEF GatewayInv, QueuesOK
<1>4. toRedis' \in Seq(Commands) /\ c \in Commands
  BY <1>1, <1>2, HeadGoes
<1>5. PICK a : /\ fromRedis' = Append(fromRedis, a)
               /\ \/ c.cmd = "subscribe" /\ a \in {Gateway!Accepted(c.for), Gateway!Refused(c.for)}
                  \/ c.cmd # "subscribe" /\ a = Gateway!Unsubscribed
  BY <1>1 DEF Gateway!RedisServe
<1>6. a \in Answers \union Instructions /\ \A s \in Sockets : a \in Ans(s) <=> c \in Sub(s)
  BY <1>4, <1>5 DEF Answers, Commands, Ans, Sub, Gateway!Accepted, Gateway!Refused, Gateway!Unsubscribed,
                    Gateway!Subscribe, Gateway!Unsubscribe
<1>7. fromRedis' \in Seq(Answers \union Instructions)
  <2>1. Append(fromRedis, a) \in Seq(Answers \union Instructions)
    BY <1>3, <1>6
  <2> QED BY <1>5, <2>1
<1>8. ASSUME NEW s \in Sockets, c \in Sub(s) PROVE AwaitsOK(s)'
  <2>1. /\ pc[s] = "attaching" /\ Places(fromRedis, Ans(s)) = {}
        /\ Places(toRedis', Sub(s)) = {} /\ Lone(toRedis', Sub(s))
    BY <1>1, <1>2, <1>8, HeadGoes
  <2>2. Places(Append(fromRedis, a), Ans(s)) # {} /\ Lone(Append(fromRedis, a), Ans(s))
    BY <1>3, <1>6, <1>8, <2>1, AppendIn
  <2> QED BY <1>2, <1>5, <2>1, <2>2
          DEF AwaitsOK, Sub, Ans, Gateway!Subscribe, Gateway!Accepted, Gateway!Refused
<1>9. ASSUME NEW s \in Sockets, c \notin Sub(s) PROVE AwaitsOK(s)'
  <2>1. Alike(toRedis, toRedis', Sub(s))
    BY <1>1, <1>2, <1>9, HeadGoes
  <2>2. Places(Append(fromRedis, a), Ans(s)) = Places(fromRedis, Ans(s))
    BY <1>3, <1>6, <1>9, AppendOut
  <2>3. Alike(fromRedis, fromRedis', Ans(s))
    BY <1>5, <2>2 DEF Alike, Lone
  <2> QED BY <1>2, <2>1, <2>3, AwaitsKept DEF GatewayInv, AwaitsInv
<1> QED BY <1>2, <1>4, <1>7, <1>8, <1>9 DEF GatewayInv, QueuesOK, FlagsOK, AwaitsInv

\* Without a connection the first command fails, and so does the frame that waits for it.
LEMMA FlushCore == ASSUME GatewayInv, Gateway!Flush PROVE GatewayInv'
<1>1. PICK c : c = Head(toRedis)
  OBVIOUS
<1>2. /\ toRedis # <<>> /\ toRedis' = Tail(toRedis) /\ fromRedis' = fromRedis
      /\ subscribed' = subscribed /\ sockets' = sockets /\ revoking' = revoking
      /\ pc' = [s \in Sockets |-> IF c = Gateway!Subscribe(s) THEN "idle" ELSE pc[s]]
  BY <1>1 DEF Gateway!Flush
<1>3. toRedis' \in Seq(Commands)
  BY <1>2, HeadGoes
<1>4. FlagsOK'
  BY <1>2 DEF GatewayInv, FlagsOK
<1>5. ASSUME NEW s \in Sockets, c \in Sub(s) PROVE AwaitsOK(s)'
  <2>1. /\ Places(fromRedis', Ans(s)) = {} /\ Places(toRedis', Sub(s)) = {} /\ Lone(toRedis', Sub(s))
    BY <1>1, <1>2, <1>5, HeadGoes
  <2>2. pc'[s] = "idle" /\ Lone(fromRedis', Ans(s))
    BY <1>2, <1>5, <2>1 DEF Sub, Lone
  <2> QED BY <2>1, <2>2 DEF AwaitsOK, Sub, Ans, Gateway!Subscribe, Gateway!Accepted, Gateway!Refused
<1>6. ASSUME NEW s \in Sockets, c \notin Sub(s) PROVE AwaitsOK(s)'
  <2>1. Alike(toRedis, toRedis', Sub(s)) /\ Alike(fromRedis, fromRedis', Ans(s))
    BY <1>1, <1>2, <1>6, HeadGoes, AlikeSame
  <2>2. pc'[s] = pc[s]
    BY <1>2, <1>6 DEF Sub
  <2> QED BY <2>1, <2>2, AwaitsKept DEF GatewayInv, AwaitsInv
<1> QED BY <1>2, <1>3, <1>4, <1>5, <1>6 DEF GatewayInv, QueuesOK, AwaitsInv

\* The answer at the head of the connection is the one its socket waits for.
LEMMA AnsweredCore ==
  ASSUME GatewayInv, NEW s \in Sockets, Gateway!AttachDone(s) \/ Gateway!AttachRefused(s)
  PROVE  GatewayInv'
<1>1. PICK a : a = Head(fromRedis)
  OBVIOUS
<1>2. /\ fromRedis # <<>> /\ a \in Ans(s) /\ fromRedis' = Tail(fromRedis) /\ toRedis' = toRedis
      /\ pc' = [pc EXCEPT ![s] = "idle"] /\ revoking' = revoking
      /\ \/ subscribed' = subscribed /\ sockets' = sockets
         \/ subscribed' = [subscribed EXCEPT ![s] = TRUE] /\ sockets' = sockets \union {s}
  BY <1>1 DEF Gateway!AttachDone, Gateway!AttachRefused, Gateway!Read, Gateway!Goto, Ans
<1>3. toRedis \in Seq(Commands) /\ fromRedis \in Seq(Answers \union Instructions)
  BY DEF GatewayInv, QueuesOK
<1>4. PICK r : /\ r = fromRedis' /\ Without(fromRedis, 1, r) /\ 1 \in 1..Len(fromRedis) /\ fromRedis[1] = a
               /\ r \in Seq(Answers \union Instructions)
  BY <1>1, <1>2, <1>3, TailIs
<1>5. FlagsOK'
  BY <1>2 DEF GatewayInv, FlagsOK
<1>6. AwaitsOK(s)'
  <2>1. 1 \in Places(fromRedis, Ans(s))
    BY <1>2, <1>3, <1>4 DEF Places
  <2>2. Places(toRedis, Sub(s)) = {} /\ Lone(toRedis, Sub(s)) /\ Lone(fromRedis, Ans(s))
    BY <2>1 DEF GatewayInv, AwaitsInv, AwaitsOK
  <2>3. Places(r, Ans(s)) = {}
    BY <1>2, <1>3, <1>4, <2>2, WithoutIn
  <2>4. Lone(r, Ans(s))
    BY <2>3 DEF Lone
  <2>5. pc'[s] = "idle"
    BY <1>2 DEF GatewayInv, FlagsOK
  <2> QED BY <1>2, <1>4, <2>2, <2>3, <2>4, <2>5
          DEF AwaitsOK, Sub, Ans, Gateway!Subscribe, Gateway!Accepted, Gateway!Refused
<1>7. ASSUME NEW q \in Sockets, q # s PROVE AwaitsOK(q)'
  <2>1. a \notin Ans(q)
    BY <1>2, <1>7 DEF Ans, Gateway!Accepted, Gateway!Refused
  <2>2. Alike(fromRedis, r, Ans(q))
    BY <1>3, <1>4, <2>1, WithoutOut DEF Alike
  <2>3. pc'[q] = pc[q]
    BY <1>2, <1>7 DEF GatewayInv, FlagsOK
  <2>4. Alike(toRedis, toRedis', Sub(q))
    BY <1>2, AlikeSame
  <2> QED BY <1>4, <2>2, <2>3, <2>4, AwaitsKept DEF GatewayInv, AwaitsInv
<1> QED BY <1>2, <1>3, <1>4, <1>5, <1>6, <1>7 DEF GatewayInv, QueuesOK, AwaitsInv

\* What is taken off the connection, at whatever place, answers no SUBSCRIBE.
LEMMA TakenCore ==
  ASSUME GatewayInv, NEW i \in 1..Len(fromRedis), Without(fromRedis, i, fromRedis'),
         fromRedis' \in Seq(Answers \union Instructions), \A s : fromRedis[i] \notin Ans(s),
         toRedis' \in Seq(Commands), \A s \in Sockets : Alike(toRedis, toRedis', Sub(s)),
         FlagsOK', pc' = pc
  PROVE  GatewayInv'
<1>1. fromRedis \in Seq(Answers \union Instructions)
  BY DEF GatewayInv, QueuesOK
<1>2. PICK r : r = fromRedis' /\ Without(fromRedis, i, r)
  OBVIOUS
<1>3. \A s \in Sockets : Alike(fromRedis, r, Ans(s))
  BY <1>1, <1>2, WithoutOut DEF Alike
<1>4. \A s \in Sockets : AwaitsOK(s)'
  BY <1>2, <1>3, AwaitsKept DEF GatewayInv, AwaitsInv
<1> QED BY <1>4 DEF GatewayInv, QueuesOK, AwaitsInv

LEMMA LeftCore == ASSUME GatewayInv, Gateway!Left PROVE GatewayInv'
<1>1. /\ fromRedis # <<>> /\ Head(fromRedis) = Gateway!Unsubscribed /\ fromRedis' = Tail(fromRedis)
      /\ toRedis' = toRedis /\ pc' = pc /\ subscribed' = subscribed /\ sockets' = sockets
      /\ revoking' = revoking
  BY DEF Gateway!Left, Gateway!Read
<1>2. toRedis \in Seq(Commands) /\ fromRedis \in Seq(Answers \union Instructions) /\ FlagsOK'
  BY <1>1 DEF GatewayInv, QueuesOK, FlagsOK
<1>3. /\ Without(fromRedis, 1, fromRedis') /\ 1 \in 1..Len(fromRedis) /\ fromRedis[1] = Head(fromRedis)
      /\ fromRedis' \in Seq(Answers \union Instructions)
  BY <1>1, <1>2, TailIs
<1>4. \A s : fromRedis[1] \notin Ans(s)
  BY <1>1, <1>3 DEF Ans, Gateway!Accepted, Gateway!Refused, Gateway!Unsubscribed
<1> QED BY <1>1, <1>2, <1>3, <1>4, AlikeSame, TakenCore

\* Unsubscribing and closing take sockets out and may send an UNSUBSCRIBE.
LEMMA LeaveCore ==
  ASSUME GatewayInv, NEW s \in Sockets, Gateway!UnsubscribeFrame(s) \/ Gateway!Close(s)
  PROVE  GatewayInv'
<1>1. PICK S \in SUBSET Sockets : Gateway!Detach(S)
  BY DEF Gateway!UnsubscribeFrame, Gateway!Close
<1>2. pc' = pc /\ fromRedis' = fromRedis /\ revoking' = revoking
  BY DEF Gateway!UnsubscribeFrame, Gateway!Close
<1>3. toRedis' \in Seq(Commands) /\ \A q \in Sockets : Alike(toRedis, toRedis', Sub(q))
  BY <1>1, DetachSays DEF GatewayInv
<1>4. sockets' \subseteq Sockets /\ subscribed' \in [Sockets -> BOOLEAN]
  BY <1>1 DEF GatewayInv, FlagsOK, Gateway!Detach
<1>5. \A q \in Sockets : AwaitsOK(q)'
  BY <1>2, <1>3, AlikeSame, AwaitsKept DEF GatewayInv, AwaitsInv
<1> QED BY <1>2, <1>3, <1>4, <1>5 DEF GatewayInv, QueuesOK, FlagsOK, AwaitsInv

LEMMA PublishCore == ASSUME GatewayInv, NEW u \in Users, Gateway!PublishRevocation(u) PROVE GatewayInv'
<1> DEFINE a == Gateway!Revocation(u)
<1>1. /\ fromRedis' = fromRedis \/ fromRedis' = Append(fromRedis, a)
      /\ toRedis' = toRedis /\ pc' = pc
      /\ subscribed' = subscribed /\ sockets' = sockets /\ revoking' \subseteq revoking
  BY DEF Gateway!PublishRevocation
<1>2. toRedis \in Seq(Commands) /\ fromRedis \in Seq(Answers \union Instructions)
  BY DEF GatewayInv, QueuesOK
<1>3. a \in Answers \union Instructions /\ \A s : a \notin Ans(s)
  BY DEF Instructions, Ans, Gateway!Revocation, Gateway!Accepted, Gateway!Refused
<1> HIDE DEF a
<1>4. fromRedis' \in Seq(Answers \union Instructions)
  <2>1. Append(fromRedis, a) \in Seq(Answers \union Instructions)
    BY <1>2, <1>3
  <2> QED BY <1>1, <1>2, <2>1
<1>5. ASSUME NEW s \in Sockets PROVE AwaitsOK(s)'
  <2>1. Places(Append(fromRedis, a), Ans(s)) = Places(fromRedis, Ans(s))
    BY <1>2, <1>3, AppendOut
  <2>2. Alike(fromRedis, fromRedis', Ans(s)) /\ Alike(toRedis, toRedis', Sub(s))
    BY <1>1, <2>1, AlikeSame DEF Alike, Lone
  <2> QED BY <1>1, <2>2, AwaitsKept DEF GatewayInv, AwaitsInv
<1>6. FlagsOK'
  BY <1>1 DEF GatewayInv, FlagsOK
<1> QED BY <1>1, <1>2, <1>4, <1>5, <1>6 DEF GatewayInv, QueuesOK, AwaitsInv

\* A revocation is taken from among the answers, in whatever place it arrived.
LEMMA RevokeCore == ASSUME GatewayInv, NEW u \in Users, Gateway!Revoke(u) PROVE GatewayInv'
<1>1. PICK i \in Gateway!Instructions(u) :
        /\ Gateway!Detach({s \in Sockets : open[s] /\ owner[s] = u /\ subscribed[s]})
        /\ fromRedis' = Gateway!RemoveAt(fromRedis, i) /\ pc' = pc /\ revoking' = revoking
  BY DEF Gateway!Revoke
<1>2. fromRedis \in Seq(Answers \union Instructions)
  BY DEF GatewayInv, QueuesOK
<1>3. i \in 1..Len(fromRedis) /\ fromRedis[i] = Gateway!Revocation(u)
  BY <1>1, <1>2 DEF Gateway!Instructions
<1>4. Without(fromRedis, i, fromRedis') /\ fromRedis' \in Seq(Answers \union Instructions)
  BY <1>1, <1>2, <1>3, RemoveAtIs
<1>5. PICK S \in SUBSET Sockets : Gateway!Detach(S)
  BY <1>1
<1>6. toRedis' \in Seq(Commands) /\ \A q \in Sockets : Alike(toRedis, toRedis', Sub(q))
  BY <1>5, DetachSays DEF GatewayInv
<1>7. FlagsOK'
  BY <1>1, <1>5 DEF GatewayInv, FlagsOK, Gateway!Detach
<1>8. \A s : fromRedis[i] \notin Ans(s)
  BY <1>3 DEF Ans, Gateway!Revocation, Gateway!Accepted, Gateway!Refused
<1> QED BY <1>1, <1>3, <1>4, <1>6, <1>7, <1>8, TakenCore

-----------------------------------------------------------------------------
\* A break: what was unanswered stands before what was not served, in the order it had.
Resent(at, n, r) ==
  /\ n \in Nat /\ r \in Seq(Commands) /\ Len(r) = n + Len(toRedis)
  /\ \A i \in 1..n : at[i] \in DOMAIN fromRedis /\ fromRedis[at[i]] \in Answers
                     /\ r[i] = Gateway!Again(fromRedis[at[i]])
  /\ \A i, j \in 1..n : i < j => at[i] < at[j]
  /\ \A k \in DOMAIN fromRedis : fromRedis[k] \in Answers => \E i \in 1..n : at[i] = k
  /\ \A j \in 1..Len(toRedis) : r[n + j] = toRedis[j]

LEMMA DisconnectSays == ASSUME GatewayInv, Gateway!Disconnect PROVE \E at, n : Resent(at, n, toRedis')
<1> DEFINE answers == {i \in DOMAIN fromRedis : fromRedis[i].t # "revoke"}
<1>1. PICK at \in UNION {[1..m -> answers] : m \in 0..Len(fromRedis)} :
        /\ \A i, j \in DOMAIN at : i < j => at[i] < at[j]
        /\ \A k \in answers : \E i \in DOMAIN at : at[i] = k
        /\ toRedis' = [i \in DOMAIN at |-> Gateway!Again(fromRedis[at[i]])] \o toRedis
  BY DEF Gateway!Disconnect
<1>0. PICK n \in 0..Len(fromRedis) : at \in [1..n -> answers]
  OBVIOUS
<1>2. toRedis \in Seq(Commands) /\ fromRedis \in Seq(Answers \union Instructions)
  BY DEF GatewayInv, QueuesOK
<1>3. n \in Nat /\ DOMAIN at = 1..n /\ DOMAIN fromRedis = 1..Len(fromRedis)
  BY <1>0, <1>2
<1>4. \A k \in DOMAIN fromRedis : fromRedis[k] \in Answers <=> k \in answers
  <2>1. \A a \in Answers \union Instructions : a \in Answers <=> a.t # "revoke"
    BY DEF Answers, Instructions, Gateway!Unsubscribed
  <2> QED BY <1>2, <2>1
<1> DEFINE b == [i \in 1..n |-> Gateway!Again(fromRedis[at[i]])]
<1>5. \A i \in 1..n : at[i] \in DOMAIN fromRedis /\ fromRedis[at[i]] \in Answers
  BY <1>0, <1>3, <1>4
<1>6. b \in Seq(Commands) /\ Len(b) = n
  <2>1. \A a \in Answers : Gateway!Again(a) \in Commands
    BY DEF Answers, Commands, Gateway!Again, Gateway!Unsubscribed, Gateway!Unsubscribe, Gateway!Subscribe
  <2>2. \A i \in 1..n : b[i] \in Commands
    BY <1>5, <2>1
  <2> HIDE DEF b
  <2>3. DOMAIN b = 1..n /\ b = [i \in 1..n |-> b[i]]
    BY DEF b
  <2>4. b \in [1..n -> Commands]
    BY <2>2, <2>3
  <2>5. b \in Seq(Commands)
    <3>1. b \in UNION {[1..m -> Commands] : m \in Nat}
      BY <1>3, <2>4
    <3> QED BY Zenon, <3>1, SeqDef
  <2>6. Len(b) \in Nat /\ 1..Len(b) = 1..n
    BY <2>3, <2>5, LenProperties
  <2> QED BY <1>3, <2>5, <2>6
<1>7. \A i \in 1..n : b[i] = Gateway!Again(fromRedis[at[i]])
  OBVIOUS
<1>8. toRedis' = b \o toRedis
  BY <1>1, <1>3
<1> HIDE DEF b
<1>9. /\ toRedis' \in Seq(Commands) /\ Len(toRedis') = n + Len(toRedis)
      /\ \A i \in 1..(n + Len(toRedis)) : toRedis'[i] = IF i <= n THEN b[i] ELSE toRedis[i - n]
  <2>1. /\ b \o toRedis \in Seq(Commands) /\ Len(b \o toRedis) = Len(b) + Len(toRedis)
        /\ \A i \in 1..(Len(b) + Len(toRedis)) :
             (b \o toRedis)[i] = IF i <= Len(b) THEN b[i] ELSE toRedis[i - Len(b)]
    BY Zenon, <1>2, <1>6, ConcatProperties
  <2> QED BY <1>6, <1>8, <2>1
<1>10. Len(toRedis) \in Nat
  BY <1>2
<1>11. \A i \in 1..n : toRedis'[i] = Gateway!Again(fromRedis[at[i]])
  BY <1>3, <1>7, <1>9, <1>10
<1>12. \A j \in 1..Len(toRedis) : toRedis'[n + j] = toRedis[j]
  <2> SUFFICES ASSUME NEW j \in 1..Len(toRedis) PROVE toRedis'[n + j] = toRedis[j]
    OBVIOUS
  <2>1. n + j \in 1..(n + Len(toRedis)) /\ ~(n + j <= n) /\ (n + j) - n = j
    BY <1>3, <1>10
  <2> QED BY <1>9, <2>1
<1>13. Resent(at, n, toRedis')
  BY <1>1, <1>3, <1>4, <1>5, <1>9, <1>11, <1>12 DEF Resent
<1> QED BY <1>13

\* Where a command stands after a break, and what it was before.
LEMMA ResentPlaces ==
  ASSUME GatewayInv, NEW at, NEW n, NEW r, Resent(at, n, r)
  PROVE  \A i \in DOMAIN r : \/ i \in 1..n
                             \/ i - n \in 1..Len(toRedis) /\ i > n /\ r[i] = toRedis[i - n]
<1> SUFFICES ASSUME NEW i \in DOMAIN r, i \notin 1..n
             PROVE  i - n \in 1..Len(toRedis) /\ i > n /\ r[i] = toRedis[i - n]
  OBVIOUS
<1>1. n \in Nat /\ Len(toRedis) \in Nat /\ DOMAIN r = 1..(n + Len(toRedis))
  BY DEF Resent, GatewayInv, QueuesOK
<1>2. i - n \in 1..Len(toRedis) /\ i > n /\ n + (i - n) = i
  BY <1>1
<1>3. r[n + (i - n)] = toRedis[i - n]
  BY <1>2 DEF Resent
<1> QED BY <1>2, <1>3

LEMMA DisconnectCore == ASSUME GatewayInv, Gateway!Disconnect PROVE GatewayInv'
<1>1. /\ fromRedis' = <<>> /\ pc' = pc /\ subscribed' = subscribed /\ sockets' = sockets
      /\ revoking' = revoking
  BY DEF Gateway!Disconnect
<1>2. PICK at, n, r : r = toRedis' /\ Resent(at, n, r)
  BY DisconnectSays
<1>3. /\ n \in Nat /\ Len(toRedis) \in Nat /\ DOMAIN r = 1..(n + Len(toRedis))
      /\ DOMAIN toRedis = 1..Len(toRedis) /\ r \in Seq(Commands)
  BY <1>2 DEF Resent, GatewayInv, QueuesOK
<1>4. ASSUME NEW s \in Sockets PROVE AwaitsOK(s)'
  <2>1. AwaitsOK(s)
    BY DEF GatewayInv, AwaitsInv
  <2>2. \A a \in Answers : Gateway!Again(a) \in Sub(s) <=> a \in Ans(s)
    BY DEF Answers, Sub, Ans, Gateway!Again, Gateway!Unsubscribed, Gateway!Unsubscribe, Gateway!Subscribe,
           Gateway!Accepted, Gateway!Refused
  <2>3. \A i \in 1..n : r[i] \in Sub(s) <=> at[i] \in Places(fromRedis, Ans(s))
    BY <1>2, <2>2 DEF Resent, Places
  <2>4. Ans(s) \subseteq Answers
    BY DEF Ans, Answers, Gateway!Accepted, Gateway!Refused
  <2>5. \A k \in Places(fromRedis, Ans(s)) : \E i \in 1..n : at[i] = k
    BY <1>2, <2>4 DEF Resent, Places
  <2>6. \A j \in Places(toRedis, Sub(s)) : n + j \in Places(r, Sub(s))
    <3> SUFFICES ASSUME NEW j \in Places(toRedis, Sub(s)) PROVE n + j \in Places(r, Sub(s))
      OBVIOUS
    <3>1. j \in 1..Len(toRedis) /\ n + j \in DOMAIN r
      BY <1>3 DEF Places
    <3> QED BY <1>2, <3>1 DEF Places, Resent
  <2>7. \A i \in Places(r, Sub(s)) :
          \/ i \in 1..n /\ at[i] \in Places(fromRedis, Ans(s))
          \/ i > n /\ i - n \in Places(toRedis, Sub(s))
    <3> SUFFICES ASSUME NEW i \in Places(r, Sub(s))
                 PROVE  \/ i \in 1..n /\ at[i] \in Places(fromRedis, Ans(s))
                        \/ i > n /\ i - n \in Places(toRedis, Sub(s))
      OBVIOUS
    <3>1. i \in DOMAIN r /\ r[i] \in Sub(s)
      BY DEF Places
    <3>2. CASE i \in 1..n
      BY <2>3, <3>1, <3>2
    <3>3. CASE i \notin 1..n
      <4>1. i - n \in 1..Len(toRedis) /\ i > n /\ r[i] = toRedis[i - n]
        BY <1>2, <3>1, <3>3, ResentPlaces
      <4> QED BY <1>3, <3>1, <4>1 DEF Places
    <3> QED BY <3>2, <3>3
  <2>8. Places(r, Sub(s)) # {} <=> (Places(toRedis, Sub(s)) # {} \/ Places(fromRedis, Ans(s)) # {})
    <3>1. ASSUME NEW k \in Places(fromRedis, Ans(s)) PROVE Places(r, Sub(s)) # {}
      <4>1. PICK i \in 1..n : at[i] = k
        BY <2>5
      <4>2. i \in DOMAIN r
        BY <1>3
      <4> QED BY <2>3, <4>1, <4>2 DEF Places
    <3> QED BY <2>6, <2>7, <3>1
  <2>9. Lone(r, Sub(s))
    <3> SUFFICES ASSUME NEW i \in Places(r, Sub(s)), NEW j \in Places(r, Sub(s)) PROVE i = j
      BY DEF Lone
    <3>1. i \in Nat /\ j \in Nat
      BY <1>3 DEF Places
    <3>2. CASE i \in 1..n /\ j \in 1..n
      <4>1. at[i] = at[j] /\ at[i] \in Nat /\ at[j] \in Nat
        <5>1. at[i] \in Places(fromRedis, Ans(s)) /\ at[j] \in Places(fromRedis, Ans(s))
          BY <2>3, <3>2 DEF Places
        <5>2. DOMAIN fromRedis \subseteq Nat
          BY DEF GatewayInv, QueuesOK
        <5> QED BY <2>1, <5>1, <5>2 DEF AwaitsOK, Lone, Places
      <4>2. (i < j => at[i] < at[j]) /\ (j < i => at[j] < at[i])
        BY <1>2, <3>2 DEF Resent
      <4> QED BY <3>1, <4>1, <4>2
    <3>3. CASE ~(i \in 1..n) /\ ~(j \in 1..n)
      <4>1. i - n \in Places(toRedis, Sub(s)) /\ j - n \in Places(toRedis, Sub(s))
        BY <2>7, <3>3
      <4>2. i - n = j - n
        BY <2>1, <4>1 DEF AwaitsOK, Lone
      <4> QED BY <1>3, <3>1, <4>2
    <3>4. CASE ~(i \in 1..n <=> j \in 1..n)
      <4>1. Places(toRedis, Sub(s)) # {} /\ Places(fromRedis, Ans(s)) # {}
        BY <1>3, <2>7, <3>4
      <4> QED BY <2>1, <4>1 DEF AwaitsOK
    <3> QED BY <3>2, <3>3, <3>4
  <2>10. Places(fromRedis', Ans(s)) = {} /\ Lone(fromRedis', Ans(s))
    BY <1>1 DEF Places, Lone
  <2> QED BY <1>1, <1>2, <2>1, <2>8, <2>9, <2>10
          DEF AwaitsOK, Sub, Ans, Gateway!Subscribe, Gateway!Accepted, Gateway!Refused
<1>5. QueuesOK' /\ FlagsOK'
  BY <1>1, <1>2, <1>3 DEF GatewayInv, QueuesOK, FlagsOK
<1> QED BY <1>4, <1>5 DEF GatewayInv, AwaitsInv
-----------------------------------------------------------------------------
\* Steps that touch neither queue, and no socket that waits.
LEMMA QuietCore ==
  ASSUME GatewayInv, toRedis' = toRedis, fromRedis' = fromRedis, FlagsOK',
         \A s \in Sockets : pc'[s] = "attaching" <=> pc[s] = "attaching"
  PROVE  GatewayInv'
<1>1. \A s \in Sockets : AwaitsOK(s)'
  BY AlikeSame, AwaitsKept DEF GatewayInv, AwaitsInv
<1> QED BY <1>1 DEF GatewayInv, QueuesOK, AwaitsInv

LEMMA FrameCore ==
  ASSUME GatewayInv, NEW s \in Sockets,
         Gateway!SubscribeFrame(s) \/ Gateway!Reject(s) \/ Gateway!AttachExisting(s)
  PROVE  GatewayInv'
<1>1. /\ toRedis' = toRedis /\ fromRedis' = fromRedis /\ revoking' = revoking
      /\ pc[s] \in {"idle", "allowed", "denied"}
      /\ \E to \in {"idle", "allowed", "denied"} : pc' = [pc EXCEPT ![s] = to]
      /\ \/ subscribed' = subscribed /\ sockets' = sockets
         \/ subscribed' = [subscribed EXCEPT ![s] = TRUE] /\ sockets' = sockets \union {s}
  BY DEF Gateway!SubscribeFrame, Gateway!Reject, Gateway!AttachExisting, Gateway!Goto
<1>2. FlagsOK'
  BY <1>1 DEF GatewayInv, FlagsOK
<1>3. \A q \in Sockets : pc'[q] = "attaching" <=> pc[q] = "attaching"
  BY <1>1 DEF GatewayInv, FlagsOK
<1> QED BY <1>1, <1>2, <1>3, QuietCore

LEMMA ChangeCore ==
  ASSUME GatewayInv,
         \/ \E u \in Users : Gateway!EndMembership(u) \/ Gateway!Rejoin(u) \/ Gateway!ParkRevocation(u)
         \/ Gateway!Reconnect \/ UNCHANGED Gateway!vars
  PROVE  GatewayInv'
<1>1. /\ toRedis' = toRedis /\ fromRedis' = fromRedis /\ pc' = pc /\ subscribed' = subscribed
      /\ sockets' = sockets /\ revoking' \subseteq Users
  <2>1. revoking \subseteq Users
    BY DEF GatewayInv, FlagsOK
  <2> QED BY <2>1 DEF Gateway!EndMembership, Gateway!Rejoin, Gateway!ParkRevocation, Gateway!Reconnect, Gateway!vars
<1>2. FlagsOK'
  BY <1>1 DEF GatewayInv, FlagsOK
<1> QED BY <1>1, <1>2, QuietCore

LEMMA GatewayInit == Gateway!Init => GatewayInv
<1> SUFFICES ASSUME Gateway!Init PROVE GatewayInv
  OBVIOUS
<1>1. toRedis = <<>> /\ fromRedis = <<>> /\ \A s \in Sockets : pc[s] = "idle"
  BY DEF Gateway!Init
<1>2. QueuesOK
  BY <1>1 DEF QueuesOK
<1>3. FlagsOK
  BY DEF Gateway!Init, FlagsOK
<1>4. \A V : Places(<<>>, V) = {}
  BY DEF Places
<1>5. \A s \in Sockets : AwaitsOK(s)
  BY <1>1, <1>4 DEF AwaitsOK, Lone
<1> QED BY <1>2, <1>3, <1>5 DEF GatewayInv, AwaitsInv

LEMMA GatewayStep == GatewayInv /\ [Gateway!Next]_Gateway!vars => GatewayInv'
<1> SUFFICES ASSUME GatewayInv, [Gateway!Next]_Gateway!vars PROVE GatewayInv'
  OBVIOUS
<1>1. CASE \E s \in Sockets : Gateway!SubscribeFrame(s) \/ Gateway!UnsubscribeFrame(s) \/ Gateway!Close(s)
  BY <1>1, FrameCore, LeaveCore
<1>2. CASE \E s \in Sockets : Gateway!Handle(s)
  BY <1>2, FrameCore, AttachFirstCore, AnsweredCore DEF Gateway!Handle
<1>3. CASE \E u \in Users : \/ Gateway!EndMembership(u) \/ Gateway!Rejoin(u)
                            \/ Gateway!PublishRevocation(u) \/ Gateway!ParkRevocation(u) \/ Gateway!Revoke(u)
  BY <1>3, ChangeCore, PublishCore, RevokeCore
<1>4. CASE Gateway!RedisServe \/ Gateway!Left \/ Gateway!Disconnect \/ Gateway!Reconnect \/ Gateway!Flush
  BY <1>4, RedisServeCore, LeftCore, DisconnectCore, ChangeCore, FlushCore
<1>5. CASE UNCHANGED Gateway!vars
  BY <1>5, ChangeCore
<1> QED BY <1>1, <1>2, <1>3, <1>4, <1>5 DEF Gateway!Next
-----------------------------------------------------------------------------
LEMMA BookStep ==
  ASSUME GatewayInv, Gateway!BookkeepingAgrees, [Gateway!Next]_Gateway!vars
  PROVE  Gateway!BookkeepingAgrees'
<1>1. subscribed \in [Sockets -> BOOLEAN] /\ sockets \subseteq Sockets
  BY DEF GatewayInv, FlagsOK
<1>2. \A s \in Sockets : open[s] => (subscribed[s] <=> s \in sockets)
  BY DEF Gateway!BookkeepingAgrees
<1>3. CASE open' = open /\ subscribed' = subscribed /\ sockets' = sockets
  BY <1>2, <1>3 DEF Gateway!BookkeepingAgrees
<1>4. ASSUME NEW s \in Sockets, open' = open, sockets' = sockets \union {s},
             subscribed' = [subscribed EXCEPT ![s] = TRUE]
      PROVE  Gateway!BookkeepingAgrees'
  BY <1>1, <1>2, <1>4 DEF Gateway!BookkeepingAgrees
<1>5. ASSUME NEW S \in SUBSET Sockets, Gateway!Detach(S), \A s \in Sockets : open'[s] => open[s]
      PROVE  Gateway!BookkeepingAgrees'
  BY <1>1, <1>2, <1>5 DEF Gateway!BookkeepingAgrees, Gateway!Detach
<1>6. ASSUME NEW s \in Sockets, Gateway!SubscribeFrame(s) \/ Gateway!Handle(s)
      PROVE  Gateway!BookkeepingAgrees'
  BY <1>3, <1>4, <1>6 DEF Gateway!SubscribeFrame, Gateway!Handle, Gateway!Reject, Gateway!AttachExisting,
       Gateway!AttachFirst, Gateway!AttachDone, Gateway!AttachRefused
<1>7. ASSUME NEW s \in Sockets, Gateway!UnsubscribeFrame(s) PROVE Gateway!BookkeepingAgrees'
  BY <1>5, <1>7 DEF Gateway!UnsubscribeFrame
<1>8. ASSUME NEW s \in Sockets, Gateway!Close(s) PROVE Gateway!BookkeepingAgrees'
  <2>1. PICK S \in SUBSET Sockets : Gateway!Detach(S)
    BY <1>8 DEF Gateway!Close
  <2>2. \A q \in Sockets : open'[q] => open[q]
    BY <1>8 DEF Gateway!Close
  <2> QED BY <1>5, <2>1, <2>2
<1>9. ASSUME NEW u \in Users, \/ Gateway!EndMembership(u) \/ Gateway!Rejoin(u)
                              \/ Gateway!PublishRevocation(u) \/ Gateway!ParkRevocation(u)
      PROVE  Gateway!BookkeepingAgrees'
  BY <1>3, <1>9 DEF Gateway!EndMembership, Gateway!Rejoin, Gateway!PublishRevocation, Gateway!ParkRevocation
<1>10. ASSUME NEW u \in Users, Gateway!Revoke(u) PROVE Gateway!BookkeepingAgrees'
  <2>1. open' = open /\ \E S \in SUBSET Sockets : Gateway!Detach(S)
    BY <1>10 DEF Gateway!Revoke
  <2> QED BY <1>5, <2>1
<1>11. CASE \/ Gateway!RedisServe \/ Gateway!Left \/ Gateway!Disconnect \/ Gateway!Reconnect \/ Gateway!Flush
            \/ UNCHANGED Gateway!vars
  BY <1>3, <1>11 DEF Gateway!RedisServe, Gateway!Left, Gateway!Disconnect, Gateway!Reconnect, Gateway!Flush, Gateway!vars
<1> QED BY <1>6, <1>7, <1>8, <1>9, <1>10, <1>11 DEF Gateway!Next
\* The socket's own record and the channel's entry agree about every open socket, through
\* attachments that overlap, refusals, breaks, closes and revocations: Gateway!BookkeepingAgrees.
THEOREM RecordsAgree == Gateway!Spec => []Gateway!BookkeepingAgrees
<1>1. Gateway!Init => GatewayInv /\ Gateway!BookkeepingAgrees
  BY GatewayInit DEF Gateway!Init, Gateway!BookkeepingAgrees
<1>2. GatewayInv /\ Gateway!BookkeepingAgrees /\ [Gateway!Next]_Gateway!vars
      => GatewayInv' /\ Gateway!BookkeepingAgrees'
  BY GatewayStep, BookStep
<1> QED BY <1>1, <1>2, PTL DEF Gateway!Spec
-----------------------------------------------------------------------------
\* A socket that reads on after its user's membership ended is bound to lose the channel: its
\* record still holds it, so that revoke will find it, and the instruction is in the outbox
\* or on its way, unless the last that was published reached nobody.
Due(u) == {Gateway!Revocation(u)}
RevocationDue ==
  \A s \in stale : open[s] => /\ subscribed[s] /\ owner[s] \notin member
                              /\ \/ owner[s] \in revoking
                                 \/ Places(fromRedis, Due(owner[s])) # {}
                                 \/ owner[s] \in unheard

StaleTypes == /\ stale \subseteq Sockets /\ unheard \subseteq Users
              /\ owner \in [Sockets -> Users] /\ open \in [Sockets -> BOOLEAN]
DueInv == StaleTypes /\ RevocationDue

LEMMA DueKept ==
  ASSUME DueInv, owner' = owner, stale' \subseteq stale, unheard' \subseteq Users, open' \in [Sockets -> BOOLEAN],
         \A s \in stale' : open'[s] =>
            /\ open[s] /\ subscribed'[s] /\ owner[s] \notin member'
            /\ \/ owner[s] \in revoking
               \/ Places(fromRedis, Due(owner[s])) # {}
               \/ owner[s] \in unheard
               => \/ owner[s] \in revoking'
                  \/ Places(fromRedis', Due(owner[s])) # {}
                  \/ owner[s] \in unheard'
  PROVE  DueInv'
<1>1. StaleTypes'
  BY DEF DueInv, StaleTypes
<1>2. RevocationDue'
  <2> SUFFICES ASSUME NEW s \in stale', open'[s]
               PROVE  /\ subscribed'[s] /\ owner'[s] \notin member'
                      /\ \/ owner'[s] \in revoking'
                         \/ Places(fromRedis', Due(owner'[s])) # {}
                         \/ owner'[s] \in unheard'
    BY DEF RevocationDue, Due, Gateway!Revocation
  <2>1. owner[s] \in revoking \/ Places(fromRedis, Due(owner[s])) # {} \/ owner[s] \in unheard
    BY DEF DueInv, RevocationDue
  <2> QED BY <2>1
<1> QED BY <1>1, <1>2 DEF DueInv

\* Nothing moves but frames in progress and the record of one socket, and that only to hold.
LEMMA DueFrames ==
  ASSUME GatewayInv, DueInv,
         \/ \E s \in Sockets : \/ Gateway!SubscribeFrame(s) \/ Gateway!Reject(s) \/ Gateway!AttachExisting(s)
                               \/ Gateway!AttachFirst(s)
         \/ Gateway!Flush \/ Gateway!Reconnect
  PROVE  DueInv'
<1>1. /\ owner' = owner /\ stale' = stale /\ open' = open /\ member' = member /\ unheard' = unheard
      /\ revoking' = revoking /\ fromRedis' = fromRedis
      /\ subscribed' = subscribed \/ \E s \in Sockets : subscribed' = [subscribed EXCEPT ![s] = TRUE]
  BY DEF Gateway!SubscribeFrame, Gateway!Reject, Gateway!AttachExisting, Gateway!AttachFirst, Gateway!Flush,
         Gateway!Reconnect
<1>2. /\ stale \subseteq Sockets /\ subscribed \in [Sockets -> BOOLEAN] /\ open \in [Sockets -> BOOLEAN]
      /\ unheard \subseteq Users
  BY DEF GatewayInv, FlagsOK, DueInv, StaleTypes
<1>3. \A q \in stale : subscribed[q] => subscribed'[q]
  BY <1>1, <1>2
<1>4. \A q \in stale : open[q] => subscribed[q] /\ owner[q] \notin member
  BY DEF DueInv, RevocationDue
<1> QED BY <1>1, <1>2, <1>3, <1>4, DueKept

\* An answer to a command comes or goes: no instruction is among what moves.
LEMMA DueAnswers ==
  ASSUME GatewayInv, DueInv,
         \/ Gateway!RedisServe \/ Gateway!Left
         \/ \E s \in Sockets : Gateway!AttachDone(s) \/ Gateway!AttachRefused(s)
  PROVE  DueInv'
<1>1. toRedis \in Seq(Commands) /\ fromRedis \in Seq(Answers \union Instructions)
  BY DEF GatewayInv, QueuesOK
<1>2. /\ stale \subseteq Sockets /\ subscribed \in [Sockets -> BOOLEAN] /\ open \in [Sockets -> BOOLEAN]
      /\ unheard \subseteq Users
  BY DEF GatewayInv, FlagsOK, DueInv, StaleTypes
<1>3. \A a \in Answers : \A u : a \notin Due(u)
  BY DEF Answers, Due, Gateway!Revocation, Gateway!Unsubscribed
<1>4. \A q \in stale : open[q] => subscribed[q] /\ owner[q] \notin member
  BY DEF DueInv, RevocationDue
<1>5. ASSUME \A u : Places(fromRedis', Due(u)) = {} <=> Places(fromRedis, Due(u)) = {},
             owner' = owner, stale' = stale, open' = open, member' = member, revoking' = revoking,
             unheard' = unheard, \A q \in Sockets : subscribed[q] => subscribed'[q]
      PROVE  DueInv'
  BY <1>2, <1>4, <1>5, DueKept
<1>6. CASE Gateway!RedisServe
  <2>1. /\ owner' = owner /\ stale' = stale /\ open' = open /\ member' = member
        /\ revoking' = revoking /\ subscribed' = subscribed /\ unheard' = unheard
    BY <1>6 DEF Gateway!RedisServe
  <2>2. PICK c : c = Head(toRedis)
    OBVIOUS
  <2>3. c \in Commands
    BY <1>1, <1>6, <2>2, TailIs DEF Gateway!RedisServe
  <2>4. PICK a : /\ fromRedis' = Append(fromRedis, a)
                 /\ \/ c.cmd = "subscribe" /\ a \in {Gateway!Accepted(c.for), Gateway!Refused(c.for)}
                    \/ c.cmd # "subscribe" /\ a = Gateway!Unsubscribed
    BY <1>6, <2>2 DEF Gateway!RedisServe
  <2>5. a \in Answers
    BY <2>3, <2>4 DEF Answers, Commands, Gateway!Accepted, Gateway!Refused, Gateway!Unsubscribed,
                      Gateway!Subscribe, Gateway!Unsubscribe
  <2>6. \A u : Places(fromRedis', Due(u)) = Places(fromRedis, Due(u))
    <3> SUFFICES ASSUME NEW u PROVE Places(fromRedis', Due(u)) = Places(fromRedis, Due(u))
      OBVIOUS
    <3>1. a \notin Due(u) /\ a \in Answers \union Instructions
      BY <1>3, <2>5
    <3>2. Places(Append(fromRedis, a), Due(u)) = Places(fromRedis, Due(u))
      BY <1>1, <3>1, AppendOut
    <3> QED BY <2>4, <3>2
  <2> QED BY <1>5, <2>1, <2>6
<1>7. CASE Gateway!Left \/ \E s \in Sockets : Gateway!AttachDone(s) \/ Gateway!AttachRefused(s)
  <2>1. /\ owner' = owner /\ stale' = stale /\ open' = open /\ member' = member /\ revoking' = revoking
        /\ unheard' = unheard
        /\ subscribed' = subscribed \/ \E s \in Sockets : subscribed' = [subscribed EXCEPT ![s] = TRUE]
        /\ fromRedis # <<>> /\ fromRedis' = Tail(fromRedis)
        /\ \/ Head(fromRedis) = Gateway!Unsubscribed
           \/ \E s \in Sockets : Head(fromRedis) \in {Gateway!Accepted(s), Gateway!Refused(s)}
    BY <1>7 DEF Gateway!AttachDone, Gateway!AttachRefused, Gateway!Left, Gateway!Read
  <2>2. Without(fromRedis, 1, Tail(fromRedis)) /\ 1 \in 1..Len(fromRedis) /\ fromRedis[1] = Head(fromRedis)
    BY <1>1, <2>1, TailIs
  <2>3. \A u : fromRedis[1] \notin Due(u)
    <3>1. \A s \in Sockets : Gateway!Accepted(s) \in Answers /\ Gateway!Refused(s) \in Answers
      BY DEF Answers, Gateway!Accepted, Gateway!Refused
    <3>2. Gateway!Unsubscribed \in Answers
      BY DEF Answers
    <3>3. Head(fromRedis) \in Answers
      BY Zenon, <2>1, <3>1, <3>2
    <3> QED BY <1>3, <2>2, <3>3
  <2>4. \A u : Places(Tail(fromRedis), Due(u)) = {} <=> Places(fromRedis, Due(u)) = {}
    <3> SUFFICES ASSUME NEW u PROVE Places(Tail(fromRedis), Due(u)) = {} <=> Places(fromRedis, Due(u)) = {}
      OBVIOUS
    <3>1. fromRedis[1] \notin Due(u)
      BY <2>3
    <3> QED BY <1>1, <2>2, <3>1, WithoutOut
  <2>5. \A q \in Sockets : subscribed[q] => subscribed'[q]
    BY <1>2, <2>1
  <2> QED BY <1>5, <2>1, <2>4, <2>5
<1> QED BY <1>6, <1>7

\* A socket that leaves the channel, or closes, is owed nothing more.
LEMMA DueLeaves ==
  ASSUME GatewayInv, DueInv, NEW s \in Sockets, Gateway!UnsubscribeFrame(s) \/ Gateway!Close(s)
  PROVE  DueInv'
<1>1. PICK S \in SUBSET Sockets : Gateway!Detach(S)
  BY DEF Gateway!UnsubscribeFrame, Gateway!Close
<1>2. /\ owner' = owner /\ member' = member /\ revoking' = revoking /\ fromRedis' = fromRedis
      /\ unheard' = unheard
      /\ open' = open \/ open' = [open EXCEPT ![s] = FALSE]
  BY DEF Gateway!UnsubscribeFrame, Gateway!Close
<1>3. /\ stale \subseteq Sockets /\ subscribed \in [Sockets -> BOOLEAN] /\ open \in [Sockets -> BOOLEAN]
      /\ unheard \subseteq Users
  BY DEF GatewayInv, FlagsOK, DueInv, StaleTypes
<1>4. stale' = stale \ S /\ \A q \in Sockets \ S : subscribed'[q] = subscribed[q]
  BY <1>1, <1>3 DEF Gateway!Detach
<1>5. open' \in [Sockets -> BOOLEAN] /\ \A q \in Sockets : open'[q] => open[q]
  BY <1>2, <1>3
<1>6. \A q \in stale : open[q] => subscribed[q] /\ owner[q] \notin member
  BY DEF DueInv, RevocationDue
<1>7. stale' \subseteq stale /\ stale' \subseteq Sockets \ S
  BY <1>3, <1>4
<1> QED BY <1>2, <1>3, <1>4, <1>5, <1>6, <1>7, DueKept

\* A membership ends or begins, and the worker publishes, heard or not, or gives up.
LEMMA DueChanges ==
  ASSUME GatewayInv, DueInv, NEW u \in Users,
         \/ Gateway!EndMembership(u) \/ Gateway!Rejoin(u)
         \/ Gateway!PublishRevocation(u) \/ Gateway!ParkRevocation(u)
  PROVE  DueInv'
<1>1. owner' = owner /\ open' = open /\ subscribed' = subscribed
  BY DEF Gateway!EndMembership, Gateway!Rejoin, Gateway!PublishRevocation, Gateway!ParkRevocation
<1>2. /\ stale \subseteq Sockets /\ open \in [Sockets -> BOOLEAN] /\ owner \in [Sockets -> Users]
      /\ fromRedis \in Seq(Answers \union Instructions) /\ unheard \subseteq Users
  BY DEF GatewayInv, QueuesOK, DueInv, StaleTypes
<1>3. \A q \in stale : open[q] => /\ subscribed[q] /\ owner[q] \notin member
                                  /\ \/ owner[q] \in revoking
                                     \/ Places(fromRedis, Due(owner[q])) # {}
                                     \/ owner[q] \in unheard
  BY DEF DueInv, RevocationDue
<1>4. CASE Gateway!EndMembership(u)
  <2>1. /\ member' = member \ {u} /\ revoking' = revoking \union {u} /\ fromRedis' = fromRedis
        /\ unheard' = unheard \ {u}
        /\ stale' = stale \union {s \in Sockets : owner[s] = u /\ subscribed[s]}
    BY <1>4 DEF Gateway!EndMembership
  <2>2. StaleTypes'
    BY <1>1, <1>2, <2>1 DEF StaleTypes
  <2>3. ASSUME NEW q \in stale', open'[q]
        PROVE  /\ subscribed'[q] /\ owner'[q] \notin member'
               /\ \/ owner'[q] \in revoking'
                  \/ Places(fromRedis', Due(owner'[q])) # {}
                  \/ owner'[q] \in unheard'
    <3>1. CASE q \in stale
      BY <1>1, <1>3, <2>1, <2>3, <3>1
    <3>2. CASE owner[q] = u /\ subscribed[q]
      BY <1>1, <2>1, <3>2
    <3> QED BY <2>1, <3>1, <3>2
  <2> QED BY <2>2, <2>3 DEF DueInv, RevocationDue, Due, Gateway!Revocation
<1>5. CASE Gateway!Rejoin(u)
  <2>1. /\ member' = member \union {u} /\ revoking' = revoking /\ fromRedis' = fromRedis
        /\ unheard' = unheard /\ stale' = {s \in stale : owner[s] # u}
    BY <1>5 DEF Gateway!Rejoin
  <2> QED BY <1>1, <1>2, <1>3, <2>1, DueKept
<1>6. ASSUME member' = member, stale' = stale, unheard' \subseteq Users, unheard \subseteq unheard',
             revoking \subseteq revoking' \union unheard' \union {u},
             u \in revoking' \/ Places(fromRedis', Due(u)) # {} \/ u \in unheard',
             \A V : Places(fromRedis, V) \subseteq Places(fromRedis', V)
      PROVE  DueInv'
  <2>1. ASSUME NEW q \in stale', open'[q]
        PROVE  /\ open[q] /\ subscribed'[q] /\ owner[q] \notin member'
               /\ \/ owner[q] \in revoking'
                  \/ Places(fromRedis', Due(owner[q])) # {}
                  \/ owner[q] \in unheard'
    <3>1. /\ open[q] /\ subscribed[q] /\ owner[q] \notin member
          /\ owner[q] \in revoking \/ Places(fromRedis, Due(owner[q])) # {} \/ owner[q] \in unheard
      BY <1>1, <1>3, <1>6, <2>1
    <3>2. CASE owner[q] = u
      BY <1>1, <1>6, <3>1, <3>2
    <3>3. CASE owner[q] # u
      <4>1. Places(fromRedis, Due(owner[q])) # {} => Places(fromRedis', Due(owner[q])) # {}
        BY <1>6
      <4> QED BY <1>1, <1>6, <3>1, <3>3, <4>1
    <3> QED BY <3>2, <3>3
  <2> QED BY <1>1, <1>2, <1>6, <2>1, DueKept
<1>7. CASE Gateway!ParkRevocation(u)
  <2>1. /\ member' = member /\ stale' = stale /\ unheard' = unheard \union {u} /\ revoking' = revoking \ {u}
        /\ fromRedis' = fromRedis
    BY <1>7 DEF Gateway!ParkRevocation
  <2> QED BY <1>2, <1>6, <2>1
<1>8. CASE Gateway!PublishRevocation(u)
  <2>1. /\ member' = member /\ stale' = stale /\ u \in revoking
        /\ \/ revoking' = revoking /\ unheard' = unheard
           \/ /\ revoking' = revoking \ {u}
              /\ unheard' = IF connected /\ hearing THEN unheard ELSE unheard \union {u}
        /\ fromRedis' = IF connected /\ hearing THEN Append(fromRedis, Gateway!Revocation(u)) ELSE fromRedis
    BY <1>8 DEF Gateway!PublishRevocation
  <2>2. CASE connected /\ hearing
    <3>1. PICK a : a = Gateway!Revocation(u)
      OBVIOUS
    <3>2. a \in Answers \union Instructions /\ a \in Due(u)
      BY <3>1 DEF Instructions, Gateway!Revocation, Due
    <3>3. fromRedis' = Append(fromRedis, a)
      BY <2>1, <2>2, <3>1
    <3>4. /\ DOMAIN fromRedis = 1..Len(fromRedis) /\ Len(fromRedis) \in Nat
          /\ DOMAIN Append(fromRedis, a) = 1..(Len(fromRedis) + 1)
          /\ Append(fromRedis, a)[Len(fromRedis) + 1] = a
          /\ \A i \in 1..Len(fromRedis) : Append(fromRedis, a)[i] = fromRedis[i]
      BY <1>2, <3>2
    <3>5. \A V : Places(fromRedis, V) \subseteq Places(Append(fromRedis, a), V)
      <4>1. 1..Len(fromRedis) \subseteq 1..(Len(fromRedis) + 1)
        BY <3>4
      <4> QED BY <3>4, <4>1 DEF Places
    <3>6. Len(fromRedis) + 1 \in Places(Append(fromRedis, a), Due(u))
      <4>1. Len(fromRedis) + 1 \in 1..(Len(fromRedis) + 1)
        BY <3>4
      <4> QED BY <3>2, <3>4, <4>1 DEF Places
    <3> QED BY <1>2, <1>6, <2>1, <3>3, <3>5, <3>6
  <2>3. CASE ~(connected /\ hearing)
    BY <1>2, <1>6, <2>1, <2>3
  <2> QED BY <2>2, <2>3
<1> QED BY <1>4, <1>5, <1>7, <1>8

\* The connection breaks: whose instruction was on it is known not to have heard.
LEMMA DueBreaks ==
  ASSUME GatewayInv, DueInv, Gateway!Disconnect
  PROVE  DueInv'
<1>1. /\ owner' = owner /\ open' = open /\ subscribed' = subscribed /\ member' = member
      /\ revoking' = revoking /\ stale' = stale
      /\ unheard' = unheard \union {u \in Users \ revoking :
                                       \E i \in DOMAIN fromRedis : fromRedis[i] = Gateway!Revocation(u)}
  BY DEF Gateway!Disconnect
<1>2. /\ stale \subseteq Sockets /\ open \in [Sockets -> BOOLEAN] /\ owner \in [Sockets -> Users]
      /\ unheard \subseteq Users
  BY DEF DueInv, StaleTypes
<1>3. ASSUME NEW q \in stale', open'[q]
      PROVE  /\ open[q] /\ subscribed'[q] /\ owner[q] \notin member'
             /\ \/ owner[q] \in revoking'
                \/ Places(fromRedis', Due(owner[q])) # {}
                \/ owner[q] \in unheard'
  <2>1. /\ open[q] /\ subscribed[q] /\ owner[q] \notin member /\ owner[q] \in Users
        /\ owner[q] \in revoking \/ Places(fromRedis, Due(owner[q])) # {} \/ owner[q] \in unheard
    BY <1>1, <1>2, <1>3 DEF DueInv, RevocationDue
  <2>2. CASE Places(fromRedis, Due(owner[q])) # {}
    <3>1. PICK i \in DOMAIN fromRedis : fromRedis[i] = Gateway!Revocation(owner[q])
      BY <2>2 DEF Places, Due
    <3> QED BY <1>1, <2>1, <3>1
  <2> QED BY <1>1, <2>1, <2>2
<1>4. unheard' \subseteq Users
  BY <1>1, <1>2
<1> QED BY <1>1, <1>2, <1>3, <1>4, DueKept

\* The instruction is taken, and every open socket of the user that was owed it leaves.
LEMMA DueRevokes ==
  ASSUME GatewayInv, DueInv, NEW u \in Users, Gateway!Revoke(u)
  PROVE  DueInv'
<1> DEFINE mine == {s \in Sockets : open[s] /\ owner[s] = u /\ subscribed[s]}
<1>1. PICK i \in Gateway!Instructions(u) :
        Gateway!Detach(mine) /\ fromRedis' = Gateway!RemoveAt(fromRedis, i)
  BY DEF Gateway!Revoke
<1>2. owner' = owner /\ open' = open /\ member' = member /\ revoking' = revoking /\ unheard' = unheard
  BY DEF Gateway!Revoke
<1>3. /\ stale \subseteq Sockets /\ open \in [Sockets -> BOOLEAN] /\ subscribed \in [Sockets -> BOOLEAN]
      /\ fromRedis \in Seq(Answers \union Instructions) /\ unheard \subseteq Users
  BY DEF GatewayInv, QueuesOK, FlagsOK, DueInv, StaleTypes
<1>4. i \in 1..Len(fromRedis) /\ fromRedis[i] = Gateway!Revocation(u)
  BY <1>1, <1>3 DEF Gateway!Instructions
<1>5. \A q \in stale : open[q] => subscribed[q] /\ owner[q] \notin member
  BY DEF DueInv, RevocationDue
<1>6. stale' = stale \ mine /\ \A q \in Sockets \ mine : subscribed'[q] = subscribed[q]
  <2> HIDE DEF mine
  <2> QED BY <1>1, <1>3 DEF Gateway!Detach
<1>7. \A q \in stale' : open[q] => owner[q] # u
  BY <1>3, <1>5, <1>6
<1>8. \A v : v # u => (Places(fromRedis', Due(v)) = {} <=> Places(fromRedis, Due(v)) = {})
  <2> SUFFICES ASSUME NEW v, v # u
               PROVE  Places(fromRedis', Due(v)) = {} <=> Places(fromRedis, Due(v)) = {}
    OBVIOUS
  <2>1. fromRedis[i] \notin Due(v)
    BY <1>4 DEF Due, Gateway!Revocation
  <2>2. PICK r : r = fromRedis' /\ Without(fromRedis, i, r)
    BY <1>1, <1>3, <1>4, RemoveAtIs
  <2> QED BY <1>3, <1>4, <2>1, <2>2, WithoutOut
<1>9. stale' \subseteq stale /\ stale' \subseteq Sockets \ mine
  BY <1>3, <1>6
<1> HIDE DEF mine
<1> QED BY <1>2, <1>3, <1>5, <1>6, <1>7, <1>8, <1>9, DueKept

\* No revocation is lost but by a publication nobody heard: between the end of a membership and
\* the moment its open sockets leave the channel, the worker still holds the instruction or the
\* gateway's connection carries it (publishRevocation, revoke), whatever attaches, answers,
\* refusals, breaks and redeliveries come between, or else the last one published found no
\* connection, no subscription to the revocation topic, or was parked; and each socket still has
\* the record that revoke goes by.  The safety half of Gateway!RevocationReaches: what is left to
\* fairness is that the steps run.
THEOREM NoRevocationLost ==
  ASSUME SocketOwners \subseteq [Sockets -> Users]
  PROVE  Gateway!Spec => []RevocationDue
<1>1. Gateway!Init => GatewayInv /\ DueInv
  BY GatewayInit DEF Gateway!Init, DueInv, StaleTypes, RevocationDue
<1>2. GatewayInv /\ DueInv /\ [Gateway!Next]_Gateway!vars => GatewayInv' /\ DueInv'
  <2> SUFFICES ASSUME GatewayInv, DueInv, [Gateway!Next]_Gateway!vars PROVE DueInv'
    BY GatewayStep
  <2>1. CASE \E s \in Sockets : Gateway!SubscribeFrame(s) \/ Gateway!UnsubscribeFrame(s) \/ Gateway!Close(s)
    BY <2>1, DueFrames, DueLeaves
  <2>2. CASE \E s \in Sockets : Gateway!Handle(s)
    BY <2>2, DueFrames, DueAnswers DEF Gateway!Handle
  <2>3. CASE \E u \in Users : \/ Gateway!EndMembership(u) \/ Gateway!Rejoin(u)
                              \/ Gateway!PublishRevocation(u) \/ Gateway!ParkRevocation(u) \/ Gateway!Revoke(u)
    BY <2>3, DueChanges, DueRevokes
  <2>4. CASE Gateway!RedisServe \/ Gateway!Left \/ Gateway!Disconnect \/ Gateway!Reconnect \/ Gateway!Flush
    BY <2>4, DueAnswers, DueBreaks, DueFrames
  <2>5. CASE UNCHANGED Gateway!vars
    BY <2>5 DEF Gateway!vars, DueInv, StaleTypes, RevocationDue, Due, Places, Gateway!Revocation
  <2> QED BY <2>1, <2>2, <2>3, <2>4, <2>5 DEF Gateway!Next
<1>3. DueInv => RevocationDue
  BY DEF DueInv
<1> QED BY <1>1, <1>2, <1>3, PTL DEF Gateway!Spec

-----------------------------------------------------------------------------
\* What is sent and answered, by kind: the requests for the topic and for its end.
Asks == {Gateway!Subscribe(s) : s \in Sockets}
Ends == {Gateway!Unsubscribe}
Yes  == {Gateway!Accepted(s) : s \in Sockets}
Told == Yes \union {Gateway!Refused(s) : s \in Sockets}
Gone == {Gateway!Unsubscribed}

LEMMA Kinds ==
  /\ Commands = Asks \union Ends /\ Asks \intersect Ends = {}
  /\ Told \subseteq Answers /\ Gone \subseteq Answers /\ Yes \subseteq Told /\ Told \intersect Gone = {}
  /\ \A a \in Answers : (Gateway!Again(a) \in Asks <=> a \in Told) /\ (Gateway!Again(a) \in Ends <=> a \in Gone)
  /\ \A u : Gateway!Revocation(u) \notin Told \union Gone
  /\ \A s \in Sockets : Gateway!Accepted(s) \in Yes /\ Gateway!Refused(s) \in Told \ Yes
<1>1. Commands = Asks \union Ends /\ Asks \intersect Ends = {}
  BY DEF Commands, Asks, Ends, Gateway!Subscribe, Gateway!Unsubscribe
<1>2. Told \subseteq Answers /\ Gone \subseteq Answers /\ Yes \subseteq Told /\ Told \intersect Gone = {}
  BY DEF Told, Yes, Gone, Answers, Gateway!Accepted, Gateway!Refused, Gateway!Unsubscribed
<1>3. ASSUME NEW a \in Answers
      PROVE  (Gateway!Again(a) \in Asks <=> a \in Told) /\ (Gateway!Again(a) \in Ends <=> a \in Gone)
  <2>1. CASE a = Gateway!Unsubscribed
    <3>1. Gateway!Again(a) = Gateway!Unsubscribe
      BY <2>1 DEF Gateway!Again
    <3>2. a \in Gone /\ a \notin Told
      BY <1>2, <2>1 DEF Gone
    <3> QED BY <1>1, <3>1, <3>2 DEF Ends
  <2>2. CASE a # Gateway!Unsubscribed
    <3>1. a \in [t : {"accepted", "refused"}, for : Sockets]
      BY <2>2 DEF Answers
    <3>2. a.for \in Sockets /\ (a = Gateway!Accepted(a.for) \/ a = Gateway!Refused(a.for))
      BY <3>1 DEF Gateway!Accepted, Gateway!Refused
    <3>3. a \in Told /\ a \notin Gone
      BY <1>2, <3>2 DEF Told, Yes
    <3>4. Gateway!Again(a) = Gateway!Subscribe(a.for)
      BY <2>2 DEF Gateway!Again
    <3>5. Gateway!Again(a) \in Asks
      BY <3>2, <3>4 DEF Asks
    <3> QED BY <1>1, <3>3, <3>5
  <2> QED BY <2>1, <2>2
<1>4. \A u : Gateway!Revocation(u) \notin Told \union Gone
  BY DEF Told, Yes, Gone, Gateway!Revocation, Gateway!Accepted, Gateway!Refused, Gateway!Unsubscribed
<1>5. \A s \in Sockets : Gateway!Accepted(s) \in Yes /\ Gateway!Refused(s) \in Told \ Yes
  BY DEF Told, Yes, Gateway!Accepted, Gateway!Refused
<1> QED BY <1>1, <1>2, <1>3, <1>4, <1>5

\* Every V stands before every W; and a queue that only lost elements keeps that.
Before(q, V, W) == \A i \in Places(q, V) : \A j \in Places(q, W) : i < j
Thinned(q, r) == \A V, W : /\ Before(q, V, W) => Before(r, V, W)
                           /\ Places(q, V) = {} => Places(r, V) = {}

LEMMA ThinnedSame == \A q : Thinned(q, q)
  BY DEF Thinned

LEMMA ThinnedWithout ==
  ASSUME NEW T, NEW q \in Seq(T), NEW i \in 1..Len(q), NEW r, Without(q, i, r)
  PROVE  Thinned(q, r)
<1> DEFINE from(j) == IF j < i THEN j ELSE j + 1
<1>1. DOMAIN q = 1..Len(q) /\ Len(q) \in Nat /\ DOMAIN r = 1..(Len(q) - 1)
  BY DEF Without
<1>2. \A j \in DOMAIN r : from(j) \in DOMAIN q /\ r[j] = q[from(j)]
  BY <1>1 DEF Without
<1>3. \A j, k \in Nat : from(j) < from(k) => j < k
  OBVIOUS
<1>4. DOMAIN r \subseteq Nat
  BY <1>1
<1> HIDE DEF from
<1>5. \A V : \A j \in Places(r, V) : j \in Nat /\ from(j) \in Places(q, V)
  BY <1>2, <1>4 DEF Places
<1> QED BY <1>3, <1>5 DEF Thinned, Before

LEMMA ThinnedTail ==
  ASSUME NEW T, NEW q \in Seq(T), q # <<>>
  PROVE  Thinned(q, Tail(q))
  BY TailIs, ThinnedWithout

\* The last of a queue stands after everything in it.
LEMMA AppendLater ==
  ASSUME NEW T, NEW q \in Seq(T), NEW v \in T, NEW V, NEW W, v \notin V, Before(q, V, W)
  PROVE  Before(Append(q, v), V, W)
<1>1. Places(Append(q, v), V) = Places(q, V)
  BY AppendOut
<1>2. /\ DOMAIN q = 1..Len(q) /\ Len(q) \in Nat /\ DOMAIN Append(q, v) = 1..(Len(q) + 1)
      /\ \A i \in 1..Len(q) : Append(q, v)[i] = q[i]
  OBVIOUS
<1>3. ASSUME NEW i \in Places(q, V), NEW j \in Places(Append(q, v), W) PROVE i < j
  <2>1. i \in 1..Len(q) /\ j \in 1..(Len(q) + 1) /\ Append(q, v)[j] \in W
    BY <1>2 DEF Places
  <2>2. CASE j = Len(q) + 1
    BY <1>2, <2>1, <2>2
  <2>3. CASE j # Len(q) + 1
    <3>1. j \in 1..Len(q)
      BY <1>2, <2>1, <2>3
    <3>2. j \in Places(q, W)
      BY <1>2, <2>1, <3>1 DEF Places
    <3> QED BY <3>2 DEF Before
  <2> QED BY <2>2, <2>3
<1> QED BY <1>1, <1>3 DEF Before

\* While nothing crossed, all that ends the topic was sent before all that asks for it; so an
\* entry stands with the topic held, and with nothing under way that would end it.
FedOK ==
  /\ Before(toRedis, Ends, Asks) /\ Before(fromRedis, Gone, Told)
  /\ Places(fromRedis, Told) = {} \/ Places(toRedis, Ends) = {}
  /\ sockets # {} => /\ Places(toRedis, Ends) = {} /\ Places(fromRedis, Gone) = {}
                     /\ joined /\ (connected => topic)
  /\ connected /\ Places(fromRedis, Yes) # {} => topic
FedInv == (~connected => fromRedis = <<>>) /\ (~crossed => FedOK)

\* A step that adds nothing to either queue and no socket to an empty entry.
LEMMA FedKept ==
  ASSUME FedInv, connected' = connected, crossed' = crossed, joined' = joined, topic' = topic,
         sockets' # {} => sockets # {}, ~connected => fromRedis' = fromRedis,
         Thinned(toRedis, toRedis'), Thinned(fromRedis, fromRedis')
  PROVE  FedInv'
<1> SUFFICES ASSUME ~crossed PROVE FedOK'
  BY DEF FedInv
<1>1. FedOK
  BY DEF FedInv
<1>2. /\ Places(toRedis, Ends) = {} => Places(toRedis', Ends) = {}
      /\ Before(toRedis, Ends, Asks) => Before(toRedis', Ends, Asks)
  BY DEF Thinned
<1>3. /\ Places(fromRedis, Gone) = {} => Places(fromRedis', Gone) = {}
      /\ Places(fromRedis, Told) = {} => Places(fromRedis', Told) = {}
      /\ Places(fromRedis, Yes) = {} => Places(fromRedis', Yes) = {}
      /\ Before(fromRedis, Gone, Told) => Before(fromRedis', Gone, Told)
  BY DEF Thinned
<1>4. Before(toRedis', Ends, Asks) /\ Before(fromRedis', Gone, Told)
  BY <1>1, <1>2, <1>3 DEF FedOK
<1>5. Places(fromRedis', Told) = {} \/ Places(toRedis', Ends) = {}
  BY <1>1, <1>2, <1>3 DEF FedOK
<1>6. sockets' # {} => /\ Places(toRedis', Ends) = {} /\ Places(fromRedis', Gone) = {}
                       /\ joined' /\ (connected' => topic')
  BY <1>1, <1>2, <1>3 DEF FedOK
<1>7. connected' /\ Places(fromRedis', Yes) # {} => topic'
  BY <1>1, <1>3 DEF FedOK
<1> QED BY <1>4, <1>5, <1>6, <1>7 DEF FedOK, Before, Places, Ends, Asks, Gone, Told, Yes, Gateway!Subscribe,
     Gateway!Unsubscribe, Gateway!Accepted, Gateway!Refused, Gateway!Unsubscribed

\* No frame waits: neither a SUBSCRIBE nor an answer to one is under way.
LEMMA Unawaited ==
  ASSUME GatewayInv, Gateway!Attaching = {}
  PROVE  Places(toRedis, Asks) = {} /\ Places(fromRedis, Told) = {} /\ Places(fromRedis, Yes) = {}
<1>1. \A s \in Sockets : Places(toRedis, Sub(s)) = {} /\ Places(fromRedis, Ans(s)) = {}
  BY DEF GatewayInv, AwaitsInv, AwaitsOK, Gateway!Attaching
<1>2. Asks = UNION {Sub(s) : s \in Sockets} /\ Told = UNION {Ans(s) : s \in Sockets}
  BY DEF Asks, Sub, Told, Yes, Ans
<1>3. Places(toRedis, Asks) = {} /\ Places(fromRedis, Told) = {}
  BY <1>1, <1>2 DEF Places
<1> QED BY <1>3, Kinds DEF Places

LEMMA FedLeaves ==
  ASSUME GatewayInv, FedInv, NEW S \in SUBSET Sockets, Gateway!Detach(S),
         connected' = connected, joined' = joined, topic' = topic,
         Thinned(fromRedis, fromRedis'), ~connected => fromRedis' = fromRedis
  PROVE  FedInv'
<1>1. CASE toRedis' = toRedis /\ crossed' = crossed
  <2>1. sockets' # {} => sockets # {}
    BY DEF Gateway!Detach
  <2> QED BY <1>1, <2>1, FedKept, ThinnedSame
<1>2. CASE ~(toRedis' = toRedis /\ crossed' = crossed)
  <2>1. /\ sockets' = {} /\ toRedis' = Append(toRedis, Gateway!Unsubscribe)
        /\ crossed' = (Gateway!Attaching # {})
    BY <1>2 DEF Gateway!Detach
  <2> SUFFICES ASSUME ~crossed' PROVE FedOK'
    BY DEF FedInv
  <2>2. Gateway!Attaching = {}
    BY <2>1
  <2>3. Places(toRedis, Asks) = {} /\ Places(fromRedis, Told) = {} /\ Places(fromRedis, Yes) = {}
    BY <2>2, Unawaited
  <2>4. toRedis \in Seq(Commands) /\ Gateway!Unsubscribe \in Commands /\ Gateway!Unsubscribe \notin Asks
    BY Kinds DEF GatewayInv, QueuesOK, Ends
  <2>5. Places(toRedis', Asks) = {}
    BY <2>1, <2>3, <2>4, AppendOut
  <2>6. Places(fromRedis', Told) = {} /\ Places(fromRedis', Yes) = {}
    BY <2>3 DEF Thinned
  <2>7. Before(toRedis', Ends, Asks) /\ Before(fromRedis', Gone, Told)
    BY <2>5, <2>6 DEF Before
  <2> QED BY <2>1, <2>6, <2>7 DEF FedOK, Before, Places, Ends, Asks, Gone, Told, Yes, Gateway!Subscribe,
       Gateway!Unsubscribe, Gateway!Accepted, Gateway!Refused, Gateway!Unsubscribed
<1> QED BY <1>1, <1>2

LEMMA FedServes == ASSUME GatewayInv, FedInv, Gateway!RedisServe PROVE FedInv'
<1>1. /\ connected /\ toRedis # <<>> /\ toRedis' = Tail(toRedis)
      /\ connected' = connected /\ crossed' = crossed /\ joined' = joined /\ sockets' = sockets
  BY DEF Gateway!RedisServe
<1> SUFFICES ASSUME ~crossed PROVE FedOK'
  BY <1>1 DEF FedInv
<1>2. FedOK
  BY DEF FedInv
<1>3. toRedis \in Seq(Commands) /\ fromRedis \in Seq(Answers \union Instructions)
  BY DEF GatewayInv, QueuesOK
<1>4. PICK c : c = Head(toRedis)
  OBVIOUS
<1>5. toRedis[1] = c /\ 1 \in DOMAIN toRedis /\ c \in Commands /\ DOMAIN toRedis \subseteq 1..Len(toRedis)
  BY <1>1, <1>3, <1>4, TailIs
<1>6. Thinned(toRedis, toRedis')
  BY <1>1, <1>3, ThinnedTail
<1>7. Before(toRedis', Ends, Asks)
  BY <1>2, <1>6 DEF FedOK, Thinned
<1>8. PICK a : /\ fromRedis' = Append(fromRedis, a)
               /\ \/ /\ c.cmd = "subscribe" /\ topic'
                     /\ a = Gateway!Accepted(c.for)
                  \/ c.cmd = "subscribe" /\ a = Gateway!Refused(c.for) /\ topic' = topic
                  \/ c.cmd # "subscribe" /\ a = Gateway!Unsubscribed
  BY <1>4 DEF Gateway!RedisServe
<1>9. CASE c \in Asks
  <2>1. PICK s \in Sockets : c = Gateway!Subscribe(s)
    BY <1>9 DEF Asks
  <2>2. c.cmd = "subscribe" /\ c.for = s
    BY <2>1 DEF Gateway!Subscribe
  <2>3. a \in Told /\ a \notin Gone /\ a \in Answers \union Instructions /\ (a \in Yes => topic')
        /\ (topic => topic')
    BY <1>8, <2>2, Kinds
  <2>4. Places(toRedis, Ends) = {}
    <3>1. 1 \in Places(toRedis, Asks)
      BY <1>5, <1>9 DEF Places
    <3>2. ASSUME NEW i \in Places(toRedis, Ends) PROVE FALSE
      <4>1. i < 1 /\ i \in 1..Len(toRedis)
        BY <1>2, <1>5, <3>1 DEF FedOK, Before, Places
      <4> QED BY <4>1
    <3> QED BY <3>2
  <2>5. Places(toRedis', Ends) = {}
    BY <1>6, <2>4 DEF Thinned
  <2>6. Before(fromRedis', Gone, Told)
    <3>1. Before(Append(fromRedis, a), Gone, Told)
      BY <1>2, <1>3, <2>3, AppendLater DEF FedOK
    <3> QED BY <1>8, <3>1
  <2>7. Places(fromRedis', Gone) = Places(fromRedis, Gone)
    <3>1. Places(Append(fromRedis, a), Gone) = Places(fromRedis, Gone)
      BY <1>3, <2>3, AppendOut
    <3> QED BY <1>8, <3>1
  <2>8. Places(fromRedis', Yes) # {} => topic'
    <3>1. CASE a \in Yes
      BY <2>3, <3>1
    <3>2. CASE a \notin Yes
      <4>1. Places(Append(fromRedis, a), Yes) = Places(fromRedis, Yes)
        BY <1>3, <2>3, <3>2, AppendOut
      <4> QED BY <1>1, <1>2, <1>8, <2>3, <4>1 DEF FedOK
    <3> QED BY <3>1, <3>2
  <2>9. sockets' # {} => /\ Places(toRedis', Ends) = {} /\ Places(fromRedis', Gone) = {}
                         /\ joined' /\ (connected' => topic')
    BY <1>1, <1>2, <2>3, <2>5, <2>7 DEF FedOK
  <2> QED BY <1>7, <2>5, <2>6, <2>8, <2>9 DEF FedOK, Before, Places, Ends, Asks, Gone, Told, Yes,
       Gateway!Subscribe, Gateway!Unsubscribe, Gateway!Accepted, Gateway!Refused, Gateway!Unsubscribed
<1>10. CASE c \in Ends
  <2>1. a = Gateway!Unsubscribed
    BY <1>8, <1>10 DEF Ends, Gateway!Unsubscribe
  <2>2. a \notin Told /\ a \in Answers \union Instructions /\ a \notin Yes
    BY <2>1, Kinds DEF Gone
  <2>3. Places(toRedis, Ends) # {}
    BY <1>5, <1>10 DEF Places
  <2>4. sockets = {} /\ Places(fromRedis, Told) = {}
    BY <1>2, <2>3 DEF FedOK
  <2>5. Places(fromRedis', Told) = {}
    <3>1. Places(Append(fromRedis, a), Told) = Places(fromRedis, Told)
      BY <1>3, <2>2, AppendOut
    <3> QED BY <1>8, <2>4, <3>1
  <2>6. Before(fromRedis', Gone, Told) /\ Places(fromRedis', Yes) = {}
    BY <2>5, Kinds DEF Before, Places
  <2> QED BY <1>1, <1>7, <2>4, <2>5, <2>6 DEF FedOK, Before, Places, Ends, Asks, Gone, Told, Yes,
       Gateway!Subscribe, Gateway!Unsubscribe, Gateway!Accepted, Gateway!Refused, Gateway!Unsubscribed
<1> QED BY <1>5, <1>9, <1>10, Kinds

\* The answer to a SUBSCRIBE, or to an UNSUBSCRIBE, is read.
LEMMA FedAnswers ==
  ASSUME GatewayInv, FedInv,
         Gateway!Left \/ \E s \in Sockets : Gateway!AttachDone(s) \/ Gateway!AttachRefused(s)
  PROVE  FedInv'
<1>1. /\ fromRedis # <<>> /\ fromRedis' = Tail(fromRedis) /\ toRedis' = toRedis /\ connected' = connected
      /\ topic' = topic /\ crossed' = crossed
  BY DEF Gateway!Left, Gateway!AttachDone, Gateway!AttachRefused, Gateway!Read
<1>2. fromRedis \in Seq(Answers \union Instructions)
  BY DEF GatewayInv, QueuesOK
<1>3. Thinned(fromRedis, fromRedis') /\ Thinned(toRedis, toRedis')
  BY <1>1, <1>2, ThinnedTail, ThinnedSame
<1>4. connected
  BY <1>1 DEF FedInv
<1>5. fromRedis[1] = Head(fromRedis) /\ 1 \in DOMAIN fromRedis /\ DOMAIN fromRedis \subseteq Nat \ {0}
  BY <1>1, <1>2, TailIs
<1>6. CASE \E s \in Sockets : Gateway!AttachRefused(s)
  <2>1. sockets' = sockets /\ joined' = joined
    BY <1>6 DEF Gateway!AttachRefused
  <2> QED BY <1>1, <1>3, <1>4, <2>1, FedKept
<1>7. CASE Gateway!Left
  <2>1. sockets' = sockets /\ Head(fromRedis) = Gateway!Unsubscribed
    BY <1>7 DEF Gateway!Left, Gateway!Read
  <2>2. Places(fromRedis, Gone) # {}
    BY <1>5, <2>1 DEF Places, Gone
  <2> SUFFICES ASSUME ~crossed PROVE FedOK'
    BY <1>1, <1>4 DEF FedInv
  <2>3. FedOK /\ sockets' = {}
    BY <2>1, <2>2 DEF FedInv, FedOK
  <2>4. /\ Before(toRedis', Ends, Asks) /\ Before(fromRedis', Gone, Told)
        /\ Places(fromRedis', Told) = {} \/ Places(toRedis', Ends) = {}
        /\ connected' /\ Places(fromRedis', Yes) # {} => topic'
    BY <1>1, <1>3, <2>3 DEF FedOK, Thinned
  <2> QED BY <2>3, <2>4 DEF FedOK, Before, Places, Ends, Asks, Gone, Told, Yes, Gateway!Subscribe,
       Gateway!Unsubscribe, Gateway!Accepted, Gateway!Refused, Gateway!Unsubscribed
<1>8. CASE \E s \in Sockets : Gateway!AttachDone(s)
  <2>1. joined' /\ Head(fromRedis) \in Yes
    BY <1>8 DEF Gateway!AttachDone, Gateway!Read, Yes
  <2> SUFFICES ASSUME ~crossed PROVE FedOK'
    BY <1>1, <1>4 DEF FedInv
  <2>2. FedOK
    BY DEF FedInv
  <2>3. 1 \in Places(fromRedis, Yes) /\ 1 \in Places(fromRedis, Told)
    BY <1>5, <2>1, Kinds DEF Places
  <2>4. topic /\ Places(toRedis, Ends) = {}
    BY <1>4, <2>2, <2>3 DEF FedOK
  <2>5. Places(fromRedis, Gone) = {}
    <3>1. ASSUME NEW i \in Places(fromRedis, Gone) PROVE FALSE
      <4>1. i < 1 /\ i \in Nat \ {0}
        BY <1>5, <2>2, <2>3 DEF FedOK, Before, Places
      <4> QED BY <4>1
    <3> QED BY <3>1
  <2>6. Places(fromRedis', Gone) = {} /\ Places(toRedis', Ends) = {} /\ topic'
    BY <1>1, <1>3, <2>4, <2>5 DEF Thinned
  <2>7. Before(toRedis', Ends, Asks) /\ Before(fromRedis', Gone, Told)
    BY <1>3, <2>2 DEF FedOK, Thinned
  <2> QED BY <2>1, <2>6, <2>7 DEF FedOK, Before, Places, Ends, Asks, Gone, Told, Yes, Gateway!Subscribe,
       Gateway!Unsubscribe, Gateway!Accepted, Gateway!Refused, Gateway!Unsubscribed
<1> QED BY <1>6, <1>7, <1>8

\* A first subscriber asks for the topic behind all that was sent to end it.
LEMMA FedAsks == ASSUME GatewayInv, FedInv, NEW s \in Sockets, Gateway!AttachFirst(s) PROVE FedInv'
<1>1. /\ sockets = {} /\ sockets' = {} /\ toRedis' = Append(toRedis, Gateway!Subscribe(s))
      /\ fromRedis' = fromRedis /\ connected' = connected /\ topic' = topic
      /\ crossed' = (crossed /\ Gateway!Attaching # {})
  BY DEF Gateway!AttachFirst
<1> SUFFICES ASSUME ~crossed' PROVE FedOK'
  BY <1>1 DEF FedInv
<1>2. PICK c : c = Gateway!Subscribe(s)
  OBVIOUS
<1>3. c \in Commands /\ c \notin Ends /\ toRedis \in Seq(Commands)
  BY <1>2, Kinds DEF Asks, GatewayInv, QueuesOK
<1>4. /\ Before(toRedis, Ends, Asks) /\ Before(fromRedis, Gone, Told)
      /\ Places(fromRedis, Told) = {} \/ Places(toRedis, Ends) = {}
      /\ connected /\ Places(fromRedis, Yes) # {} => topic
  <2>1. CASE crossed
    <3>1. Places(toRedis, Asks) = {} /\ Places(fromRedis, Told) = {} /\ Places(fromRedis, Yes) = {}
      BY <1>1, <2>1, Unawaited
    <3> QED BY <3>1 DEF Before
  <2>2. CASE ~crossed
    BY <2>2 DEF FedInv, FedOK
  <2> QED BY <2>1, <2>2
<1>5. Before(Append(toRedis, c), Ends, Asks)
  BY <1>3, <1>4, AppendLater
<1>6. Places(Append(toRedis, c), Ends) = Places(toRedis, Ends)
  BY <1>3, AppendOut
<1>7. Before(toRedis', Ends, Asks) /\ Places(toRedis', Ends) = Places(toRedis, Ends)
  BY <1>1, <1>2, <1>5, <1>6
<1> QED BY <1>1, <1>4, <1>7 DEF FedOK, Before, Places, Ends, Asks, Gone, Told, Yes, Gateway!Subscribe,
     Gateway!Unsubscribe, Gateway!Accepted, Gateway!Refused, Gateway!Unsubscribed

\* A break keeps the order: what was answered stood before what was not served.
LEMMA FedBreaks == ASSUME GatewayInv, FedInv, Gateway!Disconnect PROVE FedInv'
<1>1. /\ connected' = FALSE /\ fromRedis' = <<>> /\ sockets' = sockets /\ joined' = joined /\ crossed' = crossed
  BY DEF Gateway!Disconnect
<1>2. PICK at, n, r : r = toRedis' /\ Resent(at, n, r)
  BY DisconnectSays
<1> SUFFICES ASSUME ~crossed PROVE FedOK'
  BY <1>1 DEF FedInv
<1>3. FedOK
  BY DEF FedInv
<1>4. /\ n \in Nat /\ Len(toRedis) \in Nat /\ DOMAIN r = 1..(n + Len(toRedis))
      /\ DOMAIN toRedis = 1..Len(toRedis) /\ DOMAIN fromRedis \subseteq Nat
  BY <1>2 DEF Resent, GatewayInv, QueuesOK
<1>5. ASSUME NEW i \in 1..n
      PROVE  /\ r[i] \in Asks <=> at[i] \in Places(fromRedis, Told)
             /\ r[i] \in Ends <=> at[i] \in Places(fromRedis, Gone)
  <2>1. /\ at[i] \in DOMAIN fromRedis /\ fromRedis[at[i]] \in Answers
        /\ r[i] = Gateway!Again(fromRedis[at[i]])
    BY <1>2 DEF Resent
  <2> QED BY <2>1, Kinds DEF Places
<1>6. ASSUME NEW i \in DOMAIN r, i \notin 1..n
      PROVE  /\ i > n
             /\ r[i] \in Asks <=> i - n \in Places(toRedis, Asks)
             /\ r[i] \in Ends <=> i - n \in Places(toRedis, Ends)
  <2>1. i - n \in 1..Len(toRedis) /\ i > n /\ r[i] = toRedis[i - n]
    BY <1>2, <1>6, ResentPlaces
  <2> QED BY <1>4, <2>1 DEF Places
<1>7. ASSUME NEW i \in Places(r, Ends), NEW j \in Places(r, Asks) PROVE i < j
  <2>1. i \in DOMAIN r /\ j \in DOMAIN r /\ r[i] \in Ends /\ r[j] \in Asks /\ i \in Nat /\ j \in Nat
    BY <1>4, <1>7 DEF Places
  <2>2. CASE i \in 1..n /\ j \in 1..n
    <3>1. at[i] \in Places(fromRedis, Gone) /\ at[j] \in Places(fromRedis, Told)
      BY <1>5, <2>1, <2>2
    <3>2. at[i] < at[j] /\ at[i] \in Nat /\ at[j] \in Nat
      BY <1>3, <1>4, <3>1 DEF FedOK, Before, Places
    <3>3. i # j /\ (j < i => at[j] < at[i])
      BY <1>2, <2>2, <3>2 DEF Resent
    <3> QED BY <2>1, <3>2, <3>3
  <2>3. CASE i \in 1..n /\ j \notin 1..n
    BY <1>4, <1>6, <2>1, <2>3
  <2>4. CASE i \notin 1..n /\ j \in 1..n
    <3>1. i - n \in Places(toRedis, Ends) /\ at[j] \in Places(fromRedis, Told)
      BY <1>5, <1>6, <2>1, <2>4
    <3> QED BY <1>3, <3>1 DEF FedOK
  <2>5. CASE i \notin 1..n /\ j \notin 1..n
    <3>1. i - n \in Places(toRedis, Ends) /\ j - n \in Places(toRedis, Asks)
      BY <1>6, <2>1, <2>5
    <3>2. i - n < j - n
      BY <1>3, <3>1 DEF FedOK, Before
    <3> QED BY <1>4, <2>1, <3>2
  <2> QED BY <2>2, <2>3, <2>4, <2>5
<1>8. ASSUME sockets # {}, NEW i \in Places(r, Ends) PROVE FALSE
  <2>1. Places(toRedis, Ends) = {} /\ Places(fromRedis, Gone) = {}
    BY <1>3, <1>8 DEF FedOK
  <2>2. i \in DOMAIN r /\ r[i] \in Ends
    BY <1>8 DEF Places
  <2> QED BY <1>5, <1>6, <2>1, <2>2
<1>9. Before(toRedis', Ends, Asks) /\ (sockets # {} => Places(toRedis', Ends) = {} /\ joined')
  BY <1>1, <1>2, <1>3, <1>7, <1>8 DEF Before, FedOK
<1>10. \A V : Places(fromRedis', V) = {}
  BY <1>1 DEF Places
<1>11. Before(fromRedis', Gone, Told)
  BY <1>10 DEF Before
<1> QED BY <1>1, <1>9, <1>10, <1>11 DEF FedOK, Before, Places, Ends, Asks, Gone, Told, Yes, Gateway!Subscribe,
     Gateway!Unsubscribe, Gateway!Accepted, Gateway!Refused, Gateway!Unsubscribed

\* ioredis subscribes again to what it had: an entry has its topic back.
LEMMA FedReconnects == ASSUME GatewayInv, FedInv, Gateway!Reconnect PROVE FedInv'
<1>1. /\ ~connected /\ fromRedis = <<>> /\ topic' = joined
      /\ UNCHANGED <<sockets, joined, toRedis, fromRedis, crossed>>
  BY DEF Gateway!Reconnect, FedInv
<1> SUFFICES ASSUME ~crossed PROVE FedOK'
  BY <1>1 DEF FedInv
<1>2. \A V : Places(fromRedis, V) = {}
  BY <1>1 DEF Places
<1> QED BY <1>1, <1>2 DEF FedInv, FedOK, Before, Places, Ends, Asks, Gone, Told, Yes, Gateway!Subscribe,
     Gateway!Unsubscribe, Gateway!Accepted, Gateway!Refused, Gateway!Unsubscribed

LEMMA FedPublishes == ASSUME GatewayInv, FedInv, NEW u \in Users, Gateway!PublishRevocation(u) PROVE FedInv'
<1>1. /\ fromRedis' = IF connected /\ hearing THEN Append(fromRedis, Gateway!Revocation(u)) ELSE fromRedis
      /\ UNCHANGED <<connected, crossed, joined, topic, sockets, toRedis>>
  BY DEF Gateway!PublishRevocation
<1>2. CASE fromRedis' = fromRedis
  BY <1>1, <1>2, FedKept, ThinnedSame
<1>3. CASE connected /\ fromRedis' = Append(fromRedis, Gateway!Revocation(u))
  <2>1. PICK a : a = Gateway!Revocation(u)
    OBVIOUS
  <2>2. a \notin Told \union Gone /\ a \notin Yes /\ a \in Answers \union Instructions
    BY <2>1, Kinds DEF Instructions, Gateway!Revocation
  <2>3. fromRedis \in Seq(Answers \union Instructions)
    BY DEF GatewayInv, QueuesOK
  <2>4. /\ Places(Append(fromRedis, a), Told) = Places(fromRedis, Told)
        /\ Places(Append(fromRedis, a), Gone) = Places(fromRedis, Gone)
        /\ Places(Append(fromRedis, a), Yes) = Places(fromRedis, Yes)
    BY <2>2, <2>3, AppendOut
  <2> SUFFICES ASSUME ~crossed PROVE FedOK'
    BY <1>1, <1>3 DEF FedInv
  <2>5. FedOK
    BY DEF FedInv
  <2>6. /\ Places(fromRedis', Told) = Places(fromRedis, Told) /\ Places(fromRedis', Gone) = Places(fromRedis, Gone)
        /\ Places(fromRedis', Yes) = Places(fromRedis, Yes)
    BY <1>3, <2>1, <2>4
  <2>7. Before(fromRedis', Gone, Told)
    BY <2>5, <2>6 DEF FedOK, Before
  <2> QED BY <1>1, <2>5, <2>6, <2>7 DEF FedOK, Before, Places, Ends, Asks, Gone, Told, Yes, Gateway!Subscribe,
       Gateway!Unsubscribe, Gateway!Accepted, Gateway!Refused, Gateway!Unsubscribed
<1> QED BY <1>1, <1>2, <1>3

LEMMA FedQuiet ==
  ASSUME GatewayInv, FedInv,
         \/ \E s \in Sockets : Gateway!SubscribeFrame(s) \/ Gateway!Reject(s) \/ Gateway!AttachExisting(s)
         \/ \E u \in Users : Gateway!EndMembership(u) \/ Gateway!Rejoin(u) \/ Gateway!ParkRevocation(u)
         \/ Gateway!Flush \/ UNCHANGED Gateway!vars
  PROVE  FedInv'
<1>1. /\ UNCHANGED <<connected, crossed, joined, topic, fromRedis>>
      /\ sockets' # {} => sockets # {}
      /\ toRedis' = toRedis \/ (toRedis # <<>> /\ toRedis' = Tail(toRedis))
  BY DEF Gateway!SubscribeFrame, Gateway!Reject, Gateway!AttachExisting, Gateway!EndMembership, Gateway!Rejoin,
         Gateway!ParkRevocation, Gateway!Flush, Gateway!vars
<1>2. toRedis \in Seq(Commands)
  BY DEF GatewayInv, QueuesOK
<1>3. Thinned(toRedis, toRedis') /\ Thinned(fromRedis, fromRedis')
  BY <1>1, <1>2, ThinnedSame, ThinnedTail
<1> QED BY <1>1, <1>3, FedKept

LEMMA FedDetaches ==
  ASSUME GatewayInv, FedInv,
         \/ \E s \in Sockets : Gateway!UnsubscribeFrame(s) \/ Gateway!Close(s)
         \/ \E u \in Users : Gateway!Revoke(u)
  PROVE  FedInv'
<1>1. CASE \E s \in Sockets : Gateway!UnsubscribeFrame(s) \/ Gateway!Close(s)
  <2>1. PICK S \in SUBSET Sockets : Gateway!Detach(S)
    BY <1>1 DEF Gateway!UnsubscribeFrame, Gateway!Close
  <2>2. UNCHANGED <<connected, joined, topic, fromRedis>>
    BY <1>1 DEF Gateway!UnsubscribeFrame, Gateway!Close
  <2> QED BY <2>1, <2>2, FedLeaves, ThinnedSame
<1>2. CASE \E u \in Users : Gateway!Revoke(u)
  <2>0. PICK u \in Users : Gateway!Revoke(u)
    BY <1>2
  <2>1. PICK i \in Gateway!Instructions(u) :
          /\ Gateway!Detach({s \in Sockets : open[s] /\ owner[s] = u /\ subscribed[s]})
          /\ fromRedis' = Gateway!RemoveAt(fromRedis, i)
          /\ UNCHANGED <<connected, joined, topic>>
    BY <2>0 DEF Gateway!Revoke
  <2>2. PICK S \in SUBSET Sockets : Gateway!Detach(S)
    BY <2>1
  <2>3. fromRedis \in Seq(Answers \union Instructions)
    BY DEF GatewayInv, QueuesOK
  <2>4. i \in 1..Len(fromRedis)
    BY <2>1, <2>3 DEF Gateway!Instructions
  <2>5. Without(fromRedis, i, fromRedis')
    BY <2>1, <2>3, <2>4, RemoveAtIs
  <2>6. Thinned(fromRedis, fromRedis')
    BY <2>3, <2>4, <2>5, ThinnedWithout
  <2>7. connected
    BY <2>3, <2>4 DEF FedInv
  <2> QED BY <2>1, <2>2, <2>6, <2>7, FedLeaves
<1> QED BY <1>1, <1>2

\* While the channel has an entry the gateway hears its topic, whatever attaches, is refused, leaves
\* or breaks in between, unless the last one out left behind a SUBSCRIBE that was still to be
\* answered: Gateway!FanOutIsFed (channel-subscriptions.ts: "an entry exists only for a channel
\* this process has an accepted Redis SUBSCRIBE for").
THEOREM FanOutStaysFed == Gateway!Spec => []Gateway!FanOutIsFed
<1>1. Gateway!Init => GatewayInv /\ FedInv
  <2> SUFFICES ASSUME Gateway!Init PROVE FedInv
    BY GatewayInit
  <2>1. connected /\ sockets = {} /\ \A V : Places(toRedis, V) = {} /\ Places(fromRedis, V) = {}
    BY DEF Gateway!Init, Places
  <2> QED BY <2>1 DEF FedInv, FedOK, Before
<1>2. GatewayInv /\ FedInv /\ [Gateway!Next]_Gateway!vars => GatewayInv' /\ FedInv'
  <2> SUFFICES ASSUME GatewayInv, FedInv, [Gateway!Next]_Gateway!vars PROVE FedInv'
    BY GatewayStep
  <2>1. CASE \E s \in Sockets : Gateway!SubscribeFrame(s) \/ Gateway!UnsubscribeFrame(s) \/ Gateway!Close(s)
    BY <2>1, FedQuiet, FedDetaches
  <2>2. CASE \E s \in Sockets : Gateway!Handle(s)
    BY <2>2, FedQuiet, FedAsks, FedAnswers DEF Gateway!Handle
  <2>3. CASE \E u \in Users : \/ Gateway!EndMembership(u) \/ Gateway!Rejoin(u)
                              \/ Gateway!PublishRevocation(u) \/ Gateway!ParkRevocation(u) \/ Gateway!Revoke(u)
    BY <2>3, FedQuiet, FedPublishes, FedDetaches
  <2>4. CASE Gateway!RedisServe \/ Gateway!Left \/ Gateway!Disconnect \/ Gateway!Reconnect \/ Gateway!Flush
    BY <2>4, FedServes, FedAnswers, FedBreaks, FedReconnects, FedQuiet
  <2>5. CASE UNCHANGED Gateway!vars
    BY <2>5, FedQuiet
  <2> QED BY <2>1, <2>2, <2>3, <2>4, <2>5 DEF Gateway!Next
<1>3. FedInv => Gateway!FanOutIsFed
  BY DEF FedInv, FedOK, Gateway!FanOutIsFed
<1> QED BY <1>1, <1>2, <1>3, PTL DEF Gateway!Spec
-----------------------------------------------------------------------------
\* The counters and the flags of the gateway that no other argument needs.
GatewayCounts == frames \in 0..MaxFrames /\ changes \in 0..MaxChanges
GatewayFlags ==
  /\ owner \in [Sockets -> Users] /\ open \in [Sockets -> BOOLEAN]
  /\ connected \in BOOLEAN /\ hearing \in BOOLEAN /\ joined \in BOOLEAN /\ topic \in BOOLEAN
  /\ member \subseteq Users /\ stale \subseteq Sockets /\ unheard \subseteq Users /\ crossed \in BOOLEAN

LEMMA CountsStep ==
  ASSUME MaxFrames \in Nat, MaxChanges \in Nat, GatewayCounts, [Gateway!Next]_Gateway!vars
  PROVE  GatewayCounts'
<1>1. frames' = frames \/ (frames < MaxFrames /\ frames' = frames + 1)
  BY DEF Gateway!Next, Gateway!vars, Gateway!SubscribeFrame, Gateway!UnsubscribeFrame, Gateway!Close,
         Gateway!Handle, Gateway!Reject, Gateway!AttachExisting, Gateway!AttachFirst, Gateway!AttachDone,
         Gateway!AttachRefused, Gateway!EndMembership, Gateway!Rejoin, Gateway!PublishRevocation,
         Gateway!ParkRevocation, Gateway!Revoke, Gateway!RedisServe, Gateway!Left, Gateway!Disconnect,
         Gateway!Reconnect, Gateway!Flush
<1>2. changes' = changes \/ (changes < MaxChanges /\ changes' = changes + 1)
  BY DEF Gateway!Next, Gateway!vars, Gateway!SubscribeFrame, Gateway!UnsubscribeFrame, Gateway!Close,
         Gateway!Handle, Gateway!Reject, Gateway!AttachExisting, Gateway!AttachFirst, Gateway!AttachDone,
         Gateway!AttachRefused, Gateway!EndMembership, Gateway!Rejoin, Gateway!PublishRevocation,
         Gateway!ParkRevocation, Gateway!Revoke, Gateway!RedisServe, Gateway!Left, Gateway!Disconnect,
         Gateway!Reconnect, Gateway!Flush
<1> QED BY <1>1, <1>2 DEF GatewayCounts

LEMMA FlagsStep ==
  ASSUME GatewayFlags, [Gateway!Next]_Gateway!vars
  PROVE  GatewayFlags'
<1>1. ASSUME NEW s \in Sockets, Gateway!SubscribeFrame(s) \/ Gateway!Handle(s) PROVE GatewayFlags'
  <2>1. /\ owner' = owner /\ open' = open /\ topic' = topic /\ member' = member /\ stale' = stale
        /\ connected' = connected /\ hearing' = hearing /\ unheard' = unheard
        /\ joined' = joined \/ joined' = TRUE
        /\ crossed' = crossed \/ crossed' = (crossed /\ Gateway!Attaching # {})
    BY <1>1 DEF Gateway!SubscribeFrame, Gateway!Handle, Gateway!Reject, Gateway!AttachExisting,
         Gateway!AttachFirst, Gateway!AttachDone, Gateway!AttachRefused
  <2>2. joined' \in BOOLEAN
    BY <2>1 DEF GatewayFlags
  <2>3. crossed' \in BOOLEAN
    BY Zenon, <2>1 DEF GatewayFlags
  <2> QED BY <2>1, <2>2, <2>3 DEF GatewayFlags
<1>2. ASSUME NEW S, Gateway!Detach(S), UNCHANGED <<owner, connected, hearing, joined, topic, member, unheard>>,
             open' = open \/ \E s \in Sockets : open' = [open EXCEPT ![s] = FALSE]
      PROVE  GatewayFlags'
  <2>1. /\ stale' \subseteq stale
        /\ crossed' = crossed \/ crossed' = (Gateway!Attaching # {})
    BY <1>2 DEF Gateway!Detach
  <2>2. open' \in [Sockets -> BOOLEAN]
    BY <1>2 DEF GatewayFlags
  <2>3. crossed' \in BOOLEAN
    BY Zenon, <2>1 DEF GatewayFlags
  <2> QED BY <1>2, <2>1, <2>2, <2>3 DEF GatewayFlags
<1>3. ASSUME NEW s \in Sockets, Gateway!UnsubscribeFrame(s) \/ Gateway!Close(s) PROVE GatewayFlags'
  <2>1. \E S : Gateway!Detach(S)
    BY <1>3 DEF Gateway!UnsubscribeFrame, Gateway!Close
  <2>2. /\ UNCHANGED <<owner, connected, hearing, joined, topic, member, unheard>>
        /\ open' = open \/ \E r \in Sockets : open' = [open EXCEPT ![r] = FALSE]
    BY <1>3 DEF Gateway!UnsubscribeFrame, Gateway!Close
  <2> QED BY <1>2, <2>1, <2>2
<1>4. ASSUME NEW u \in Users, Gateway!Revoke(u) PROVE GatewayFlags'
  <2>1. \E S : Gateway!Detach(S)
    BY <1>4 DEF Gateway!Revoke
  <2>2. UNCHANGED <<owner, connected, hearing, joined, topic, member, unheard, open>>
    BY <1>4 DEF Gateway!Revoke
  <2> QED BY <1>2, <2>1, <2>2
<1>5. ASSUME NEW u \in Users, \/ Gateway!EndMembership(u) \/ Gateway!Rejoin(u)
                              \/ Gateway!PublishRevocation(u) \/ Gateway!ParkRevocation(u)
      PROVE  GatewayFlags'
  <2>1. UNCHANGED <<owner, open, connected, hearing, joined, topic, crossed>>
    BY <1>5 DEF Gateway!EndMembership, Gateway!Rejoin, Gateway!PublishRevocation, Gateway!ParkRevocation
  <2>2. /\ member' \subseteq member \union {u} /\ stale' \subseteq stale \union Sockets
        /\ unheard' \subseteq unheard \union {u}
    BY <1>5 DEF Gateway!EndMembership, Gateway!Rejoin, Gateway!PublishRevocation, Gateway!ParkRevocation
  <2> QED BY <2>1, <2>2 DEF GatewayFlags
<1>6. CASE Gateway!RedisServe
  <2>1. UNCHANGED <<owner, open, connected, hearing, joined, member, stale, unheard, crossed>>
    BY <1>6 DEF Gateway!RedisServe
  <2>2. topic' \in BOOLEAN
    <3>1. topic' = topic \/ topic' = (Head(toRedis).cmd = "subscribe")
      BY <1>6 DEF Gateway!RedisServe
    <3> QED BY Zenon, <3>1 DEF GatewayFlags
  <2> QED BY <2>1, <2>2 DEF GatewayFlags
<1>7. CASE Gateway!Left \/ Gateway!Reconnect \/ Gateway!Flush \/ UNCHANGED Gateway!vars
  BY <1>7 DEF GatewayFlags, Gateway!vars, Gateway!Left, Gateway!Reconnect, Gateway!Flush
<1>8. CASE Gateway!Disconnect
  <2>1. /\ UNCHANGED <<owner, open, hearing, joined, member, stale, crossed>>
        /\ connected' = FALSE /\ topic' = FALSE /\ unheard' \subseteq unheard \union Users
    BY <1>8 DEF Gateway!Disconnect
  <2> QED BY <2>1 DEF GatewayFlags
<1> QED BY <1>1, <1>3, <1>4, <1>5, <1>6, <1>7, <1>8 DEF Gateway!Next

\* The maps of the gateway, its connection to Redis and the instructions on it keep their
\* types: no answer is ever for a socket, and no revocation for a user, that there is not.
THEOREM GatewayTypes ==
  ASSUME MaxFrames \in Nat, MaxChanges \in Nat, SocketOwners \subseteq [Sockets -> Users]
  PROVE  Gateway!Spec => []Gateway!TypeOK
<1>1. Gateway!Init => GatewayInv /\ GatewayCounts /\ GatewayFlags
  <2> SUFFICES ASSUME Gateway!Init PROVE GatewayInv /\ GatewayCounts /\ GatewayFlags
    OBVIOUS
  <2>1. GatewayCounts
    BY DEF Gateway!Init, GatewayCounts
  <2>2. GatewayFlags
    BY DEF Gateway!Init, GatewayFlags
  <2> QED BY <2>1, <2>2, GatewayInit
<1>2. GatewayInv /\ GatewayCounts /\ GatewayFlags /\ [Gateway!Next]_Gateway!vars
      => GatewayInv' /\ GatewayCounts' /\ GatewayFlags'
  BY GatewayStep, CountsStep, FlagsStep
<1>3. GatewayInv /\ GatewayCounts /\ GatewayFlags => Gateway!TypeOK
  BY DEF GatewayInv, QueuesOK, FlagsOK, Commands, Answers, Instructions, GatewayCounts, GatewayFlags,
         Gateway!TypeOK
<1> QED BY <1>1, <1>2, <1>3, PTL DEF Gateway!Spec
===============================================================================
