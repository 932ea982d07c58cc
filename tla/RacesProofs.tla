---------------------------- MODULE RacesProofs ----------------------------
(***************************************************************************)
(* "The Incharge is in the group" spans two tables and no constraint ties  *)
(* them together.  It holds for any number of users, groups and processes, *)
(* because whoever writes either side first holds the member's row.  The   *)
(* second half is about the cards of the requests.                         *)
(***************************************************************************)
EXTENDS Races, SequenceTheorems, TLAPS

Waiting == {"none", "ask", "announce", "decide", "add", "join", "erase", "create"}

\* The shapes of what a process is doing.
WorkOK(w) ==
  \/ w.op \in Waiting
  \/ w \in [op : {"remove", "alight"}, user : Users, step : {"find", "vacate", "commit"}, group : 0..MaxGroups]
  \/ w \in [op : {"depart", "delete"}, user : Users, step : {"vacate", "commit"}]
  \/ w \in [op : {"name"}, group : 1..MaxGroups, user : Users, step : {"select", "commit"}]
  \/ w \in [op : {"assign"}, group : 1..MaxGroups, user : Users]
  \/ w \in [op : {"disband", "clear"}, group : 1..MaxGroups]

CarsOK ==
  /\ made \in 0..MaxGroups /\ groups \subseteq 1..MaxGroups /\ (\A g \in groups : g <= made)
  /\ seat \in [Users -> 0..MaxGroups]
  /\ incharge \in [1..MaxGroups -> Users \cup {NoOne}]
  /\ lock \in [Users -> Procs \cup {NoProc}]
  /\ \A u \in Users : seat[u] # NoGroup => seat[u] \in groups

\* A lock belongs to a transaction about to commit what it locked the row for.
HeldBy(w, u) ==
  /\ w.op \in {"remove", "alight", "depart", "delete", "name"}
  /\ w.step = "commit" /\ w.user = u
  /\ w.op \notin {"depart", "delete"} => seat[u] = w.group

LocksOK ==
  /\ \A u \in Users : lock[u] # NoProc => HeldBy(work[lock[u]], u)
  /\ \A p \in Procs : work[p].op = "name" /\ work[p].step = "commit" => lock[work[p].user] = p

IInv ==
  /\ work \in [Procs -> {work[p] : p \in Procs}] /\ (\A p \in Procs : WorkOK(work[p]))
  /\ CarsOK /\ LocksOK /\ InchargeIsAboard

LEMMA InitIInv == Init => IInv
  <1> SUFFICES ASSUME Init PROVE IInv OBVIOUS
  <1> USE RacesAssumption
  <1>1. work \in [Procs -> {work[p] : p \in Procs}] /\ (\A p \in Procs : WorkOK(work[p]))
    BY DEF Init, WorkOK, Idle, Waiting
  <1>2. CarsOK
    BY DEF Init, CarsOK, NoGroup
  <1>3. LocksOK
    BY DEF Init, LocksOK, Idle
  <1>4. InchargeIsAboard
    BY DEF Init, InchargeIsAboard
  <1> QED BY <1>1, <1>2, <1>3, <1>4 DEF IInv

\* A new piece of work that holds no lock, put where there was one that holds none.
LEMMA AcceptIInv ==
  ASSUME IInv, NEW p \in Procs, NEW w, Accept(p, w), WorkOK(w),
         w.op = "name" => w.step = "select"
  PROVE  IInv'
  <1> USE RacesAssumption
  <1>1. work'[p] = w /\ (\A q \in Procs \ {p} : work'[q] = work[q]) /\ work' \in [Procs -> {work'[q] : q \in Procs}]
    BY DEF IInv, Accept
  <1>2. \A u \in Users : lock[u] # p
    BY DEF IInv, Accept, LocksOK, HeldBy, Idle
  <1>3. UNCHANGED <<made, groups, seat, incharge, lock, deleted>>
    BY DEF Accept, cars
  <1>4. CarsOK' /\ InchargeIsAboard'
    BY <1>3 DEF IInv, CarsOK, InchargeIsAboard
  <1>5. ASSUME NEW u \in Users, lock'[u] # NoProc PROVE HeldBy(work[lock[u]], u)'
    <2>1. lock[u] \in Procs \ {p} /\ HeldBy(work[lock[u]], u)
      BY <1>2, <1>3, <1>5 DEF IInv, CarsOK, LocksOK
    <2>2. work'[lock'[u]] = work[lock[u]]
      BY <2>1, <1>1, <1>3
    <2> QED BY <2>1, <2>2, <1>3 DEF HeldBy
  <1>6. ASSUME NEW q \in Procs, work'[q].op = "name", work'[q].step = "commit"
        PROVE  lock'[work'[q].user] = q
    BY <1>1, <1>3, <1>6 DEF IInv, LocksOK
  <1>7. LocksOK'
    BY <1>5, <1>6 DEF LocksOK
  <1> QED BY <1>1, <1>4, <1>7 DEF IInv, WorkOK

\* A process that finishes, holding nothing, and changes no car.
LEMMA FinishIInv ==
  ASSUME IInv, NEW p \in Procs, Finish(p) \/ (\E w : w.op \in Waiting /\ work' = [work EXCEPT ![p] = w]),
         UNCHANGED cars, work[p].op \in Waiting \cup {"clear", "disband", "assign"} \/ \A u \in Users : lock[u] # p,
         work[p].op # "name" \/ work[p].step # "commit", UNCHANGED deleted
  PROVE  IInv'
  <1> USE RacesAssumption
  <1>1. (\A q \in Procs \ {p} : work'[q] = work[q]) /\ work' \in [Procs -> {work'[q] : q \in Procs}]
    BY DEF IInv, Finish
  <1>2. work'[p].op \in Waiting
    BY DEF IInv, Finish, Idle, Waiting
  <1>3. \A u \in Users : lock[u] # p
    BY DEF IInv, LocksOK, HeldBy, Waiting
  <1>4. UNCHANGED <<made, groups, seat, incharge, lock>>
    BY DEF cars
  <1>5. CarsOK' /\ InchargeIsAboard'
    BY <1>4 DEF IInv, CarsOK, InchargeIsAboard
  <1>6. ASSUME NEW u \in Users, lock'[u] # NoProc PROVE HeldBy(work[lock[u]], u)'
    <2>1. lock[u] \in Procs \ {p} /\ HeldBy(work[lock[u]], u)
      BY <1>3, <1>4, <1>6 DEF IInv, CarsOK, LocksOK
    <2>2. work'[lock'[u]] = work[lock[u]]
      BY <2>1, <1>1, <1>4
    <2> QED BY <2>1, <2>2, <1>4 DEF HeldBy
  <1>7. ASSUME NEW q \in Procs, work'[q].op = "name", work'[q].step = "commit"
        PROVE  lock'[work'[q].user] = q
    BY <1>1, <1>2, <1>4, <1>7 DEF IInv, LocksOK, Waiting
  <1>8. LocksOK'
    BY <1>6, <1>7 DEF LocksOK
  <1> QED BY <1>1, <1>2, <1>5, <1>8 DEF IInv, WorkOK

\* What one process does leaves the others' locks on the rows they hold.
LEMMA LocksKept ==
  ASSUME IInv, NEW p \in Procs, \A q \in Procs \ {p} : work'[q] = work[q],
         \A u \in Users : lock'[u] # NoProc =>
            \/ lock'[u] = p /\ HeldBy(work[p], u)'
            \/ lock'[u] # p /\ lock'[u] = lock[u] /\ seat'[u] = seat[u],
         \A u \in Users : lock[u] \notin {p, NoProc} => lock'[u] = lock[u],
         work'[p].op = "name" /\ work'[p].step = "commit" => lock'[work'[p].user] = p
  PROVE  LocksOK'
  <1> USE RacesAssumption
  <1>1. ASSUME NEW u \in Users, lock'[u] # NoProc PROVE HeldBy(work[lock[u]], u)'
    <2>1. CASE lock'[u] = p
      BY <1>1, <2>1
    <2>2. CASE lock'[u] # p
      <3>1. lock[u] \in Procs \ {p} /\ HeldBy(work[lock[u]], u) /\ lock'[u] = lock[u] /\ seat'[u] = seat[u]
        BY <1>1, <2>2 DEF IInv, CarsOK, LocksOK
      <3>2. work'[lock'[u]] = work[lock[u]]
        BY <3>1
      <3> QED BY <3>1, <3>2 DEF HeldBy
    <2> QED BY <2>1, <2>2
  <1>2. ASSUME NEW q \in Procs, work'[q].op = "name", work'[q].step = "commit"
        PROVE  lock'[work'[q].user] = q
    <2>1. CASE q = p
      BY <1>2, <2>1
    <2>2. CASE q # p
      <3>1. work'[q] = work[q] /\ WorkOK(work[q]) /\ lock[work[q].user] = q
        BY <1>2, <2>2 DEF IInv, LocksOK
      <3>2. work[q].user \in Users
        BY <3>1, <1>2 DEF WorkOK, Waiting
      <3> QED BY <3>1, <3>2, <2>2
    <2> QED BY <2>1, <2>2
  <1> QED BY <1>1, <1>2 DEF LocksOK

\* Only a transaction about to commit holds locks, and only on its user's row.
LEMMA OwnLocks ==
  ASSUME IInv, NEW p \in Procs, NEW u \in Users, lock[u] = p
  PROVE  HeldBy(work[p], u)
  BY RacesAssumption DEF IInv, LocksOK

\* Reading the seat takes nothing.
LEMMA FindSeatIInv ==
  ASSUME IInv, NEW p \in Procs, FindSeat(p)
  PROVE  IInv'
  <1> USE RacesAssumption
  <1>1. work[p] \in [op : {"remove", "alight"}, user : Users, step : {"find", "vacate", "commit"}, group : 0..MaxGroups]
    BY DEF FindSeat, IInv, WorkOK, Waiting
  <1>2. (\A q \in Procs \ {p} : work'[q] = work[q]) /\ work' \in [Procs -> {work'[q] : q \in Procs}]
    BY DEF IInv, FindSeat, Finish
  <1>3. WorkOK(work'[p]) /\ work'[p].op # "name"
    <2>1. seat[work[p].user] \in 0..MaxGroups
      BY <1>1 DEF IInv, CarsOK
    <2>2. CASE work'[p] = Idle
      BY <2>2 DEF WorkOK, Idle, Waiting
    <2>3. CASE work'[p] # Idle
      <3>1. work'[p] = [work[p] EXCEPT !.step = IF seat[work[p].user] = NoGroup THEN "commit" ELSE "vacate", !.group = seat[work[p].user]]
        BY <2>3 DEF FindSeat, Finish, IInv
      <3> QED BY <1>1, <2>1, <3>1 DEF WorkOK
    <2> QED BY <2>2, <2>3
  <1>4. \A u \in Users : lock[u] # p
    BY OwnLocks DEF FindSeat, HeldBy
  <1>5. UNCHANGED <<made, groups, seat, incharge, lock, deleted>>
    BY DEF FindSeat, cars
  <1>6. CarsOK' /\ InchargeIsAboard'
    BY <1>5 DEF IInv, CarsOK, InchargeIsAboard
  <1>7. LocksOK'
    BY <1>2, <1>3, <1>4, <1>5, LocksKept
  <1> QED BY <1>2, <1>3, <1>6, <1>7 DEF IInv

\* The row is locked, and it is the one the departing member is known to have.
LEMMA VacateIInv ==
  ASSUME IInv, NEW p \in Procs, Vacate(p)
  PROVE  IInv'
  <1> USE RacesAssumption
  <1>1. \/ work[p] \in [op : {"remove", "alight"}, user : Users, step : {"find", "vacate", "commit"}, group : 0..MaxGroups]
        \/ work[p] \in [op : {"depart", "delete"}, user : Users, step : {"vacate", "commit"}]
    BY DEF Vacate, IInv, WorkOK, Waiting
  <1>2. (\A q \in Procs \ {p} : work'[q] = work[q]) /\ work' \in [Procs -> {work'[q] : q \in Procs}]
        /\ work'[p] = [work[p] EXCEPT !.step = "commit"]
    BY DEF IInv, Vacate
  <1>3. WorkOK(work'[p]) /\ work'[p].op = work[p].op /\ work'[p].user = work[p].user /\ work'[p].step = "commit"
        /\ (work[p].op \notin {"depart", "delete"} => work'[p].group = work[p].group)
    BY <1>1, <1>2 DEF WorkOK
  <1>4. UNCHANGED <<made, groups, seat, incharge, deleted>>
    BY DEF Vacate
  <1>5. /\ lock' \in [Users -> Procs \cup {NoProc}]
        /\ \A u \in Users : \/ lock'[u] = lock[u]
                            \/ /\ u = work[p].user /\ lock[u] = NoProc /\ lock'[u] = p
                               /\ work[p].op \notin {"depart", "delete"} => seat[u] = work[p].group
    <2>1. CASE lock' = lock
      BY <2>1 DEF IInv, CarsOK
    <2>2. CASE lock' # lock
      <3>1. /\ lock' = [lock EXCEPT ![work[p].user] = p] /\ lock[work[p].user] = NoProc
            /\ work[p].op \notin {"depart", "delete"} => seat[work[p].user] = work[p].group
        BY <2>2 DEF Vacate, Free
      <3>2. lock \in [Users -> Procs \cup {NoProc}]
        BY DEF IInv, CarsOK
      <3> QED BY <3>1, <3>2
    <2> QED BY <2>1, <2>2
  <1>6. CarsOK' /\ InchargeIsAboard'
    BY <1>4, <1>5 DEF IInv, CarsOK, InchargeIsAboard
  <1>7. \A u \in Users : lock[u] # p
    BY OwnLocks DEF Vacate, HeldBy
  <1>8. LocksOK'
    <2>1. ASSUME NEW u \in Users, lock'[u] = p PROVE HeldBy(work[p], u)'
      <3>1. u = work[p].user /\ (work[p].op \notin {"depart", "delete"} => seat[u] = work[p].group)
        BY <1>5, <1>7, <2>1 DEF IInv, CarsOK
      <3>2. work'[p].op \in {"remove", "alight", "depart", "delete"}
        BY <1>1, <1>3
      <3> QED BY <3>1, <3>2, <1>3, <1>4 DEF HeldBy
    <2>2. \A u \in Users : lock'[u] # p => lock'[u] = lock[u]
      BY <1>5 DEF IInv, CarsOK
    <2>3. work'[p].op # "name"
      BY <1>1, <1>3
    <2>4. \A u \in Users : lock[u] \notin {p, NoProc} => lock'[u] = lock[u]
      BY <1>5 DEF IInv, CarsOK
    <2> QED BY <1>2, <1>4, <2>1, <2>2, <2>3, <2>4, LocksKept
  <1> QED BY <1>2, <1>3, <1>6, <1>8 DEF IInv

\* A departure clears the office together with the seat; a deletion of the account does not.
LEMMA DepartureIInv ==
  ASSUME IInv, NEW p \in Procs, CommitDeparture(p) \/ CommitClubDeparture(p) \/ CommitAccountDeletion(p)
  PROVE  IInv'
  <1> USE RacesAssumption
  <1>1. (\A q \in Procs \ {p} : work'[q] = work[q]) /\ work' \in [Procs -> {work'[q] : q \in Procs}] /\ work'[p] = Idle
    BY DEF IInv, CommitDeparture, CommitClubDeparture, CommitAccountDeletion, Finish
  <1>2. WorkOK(work'[p]) /\ work'[p].op # "name"
    BY <1>1 DEF WorkOK, Idle, Waiting
  <1>3. made' = made /\ groups' = groups /\ lock' = Released(p) /\ seat' = Vacated(p)
    BY DEF CommitDeparture, CommitClubDeparture, CommitAccountDeletion
  <1>4. CarsOK'
    <2>1. incharge' \in [1..MaxGroups -> Users \cup {NoOne}]
      BY DEF CommitDeparture, CommitClubDeparture, CommitAccountDeletion, IInv, CarsOK
    <2>2. seat' \in [Users -> 0..MaxGroups] /\ lock' \in [Users -> Procs \cup {NoProc}] /\ \A u \in Users : seat'[u] # NoGroup => seat'[u] \in groups'
      BY <1>3 DEF Released, Vacated, IInv, CarsOK, NoGroup
    <2> QED BY <1>3, <2>1, <2>2 DEF IInv, CarsOK
  <1>5. LocksOK'
    <2>1. \A u \in Users : lock'[u] # p /\ (lock[u] # p => lock'[u] = lock[u] /\ seat'[u] = seat[u])
      BY <1>3 DEF Released, Vacated
    <2>2. \A u \in Users : lock[u] = p => lock'[u] = NoProc
      BY <1>3 DEF Released
    <2> QED BY <1>1, <1>2, <2>1, <2>2, LocksKept
  <1>6. InchargeIsAboard'
    <2> SUFFICES ASSUME NEW g \in 1..MaxGroups, incharge'[g] # NoOne, incharge'[g] \notin deleted'
                 PROVE  seat'[incharge'[g]] = g
      BY DEF InchargeIsAboard
    <2> DEFINE v == incharge[g]
    <2>0. deleted \subseteq deleted'
      BY DEF CommitDeparture, CommitClubDeparture, CommitAccountDeletion
    <2>1. incharge'[g] = v /\ v \in Users /\ v \notin deleted' /\ seat[v] = g
      BY <2>0 DEF CommitDeparture, CommitClubDeparture, CommitAccountDeletion, IInv, CarsOK, InchargeIsAboard
    <2>2. lock[v] # p
      <3>1. SUFFICES ASSUME lock[v] = p PROVE FALSE
        OBVIOUS
      <3>2. HeldBy(work[p], v)
        BY <2>1, <3>1, OwnLocks
      <3>3. g \in groups
        BY <2>1 DEF IInv, CarsOK, NoGroup
      <3>4. CASE CommitDeparture(p)
        BY <3>2, <3>3, <3>4, <2>1 DEF CommitDeparture, HeldBy, Vacates, IInv, CarsOK
      <3>5. CASE CommitClubDeparture(p)
        BY <3>2, <3>5, <2>1 DEF CommitClubDeparture, HeldBy, IInv, CarsOK
      <3>6. CASE CommitAccountDeletion(p)
        BY <3>2, <3>6, <2>1 DEF CommitAccountDeletion, HeldBy
      <3> QED BY <3>4, <3>5, <3>6
    <2> QED BY <1>3, <2>1, <2>2 DEF Vacated
  <1> QED BY <1>1, <1>2, <1>4, <1>5, <1>6 DEF IInv

\* A seat is freed or taken only while nobody holds the row.
LEMMA SeatIInv ==
  ASSUME IInv, NEW p \in Procs, CommitDeletion(p) \/ CommitGroup(p) \/ CommitGroupDeletion(p) \/ CommitSeat(p)
  PROVE  IInv'
  <1> USE RacesAssumption
  <1>1. (\A q \in Procs \ {p} : work'[q] = work[q]) /\ work' \in [Procs -> {work'[q] : q \in Procs}] /\ work'[p] = Idle
    BY DEF IInv, CommitDeletion, CommitGroup, CommitGroupDeletion, CommitSeat, Finish
  <1>2. WorkOK(work'[p]) /\ work'[p].op # "name"
    BY <1>1 DEF WorkOK, Idle, Waiting
  <1>3. WorkOK(work[p]) /\ lock' = lock /\ \A u \in Users : lock[u] # p
    BY OwnLocks DEF IInv, CommitDeletion, CommitGroup, CommitGroupDeletion, CommitSeat, HeldBy
  <1>4. \A u \in Users : lock[u] # NoProc => seat'[u] = seat[u]
    BY DEF CommitDeletion, CommitGroup, CommitGroupDeletion, CommitSeat, Free, IInv, CarsOK
  <1>5. LocksOK'
    BY <1>1, <1>2, <1>3, <1>4, LocksKept
  <1>6. CarsOK' /\ InchargeIsAboard'
    <2>1. CASE CommitDeletion(p)
      BY <2>1 DEF CommitDeletion, IInv, CarsOK, InchargeIsAboard, NoGroup
    <2>2. CASE CommitGroup(p)
      BY <2>2 DEF CommitGroup, IInv, CarsOK, InchargeIsAboard
    <2>3. CASE CommitGroupDeletion(p)
      <3>1. work[p].group \in 1..MaxGroups
        BY <1>3, <2>3 DEF WorkOK, Waiting, CommitGroupDeletion
      <3>2. CarsOK'
        BY <2>3, <3>1 DEF CommitGroupDeletion, IInv, CarsOK, NoGroup
      <3>3. ASSUME NEW g \in 1..MaxGroups, incharge'[g] # NoOne, incharge'[g] \notin deleted'
            PROVE  seat'[incharge'[g]] = g
        BY <2>3, <3>1, <3>3 DEF CommitGroupDeletion, IInv, CarsOK, InchargeIsAboard
      <3> QED BY <3>2, <3>3 DEF InchargeIsAboard
    <2>4. CASE CommitSeat(p)
      <3>1. work[p].group \in 1..MaxGroups /\ work[p].user \in Users
        BY <1>3, <2>4 DEF WorkOK, Waiting, CommitSeat
      <3>2. \/ seat' = seat
            \/ seat[work[p].user] = NoGroup /\ work[p].group \in groups /\ seat' = [seat EXCEPT ![work[p].user] = work[p].group]
        BY <2>4 DEF CommitSeat
      <3>3. UNCHANGED <<made, groups, incharge, lock, deleted>>
        BY <2>4 DEF CommitSeat
      <3>4. CarsOK'
        <4>1. CASE seat' = seat
          BY <3>3, <4>1 DEF IInv, CarsOK
        <4>2. CASE seat' # seat
          <5>1. seat' \in [Users -> 0..MaxGroups] /\ \A u \in Users : seat'[u] # NoGroup => seat'[u] \in groups
            <6> DEFINE v == work[p].user
                       g == work[p].group
            <6>1. v \in Users /\ g \in 0..MaxGroups /\ g \in groups /\ seat' = [seat EXCEPT ![v] = g]
              BY <3>1, <3>2, <4>2
            <6>2. seat \in [Users -> 0..MaxGroups] /\ \A u \in Users : seat[u] # NoGroup => seat[u] \in groups
              BY DEF IInv, CarsOK
            <6> HIDE DEF v, g
            <6> QED BY <6>1, <6>2
          <5>2. made' = made /\ groups' = groups /\ incharge' = incharge /\ lock' = lock
            BY <3>3
          <5> QED BY <5>1, <5>2 DEF IInv, CarsOK, NoGroup
        <4> QED BY <4>1, <4>2
      <3>5. InchargeIsAboard'
        BY <3>1, <3>2, <3>3 DEF IInv, CarsOK, InchargeIsAboard, NoGroup
      <3> QED BY <3>4, <3>5
    <2> QED BY <2>1, <2>2, <2>3, <2>4
  <1> QED BY <1>1, <1>2, <1>5, <1>6 DEF IInv

\* FOR UPDATE: the row is there, and stays there until this transaction ends.
LEMMA SelectIInv ==
  ASSUME IInv, NEW p \in Procs, SelectForUpdate(p)
  PROVE  IInv'
  <1> USE RacesAssumption
  <1>1. work[p] \in [op : {"name"}, group : 1..MaxGroups, user : Users, step : {"select", "commit"}]
    BY DEF SelectForUpdate, IInv, WorkOK, Waiting
  <1>2. (\A q \in Procs \ {p} : work'[q] = work[q]) /\ work' \in [Procs -> {work'[q] : q \in Procs}]
    BY DEF IInv, SelectForUpdate, Finish
  <1>3. UNCHANGED <<made, groups, seat, incharge, deleted>> /\ \A u \in Users : lock[u] # p
    BY OwnLocks DEF SelectForUpdate, HeldBy
  <1>4. CASE seat[work[p].user] = work[p].group
    <2>1. lock' = [lock EXCEPT ![work[p].user] = p] /\ lock[work[p].user] = NoProc /\ work'[p] = [work[p] EXCEPT !.step = "commit"]
      BY <1>4 DEF SelectForUpdate, Free, IInv
    <2>2. WorkOK(work'[p]) /\ HeldBy(work[p], work[p].user)'
      BY <1>1, <1>3, <1>4, <2>1 DEF WorkOK, HeldBy
    <2>3. lock' \in [Users -> Procs \cup {NoProc}] /\ work'[p].user = work[p].user
          /\ lock'[work[p].user] = p /\ \A u \in Users \ {work[p].user} : lock'[u] = lock[u]
      BY <1>1, <2>1 DEF IInv, CarsOK
    <2>4. LocksOK'
      <3>1. \A u \in Users : lock'[u] = p => u = work[p].user
        BY <1>3, <2>3
      <3>2. ASSUME NEW u \in Users, lock'[u] = p PROVE HeldBy(work[p], u)'
        <4>1. u = work'[p].user
          BY <2>3, <3>1, <3>2
        <4> QED BY <4>1, <2>2
      <3>3. \A u \in Users : lock'[u] # p => lock'[u] = lock[u] /\ seat'[u] = seat[u]
        BY <1>3, <2>3
      <3>4. \A u \in Users : lock[u] \notin {p, NoProc} => lock'[u] = lock[u]
        BY <2>1, <2>3
      <3>5. lock'[work'[p].user] = p
        BY <2>3
      <3> QED BY <1>2, <3>2, <3>3, <3>4, <3>5, LocksKept
    <2>5. CarsOK' /\ InchargeIsAboard'
      BY <1>3, <2>3 DEF IInv, CarsOK, InchargeIsAboard
    <2> QED BY <1>2, <2>2, <2>4, <2>5 DEF IInv
  <1>5. CASE seat[work[p].user] # work[p].group
    <2>1. Finish(p) /\ UNCHANGED <<cars, deleted>> /\ work[p].step # "commit"
      BY <1>3, <1>5 DEF SelectForUpdate, cars
    <2> QED BY <1>3, <2>1, FinishIInv
  <1> QED BY <1>4, <1>5

\* The appointment and the end of a transaction that held a row.
LEMMA ReleaseIInv ==
  ASSUME IInv, NEW p \in Procs, CommitIncharge(p) \/ CommitClearing(p) \/ Abort(p)
  PROVE  IInv'
  <1> USE RacesAssumption
  <1>1. (\A q \in Procs \ {p} : work'[q] = work[q]) /\ work' \in [Procs -> {work'[q] : q \in Procs}] /\ work'[p] = Idle
    BY DEF IInv, CommitIncharge, CommitClearing, Abort, Finish
  <1>2. WorkOK(work'[p]) /\ work'[p].op # "name" /\ WorkOK(work[p])
    BY <1>1 DEF WorkOK, Idle, Waiting, IInv
  <1>3. UNCHANGED <<made, groups, seat, deleted>>
    BY DEF CommitIncharge, CommitClearing, Abort
  <1>4. lock' = Released(p)
    <2>1. CASE CommitClearing(p)
      <3>1. \A u \in Users : lock[u] # p
        BY <2>1, OwnLocks DEF CommitClearing, HeldBy
      <3>2. lock' = lock /\ lock \in [Users -> Procs \cup {NoProc}]
        BY <2>1 DEF CommitClearing, IInv, CarsOK
      <3> QED BY <3>1, <3>2 DEF Released
    <2> QED BY <2>1 DEF CommitIncharge, Abort
  <1>5. LocksOK'
    <2>1. \A u \in Users : lock'[u] # p /\ (lock[u] # p => lock'[u] = lock[u] /\ seat'[u] = seat[u])
      BY <1>3, <1>4 DEF Released
    <2>2. \A u \in Users : lock[u] = p => lock'[u] = NoProc
      BY <1>4 DEF Released
    <2> QED BY <1>1, <1>2, <2>1, <2>2, LocksKept
  <1>6. CarsOK' /\ InchargeIsAboard'
    <2>1. lock' \in [Users -> Procs \cup {NoProc}]
      BY <1>4 DEF Released, IInv, CarsOK
    <2>2. CASE CommitIncharge(p)
      <3>1. work[p].group \in 1..MaxGroups /\ work[p].user \in Users
        BY <1>2, <2>2 DEF WorkOK, Waiting, CommitIncharge
      <3>2. seat[work[p].user] = work[p].group
        BY <2>2, <3>1 DEF CommitIncharge, IInv, LocksOK, HeldBy
      <3>3. incharge' = [incharge EXCEPT ![work[p].group] = work[p].user]
        BY <2>2 DEF CommitIncharge
      <3> QED BY <1>3, <2>1, <3>1, <3>2, <3>3 DEF IInv, CarsOK, InchargeIsAboard
    <2>3. CASE CommitClearing(p)
      <3>1. work[p].group \in 1..MaxGroups
        BY <1>2, <2>3 DEF WorkOK, Waiting, CommitClearing
      <3> QED BY <1>3, <2>1, <2>3, <3>1 DEF CommitClearing, IInv, CarsOK, InchargeIsAboard
    <2>4. CASE Abort(p)
      BY <1>3, <2>1, <2>4 DEF Abort, IInv, CarsOK, InchargeIsAboard
    <2> QED BY <2>2, <2>3, <2>4
  <1> QED BY <1>1, <1>2, <1>5, <1>6 DEF IInv

\* What does not touch the cars.
LEMMA RosterIInv ==
  ASSUME IInv, NEW p \in Procs, InsertRequest(p) \/ AnnounceRequest(p) \/ CommitDecision(p) \/ CommitAddition(p)
  PROVE  IInv'
  <1>1. work[p].op \in Waiting /\ UNCHANGED <<cars, deleted>> /\ work[p].op # "name"
    BY DEF InsertRequest, AnnounceRequest, CommitDecision, CommitAddition, Waiting
  <1>2. Finish(p) \/ \E w : w.op \in Waiting /\ work' = [work EXCEPT ![p] = w]
    <2>1. CASE InsertRequest(p)
      <3> DEFINE w == [op |-> "announce", user |-> work[p].user, ask |-> Len(asks) + 1]
      <3>1. w.op \in Waiting
        BY DEF Waiting
      <3>2. Finish(p) \/ work' = [work EXCEPT ![p] = w]
        BY <2>1 DEF InsertRequest, Reject
      <3> QED BY <3>1, <3>2
    <2>2. CASE AnnounceRequest(p) \/ CommitDecision(p) \/ CommitAddition(p)
      BY <2>2 DEF AnnounceRequest, CommitDecision, CommitAddition, Reject
    <2> QED BY <2>1, <2>2
  <1> QED BY <1>1, <1>2, FinishIInv

LEMMA ArrivalIInv ==
  ASSUME IInv, NEW p \in Procs, Arrival(p)
  PROVE  IInv'
  <1> USE RacesAssumption
  <1>0. \A g \in groups : g \in 1..MaxGroups
    BY DEF IInv, CarsOK
  <1>1. ASSUME NEW by \in Users, deleteRace(p, by) \/ createCarGroup(p, by) PROVE IInv'
    BY <1>1, AcceptIInv DEF deleteRace, createCarGroup, WorkOK, Waiting
  <1>2. ASSUME NEW u \in Users, requestRaceAccess(p, u) \/ joinRaceDirectly(p, u) \/ departClub(p, u) \/ deleteOwnAccount(p, u)
        PROVE  IInv'
    BY <1>2, AcceptIInv DEF requestRaceAccess, joinRaceDirectly, departClub, deleteOwnAccount, WorkOK, Waiting
  <1>3. ASSUME NEW by \in Users, NEW U \in SUBSET Users, addRaceMembers(p, by, U) PROVE IInv'
    BY <1>3, AcceptIInv DEF addRaceMembers, WorkOK, Waiting
  <1>4. ASSUME NEW by \in Users, NEW r \in DOMAIN asks, NEW approve \in BOOLEAN, decideRaceRequest(p, by, r, approve) PROVE IInv'
    BY <1>4, AcceptIInv DEF decideRaceRequest, WorkOK, Waiting
  <1>5. ASSUME NEW by \in Users, NEW u \in Users, removeRaceMember(p, by, u) \/ leaveCarGroup(p, by, u) PROVE IInv'
    <2>1. CASE removeRaceMember(p, by, u)
      <3> DEFINE w == [op |-> "remove", user |-> u, step |-> "find", group |-> NoGroup]
      <3>1. WorkOK(w) /\ w.op # "name"
        BY DEF WorkOK, NoGroup
      <3> QED BY <2>1, <3>1, AcceptIInv DEF removeRaceMember
    <2>2. CASE leaveCarGroup(p, by, u)
      <3> DEFINE w == [op |-> "alight", user |-> u, step |-> "find", group |-> NoGroup]
      <3>1. WorkOK(w) /\ w.op # "name"
        BY DEF WorkOK, NoGroup
      <3> QED BY <2>2, <3>1, AcceptIInv DEF leaveCarGroup
    <2> QED BY <1>5, <2>1, <2>2
  <1>6. ASSUME NEW by \in Users, NEW g \in groups, deleteCarGroup(p, by, g) \/ clearCarGroupIncharge(p, by, g) PROVE IInv'
    BY <1>0, <1>6, AcceptIInv DEF deleteCarGroup, clearCarGroupIncharge, WorkOK
  <1>7. ASSUME NEW by \in Users, NEW u \in Users, NEW g \in groups, assignToCarGroup(p, by, g, u) \/ setCarGroupIncharge(p, by, g, u) PROVE IInv'
    BY <1>0, <1>7, AcceptIInv DEF assignToCarGroup, setCarGroupIncharge, WorkOK
  <1> QED BY <1>1, <1>2, <1>3, <1>4, <1>5, <1>6, <1>7 DEF Arrival

LEMMA NextIInv == IInv /\ [Next]_vars => IInv'
  <1> SUFFICES ASSUME IInv, [Next]_vars PROVE IInv'
    OBVIOUS
  <1>1. ASSUME NEW p \in Procs, Step(p) PROVE IInv'
    BY <1>1, RosterIInv, FindSeatIInv, VacateIInv, DepartureIInv, SeatIInv, SelectIInv, ReleaseIInv DEF Step
  <1>2. ASSUME UNCHANGED <<cars, work, deleted>> PROVE IInv'
    BY <1>2 DEF IInv, CarsOK, LocksOK, HeldBy, InchargeIsAboard, cars, WorkOK
  <1>3. CASE Handle \/ HandleAndDie
    BY <1>2, <1>3 DEF Handle, HandleAndDie
  <1>4. CASE UNCHANGED vars
    BY <1>2, <1>4 DEF vars
  <1> QED BY <1>1, <1>3, <1>4, ArrivalIInv DEF Next

\* The Incharge of every car group rides in it, whatever requests run together, unless their
\* account was deleted: a deleted account is the only one that keeps the office.
THEOREM InchargeStaysAboard == Spec => []InchargeIsAboard
  <1>1. IInv => InchargeIsAboard
    BY DEF IInv
  <1> QED BY <1>1, InitIInv, NextIInv, PTL DEF Spec

(***************************************************************************)
(* The cards settle.  Questions, answers and cards are tied together by    *)
(* their place in the club's partition of the outbox: a request that was   *)
(* decided has its answer queued, and once the worker is past the answer   *)
(* no earlier card about that user is open.                                *)
(***************************************************************************)

Answers == {"membership_decided", "members_added"}
Quiet == {"incharge_left", "member_departed", "club_departed", "deleted"}
Decided == {"approved", "denied"}

EventRec == [type : {"join_requested"} \cup Answers \cup Quiet, users : SUBSET Users, asks : SUBSET Nat]
AskRec == [user : Users, status : {"pending", "approved", "denied", "gone"}]
CardRec == [event : Nat, to : Users, user : Users, decided : BOOLEAN]

LogOK ==
  /\ asks \in Seq(AskRec) /\ events \in Seq(EventRec)
  /\ handled \in 0..Len(events) /\ race \in BOOLEAN /\ roster \subseteq Users

\* An announcement names one request and who made it.
Asks(e) == \E r \in 1..Len(asks) : e.asks = {r} /\ e.users = {asks[r].user}
QuestionsOK == \A i \in 1..Len(events) : events[i].type = "join_requested" => Asks(events[i])

\* The decision and its event are one transaction.
Settles(e, r) == e.type \in Answers /\ r \in e.asks /\ asks[r].user \in e.users
DecidedIsAnswered ==
  \A r \in 1..Len(asks) : asks[r].status \in Decided => \E j \in 1..Len(events) : Settles(events[j], r)

\* A card comes of an announcement the worker has reached.
CardOK(c) ==
  /\ c \in CardRec
  /\ c.event \in 1..Len(events) /\ c.event <= handled + 1
  /\ events[c.event].type = "join_requested" /\ c.user \in events[c.event].users
CardsOK == \A c \in cards : CardOK(c)

AnswersReach ==
  race => \A c \in cards, j \in 1..handled :
    c.event < j /\ events[j].type \in Answers /\ c.user \in events[j].users => c.decided

\* What a process carries from one statement to the next.
ErrandOK(w) ==
  /\ w.op = "announce" => w.ask \in 1..Len(asks) /\ w.user = asks[w.ask].user
  /\ w.op = "decide" => w.ask \in 1..Len(asks)
  /\ w.op \in {"add", "join", "erase"} => w.users \subseteq Users
  /\ w.op = "ask" => w.user \in Users
ErrandsOK == \A p \in Procs : ErrandOK(work[p])

CardInv == LogOK /\ QuestionsOK /\ DecidedIsAnswered /\ CardsOK /\ AnswersReach /\ ErrandsOK

LEMMA InitCardInv == Init => CardInv
  <1> SUFFICES ASSUME Init PROVE CardInv
    OBVIOUS
  <1>1. asks = <<>> /\ events = <<>> /\ cards = {} /\ handled = 0 /\ race = TRUE /\ roster \subseteq Users
    BY DEF Init
  <1>2. asks \in Seq(AskRec) /\ events \in Seq(EventRec) /\ Len(events) = 0 /\ Len(asks) = 0
    BY <1>1, EmptySeq
  <1>3. LogOK /\ QuestionsOK /\ DecidedIsAnswered
    BY <1>1, <1>2 DEF LogOK, QuestionsOK, DecidedIsAnswered
  <1>4. CardsOK /\ AnswersReach
    BY <1>1 DEF CardsOK, AnswersReach
  <1>5. ErrandsOK
    BY DEF Init, ErrandsOK, ErrandOK, Idle
  <1> QED BY <1>3, <1>4, <1>5 DEF CardInv

\* The requests are kept in place with their users, as many as there were or more.
AsksKept ==
  /\ asks' \in Seq(AskRec) /\ Len(asks) <= Len(asks')
  /\ \A r \in 1..Len(asks) : asks'[r].user = asks[r].user

EventsKept ==
  /\ events' \in Seq(EventRec) /\ Len(events) <= Len(events')
  /\ \A i \in 1..Len(events) : events'[i] = events[i]

\* What any request may do: lengthen the log by true announcements, and decide what it
\* answers.
LEMMA LogGrows ==
  ASSUME CardInv, NEW p \in Procs, \A q \in Procs \ {p} : work'[q] = work[q], ErrandOK(work[p])',
         AsksKept, EventsKept,
         \A i \in 1..Len(events') : i > Len(events) /\ events'[i].type = "join_requested" => Asks(events[i])',
         \A r \in 1..Len(asks') : asks'[r].status \in Decided =>
            \/ r \in 1..Len(asks) /\ asks[r].status \in Decided
            \/ \E j \in 1..Len(events') : Settles(events[j], r)',
         race' \in BOOLEAN, race' => race, roster' \subseteq Users, UNCHANGED <<handled, cards>>
  PROVE  CardInv'
  <1>1. LogOK'
    BY DEF CardInv, LogOK, AsksKept, EventsKept
  <1>2. QuestionsOK'
    <2> SUFFICES ASSUME NEW i \in 1..Len(events'), events'[i].type = "join_requested" PROVE Asks(events[i])'
      BY DEF QuestionsOK
    <2>1. CASE i \in 1..Len(events)
      <3>1. events'[i] = events[i] /\ Asks(events[i])
        BY <2>1 DEF EventsKept, CardInv, QuestionsOK
      <3>2. PICK r \in 1..Len(asks) : events[i].asks = {r} /\ events[i].users = {asks[r].user}
        BY <3>1 DEF Asks
      <3>3. r \in 1..Len(asks') /\ asks'[r].user = asks[r].user
        BY LenProperties DEF AsksKept, CardInv, LogOK
      <3> QED BY <3>1, <3>2, <3>3 DEF Asks
    <2>2. CASE i \notin 1..Len(events)
      <3>1. Len(events) \in Nat /\ Len(events') \in Nat
        BY LenProperties DEF CardInv, LogOK, EventsKept
      <3> QED BY <2>2, <3>1
    <2> QED BY <2>1, <2>2
  <1>3. DecidedIsAnswered'
    <2> SUFFICES ASSUME NEW r \in 1..Len(asks'), asks'[r].status \in Decided
                 PROVE  \E j \in 1..Len(events') : Settles(events[j], r)'
      BY DEF DecidedIsAnswered
    <2>1. CASE r \in 1..Len(asks) /\ asks[r].status \in Decided
      <3>1. PICK j \in 1..Len(events) : Settles(events[j], r)
        BY <2>1 DEF CardInv, DecidedIsAnswered
      <3>2. j \in 1..Len(events') /\ events'[j] = events[j] /\ asks'[r].user = asks[r].user
        BY <2>1 DEF EventsKept, AsksKept, CardInv, LogOK
      <3> QED BY <3>1, <3>2 DEF Settles
    <2> QED BY <2>1
  <1>4. CardsOK'
    BY DEF CardInv, CardsOK, CardOK, EventsKept, LogOK
  <1>5. AnswersReach'
    <2> SUFFICES ASSUME race', NEW c \in cards, NEW j \in 1..handled,
                        c.event < j, events'[j].type \in Answers, c.user \in events'[j].users
                 PROVE  c.decided
      BY DEF AnswersReach
    <2>1. handled \in Nat /\ Len(events) \in Nat /\ j \in 1..Len(events)
      BY LenProperties DEF CardInv, LogOK
    <2>2. events'[j] = events[j]
      BY <2>1 DEF EventsKept
    <2> QED BY <2>2 DEF CardInv, AnswersReach
  <1>6. ErrandsOK'
    <2> SUFFICES ASSUME NEW q \in Procs \ {p} PROVE ErrandOK(work[q])'
      BY DEF ErrandsOK
    <2>1. work'[q] = work[q] /\ ErrandOK(work[q])
      BY DEF CardInv, ErrandsOK
    <2>2. \A r \in 1..Len(asks) : r \in 1..Len(asks') /\ asks'[r].user = asks[r].user
      BY DEF AsksKept, CardInv, LogOK
    <2> QED BY <2>1, <2>2 DEF ErrandOK
  <1> QED BY <1>1, <1>2, <1>3, <1>4, <1>5, <1>6 DEF CardInv

\* Changing the status of some requests keeps them in place.
LEMMA WithKeeps ==
  ASSUME LogOK, NEW R, NEW st \in {"pending", "approved", "denied", "gone"}, asks' = With(R, st)
  PROVE  /\ AsksKept /\ Len(asks') = Len(asks)
         /\ \A r \in 1..Len(asks) : asks'[r].status = IF r \in R THEN st ELSE asks[r].status
  <1>1. asks \in Seq(AskRec) /\ DOMAIN asks = 1..Len(asks) /\ Len(asks) \in Nat
    BY LenProperties DEF LogOK
  <1>2. \A r \in 1..Len(asks) : asks[r] \in AskRec
    BY <1>1
  <1>3. \A r \in 1..Len(asks) : /\ asks'[r] \in AskRec /\ asks'[r].user = asks[r].user
                                /\ asks'[r].status = IF r \in R THEN st ELSE asks[r].status
    BY <1>1, <1>2 DEF With, AskRec
  <1>4. asks' = [r \in 1..Len(asks) |-> asks'[r]]
    BY <1>1 DEF With
  <1>5. asks' \in [1..Len(asks) -> AskRec]
    BY <1>3, <1>4
  <1>6. asks' \in Seq(AskRec) /\ DOMAIN asks' = 1..Len(asks)
    BY <1>1, <1>5, SeqDef
  <1>7. Len(asks') = Len(asks)
    BY <1>1, <1>6, LenProperties
  <1> QED BY <1>3, <1>6, <1>7, <1>1 DEF AsksKept

\* What writes neither the roster, nor the requests, nor the outbox.
LEMMA LogStays ==
  ASSUME CardInv, NEW p \in Procs, \A q \in Procs \ {p} : work'[q] = work[q], ErrandOK(work'[p]),
         UNCHANGED <<asks, events, race, roster, handled, cards>>
  PROVE  CardInv'
  <1>1. \A w : ErrandOK(w) => ErrandOK(w)'
    BY DEF ErrandOK
  <1>2. ErrandsOK'
    BY <1>1 DEF CardInv, ErrandsOK, ErrandOK
  <1>3. LogOK' /\ QuestionsOK' /\ DecidedIsAnswered' /\ CardsOK' /\ AnswersReach'
    BY DEF CardInv, LogOK, QuestionsOK, Asks, DecidedIsAnswered, Settles, CardsOK, CardOK, AnswersReach
  <1> QED BY <1>2, <1>3 DEF CardInv

LEMMA ArrivalCardInv ==
  ASSUME IInv, CardInv, NEW p \in Procs, Arrival(p)
  PROVE  CardInv'
  <1>1. ASSUME NEW w, Accept(p, w), ErrandOK(w) PROVE CardInv'
    <2>1. work'[p] = w /\ \A q \in Procs \ {p} : work'[q] = work[q]
      BY <1>1 DEF IInv, Accept
    <2>2. UNCHANGED <<asks, events, race, roster, handled, cards>>
      BY <1>1 DEF Accept, queue
    <2> QED BY <1>1, <2>1, <2>2, LogStays
  <1>2. roster \subseteq Users /\ DOMAIN asks = 1..Len(asks)
    BY LenProperties DEF CardInv, LogOK
  <1>3. ASSUME NEW by \in Users, deleteRace(p, by) \/ createCarGroup(p, by) PROVE CardInv'
    BY <1>1, <1>2, <1>3 DEF deleteRace, createCarGroup, ErrandOK
  <1>4. ASSUME NEW u \in Users, requestRaceAccess(p, u) \/ joinRaceDirectly(p, u) \/ departClub(p, u) \/ deleteOwnAccount(p, u)
        PROVE  CardInv'
    BY <1>1, <1>4 DEF requestRaceAccess, joinRaceDirectly, departClub, deleteOwnAccount, ErrandOK
  <1>5. ASSUME NEW by \in Users, NEW U \in SUBSET Users, addRaceMembers(p, by, U) PROVE CardInv'
    BY <1>1, <1>5 DEF addRaceMembers, ErrandOK
  <1>6. ASSUME NEW by \in Users, NEW r \in DOMAIN asks, NEW approve \in BOOLEAN, decideRaceRequest(p, by, r, approve) PROVE CardInv'
    BY <1>1, <1>2, <1>6 DEF decideRaceRequest, ErrandOK
  <1>7. ASSUME NEW by \in Users, NEW u \in Users, removeRaceMember(p, by, u) \/ leaveCarGroup(p, by, u) PROVE CardInv'
    BY <1>1, <1>7 DEF removeRaceMember, leaveCarGroup, ErrandOK
  <1>8. ASSUME NEW by \in Users, NEW g \in groups, deleteCarGroup(p, by, g) \/ clearCarGroupIncharge(p, by, g) PROVE CardInv'
    BY <1>1, <1>8 DEF deleteCarGroup, clearCarGroupIncharge, ErrandOK
  <1>9. ASSUME NEW by \in Users, NEW u \in Users, NEW g \in groups, assignToCarGroup(p, by, g, u) \/ setCarGroupIncharge(p, by, g, u) PROVE CardInv'
    BY <1>1, <1>9 DEF assignToCarGroup, setCarGroupIncharge, ErrandOK
  <1> QED BY <1>3, <1>4, <1>5, <1>6, <1>7, <1>8, <1>9 DEF Arrival

\* The cars have no say in it.
CarStep(p) ==
  \/ FindSeat(p) \/ Vacate(p) \/ CommitGroup(p) \/ CommitGroupDeletion(p) \/ CommitSeat(p)
  \/ SelectForUpdate(p) \/ CommitIncharge(p) \/ CommitClearing(p) \/ Abort(p)

LEMMA CarCardInv ==
  ASSUME IInv, CardInv, NEW p \in Procs, CarStep(p)
  PROVE  CardInv'
  <1>1. UNCHANGED <<asks, events, race, roster, handled, cards>>
    BY DEF CarStep, FindSeat, Vacate, CommitGroup, CommitGroupDeletion, CommitSeat, SelectForUpdate, CommitIncharge,
       CommitClearing, Abort, queue
  <1>2. \A q \in Procs \ {p} : work'[q] = work[q]
    BY DEF CarStep, FindSeat, Vacate, CommitGroup, CommitGroupDeletion, CommitSeat, SelectForUpdate, CommitIncharge,
       CommitClearing, Abort, Finish, IInv
  <1>3. ErrandOK(work'[p])
    <2>1. CASE Finish(p)
      BY <2>1 DEF Finish, IInv, ErrandOK, Idle
    <2>2. CASE ~Finish(p)
      <3>1. FindSeat(p) \/ Vacate(p) \/ SelectForUpdate(p)
        BY <2>2 DEF CarStep, CommitGroup, CommitGroupDeletion, CommitSeat, CommitIncharge, CommitClearing, Abort
      <3>2. PICK st, g : work' = [work EXCEPT ![p].step = st] \/ work' = [work EXCEPT ![p].step = st, ![p].group = g]
        BY <2>2, <3>1 DEF FindSeat, Vacate, SelectForUpdate
      <3>3. WorkOK(work[p]) /\ work[p].op \in {"remove", "alight", "depart", "delete", "name"}
        BY <3>1 DEF FindSeat, Vacate, SelectForUpdate, IInv
      <3>4. work'[p].op = work[p].op
        BY <3>2, <3>3 DEF WorkOK, Waiting, IInv
      <3> QED BY <3>3, <3>4 DEF ErrandOK
    <2> QED BY <2>1, <2>2
  <1> QED BY <1>1, <1>2, <1>3, LogStays

\* Appending to the outbox keeps what is there.
LEMMA AppendKeeps ==
  ASSUME LogOK, NEW e \in EventRec, events' = Append(events, e)
  PROVE  EventsKept /\ Len(events') = Len(events) + 1 /\ events'[Len(events) + 1] = e
  BY AppendProperties, LenProperties DEF LogOK, EventsKept

LEMMA InsertCardInv ==
  ASSUME IInv, CardInv, NEW p \in Procs, InsertRequest(p)
  PROVE  CardInv'
  <1>1. \A q \in Procs \ {p} : work'[q] = work[q]
    BY DEF InsertRequest, Reject, Finish, IInv
  <1>2. CASE Reject(p)
    <2>1. ErrandOK(work'[p])
      BY <1>2 DEF Reject, Finish, IInv, ErrandOK, Idle
    <2> QED BY <1>1, <1>2, <2>1, LogStays DEF InsertRequest, Reject
  <1>3. CASE ~Reject(p)
    <2> DEFINE u == work[p].user
               a == [user |-> u, status |-> "pending"]
    <2>1. asks' = Append(asks, a) /\ work'[p] = [op |-> "announce", user |-> u, ask |-> Len(asks) + 1]
          /\ UNCHANGED <<events, race, roster, handled, cards>>
      BY <1>3 DEF InsertRequest, IInv
    <2>2. u \in Users /\ a \in AskRec
      BY DEF InsertRequest, CardInv, ErrandsOK, ErrandOK, AskRec
    <2>3. /\ AsksKept /\ Len(asks') = Len(asks) + 1 /\ asks'[Len(asks) + 1] = a
          /\ \A r \in 1..Len(asks) : asks'[r] = asks[r]
      BY <2>1, <2>2, AppendProperties, LenProperties DEF CardInv, LogOK, AsksKept
    <2>4. Len(asks) \in Nat /\ EventsKept
      BY <2>1, LenProperties DEF CardInv, LogOK, EventsKept
    <2>5. ErrandOK(work[p])'
      BY <2>1, <2>3, <2>4 DEF ErrandOK
    <2>6. \A r \in 1..Len(asks') : asks'[r].status \in Decided => r \in 1..Len(asks) /\ asks[r].status \in Decided
      BY <2>3, <2>4 DEF Decided
    <2>7. ~ \E i \in 1..Len(events') : i > Len(events)
      BY <2>1, LenProperties DEF CardInv, LogOK
    <2>8. race' \in BOOLEAN /\ roster' \subseteq Users
      BY <2>1 DEF CardInv, LogOK
    <2> QED BY <1>1, <2>1, <2>3, <2>4, <2>5, <2>6, <2>7, <2>8, LogGrows
  <1> QED BY <1>2, <1>3

LEMMA AnnounceCardInv ==
  ASSUME IInv, CardInv, NEW p \in Procs, AnnounceRequest(p)
  PROVE  CardInv'
  <1> DEFINE r == work[p].ask
             e == Event("join_requested", {work[p].user}, {r})
  <1>1. (\A q \in Procs \ {p} : work'[q] = work[q]) /\ work'[p] = Idle
    BY DEF AnnounceRequest, Finish, IInv
  <1>2. UNCHANGED <<asks, race, roster, handled, cards>> /\ events' = Append(events, e)
    BY DEF AnnounceRequest
  <1>3. r \in 1..Len(asks) /\ work[p].user = asks[r].user
    BY DEF AnnounceRequest, CardInv, ErrandsOK, ErrandOK
  <1>4. e \in EventRec
    <2>1. asks[r] \in AskRec /\ r \in Nat
      BY <1>3, LenProperties DEF CardInv, LogOK
    <2>2. work[p].user \in Users
      BY <1>3, <2>1 DEF AskRec
    <2> QED BY <2>1, <2>2 DEF EventRec, Event
  <1>5. EventsKept /\ Len(events') = Len(events) + 1 /\ events'[Len(events) + 1] = e
    BY <1>2, <1>4, AppendKeeps DEF CardInv
  <1>6. ASSUME NEW i \in 1..Len(events'), i > Len(events) PROVE Asks(events[i])'
    <2>1. i = Len(events) + 1
      BY <1>5, <1>6, LenProperties DEF CardInv, LogOK
    <2>2. e.asks = {r} /\ e.users = {asks[r].user}
      BY <1>3 DEF Event
    <2> QED BY <1>2, <1>3, <1>5, <2>1, <2>2 DEF Asks
  <1>7. AsksKept /\ race' \in BOOLEAN /\ roster' \subseteq Users
    BY <1>2, LenProperties DEF CardInv, LogOK, AsksKept
  <1>8. ErrandOK(work[p])'
    BY <1>1 DEF ErrandOK, Idle
  <1> QED BY <1>1, <1>2, <1>5, <1>6, <1>7, <1>8, LogGrows

\* An event that asks nothing follows the decisions it answers.
LEMMA AnsweringCardInv ==
  ASSUME CardInv, NEW p \in Procs, \A q \in Procs \ {p} : work'[q] = work[q], work'[p] = Idle,
         NEW R, NEW st \in {"approved", "denied"}, asks' = With(R, st),
         NEW e \in EventRec, events' = Append(events, e), e.type \in Answers,
         \A r \in 1..Len(asks) : r \in R => r \in e.asks /\ asks[r].user \in e.users,
         race' = race, roster' \subseteq Users, UNCHANGED <<handled, cards>>
  PROVE  CardInv'
  <1>1. EventsKept /\ Len(events') = Len(events) + 1 /\ events'[Len(events) + 1] = e
    BY AppendKeeps DEF CardInv
  <1>2. /\ AsksKept /\ Len(asks') = Len(asks)
        /\ \A r \in 1..Len(asks) : asks'[r].status = IF r \in R THEN st ELSE asks[r].status
    BY WithKeeps DEF CardInv
  <1>3. Len(events) \in Nat
    BY LenProperties DEF CardInv, LogOK
  <1>4. \A i \in 1..Len(events') : i > Len(events) /\ events'[i].type = "join_requested" => Asks(events[i])'
    BY <1>1, <1>3 DEF Answers
  <1>5. ASSUME NEW r \in 1..Len(asks'), asks'[r].status \in Decided
        PROVE  \/ r \in 1..Len(asks) /\ asks[r].status \in Decided
               \/ \E j \in 1..Len(events') : Settles(events[j], r)'
    <2>1. CASE r \in R
      <3>1. r \in e.asks /\ asks'[r].user \in e.users
        BY <1>2, <2>1 DEF AsksKept
      <3>2. PICK j \in 1..Len(events') : j = Len(events) + 1
        BY <1>1, <1>3
      <3>3. Settles(events[j], r)'
        BY <1>1, <3>1, <3>2 DEF Settles
      <3> QED BY <3>3
    <2>2. CASE r \notin R
      BY <1>2, <1>5, <2>2
    <2> QED BY <2>1, <2>2
  <1>6. ErrandOK(work[p])' /\ race' \in BOOLEAN
    BY DEF ErrandOK, Idle, CardInv, LogOK
  <1> QED BY <1>1, <1>2, <1>4, <1>5, <1>6, LogGrows

LEMMA DecisionCardInv ==
  ASSUME IInv, CardInv, NEW p \in Procs, CommitDecision(p) \/ CommitAddition(p)
  PROVE  CardInv'
  <1>1. (\A q \in Procs \ {p} : work'[q] = work[q]) /\ work'[p] = Idle
    BY DEF CommitDecision, CommitAddition, Reject, Finish, IInv
  <1>2. UNCHANGED <<race, handled, cards>>
    BY DEF CommitDecision, CommitAddition
  <1>3. CASE Reject(p)
    <2>1. ErrandOK(work'[p])
      BY <1>1 DEF ErrandOK, Idle
    <2> QED BY <1>1, <1>2, <1>3, <2>1, LogStays DEF Reject
  <1>4. CASE CommitDecision(p) /\ ~Reject(p)
    <2> DEFINE r == work[p].ask
               st == IF work[p].approve THEN "approved" ELSE "denied"
               e == Event("membership_decided", {asks[r].user}, {r})
    <2>1. asks' = With({r}, st) /\ events' = Append(events, e) /\ roster' \in {roster, roster \cup {asks[r].user}}
      BY <1>4 DEF CommitDecision
    <2>2. r \in 1..Len(asks)
      BY <1>4 DEF CommitDecision, CardInv, ErrandsOK, ErrandOK
    <2>3. asks[r].user \in Users /\ r \in Nat
      <3>1. asks[r] \in AskRec /\ r \in Nat
        BY <2>2, LenProperties DEF CardInv, LogOK
      <3> QED BY <3>1 DEF AskRec
    <2>4. e \in EventRec /\ e.type \in Answers /\ e.users = {asks[r].user} /\ e.asks = {r}
      BY <2>3 DEF Event, EventRec, Answers
    <2>5. roster' \subseteq Users
      BY <2>1, <2>3 DEF CardInv, LogOK
    <2> HIDE DEF e, st
    <2>6. st \in {"approved", "denied"}
      BY DEF st
    <2> QED BY <1>1, <1>2, <2>1, <2>4, <2>5, <2>6, AnsweringCardInv
  <1>5. CASE CommitAddition(p) /\ ~Reject(p)
    <2> DEFINE new == work[p].users \ roster
               e == Event(IF work[p].op = "add" THEN "members_added" ELSE "membership_decided", new, PendingOf(new))
    <2>1. asks' = With(PendingOf(new), "approved") /\ events' = Append(events, e) /\ roster' = roster \cup new
      BY <1>5 DEF CommitAddition
    <2>2. new \subseteq Users
      BY <1>5 DEF CommitAddition, CardInv, ErrandsOK, ErrandOK
    <2>3. PendingOf(new) \subseteq Nat /\ \A r \in PendingOf(new) : asks[r].user \in new
      BY LenProperties DEF PendingOf, CardInv, LogOK
    <2>4. e \in EventRec /\ e.type \in Answers /\ e.users = new /\ e.asks = PendingOf(new)
      BY <2>2, <2>3 DEF Event, EventRec, Answers
    <2>5. roster' \subseteq Users
      BY <2>1, <2>2 DEF CardInv, LogOK
    <2> HIDE DEF e, new
    <2> QED BY <1>1, <1>2, <2>1, <2>3, <2>4, <2>5, AnsweringCardInv
  <1> QED BY <1>3, <1>4, <1>5

\* Requests that go without an answer, and events that neither ask nor answer.
LEMMA QuietCardInv ==
  ASSUME CardInv, NEW p \in Procs, \A q \in Procs \ {p} : work'[q] = work[q], work'[p] = Idle,
         asks' = asks \/ \E R : asks' = With(R, "gone"),
         EventsKept, \A i \in 1..Len(events') : i > Len(events) => events'[i].type \in Quiet,
         race' \in BOOLEAN, race' => race, roster' \subseteq Users, UNCHANGED <<handled, cards>>
  PROVE  CardInv'
  <1>1. /\ AsksKept /\ Len(asks') = Len(asks)
        /\ \A r \in 1..Len(asks) : asks'[r].status \in {asks[r].status, "gone"}
    <2>1. CASE asks' = asks
      BY <2>1, LenProperties DEF CardInv, LogOK, AsksKept
    <2>2. CASE asks' # asks
      <3>1. PICK R : asks' = With(R, "gone")
        BY <2>2
      <3> QED BY <3>1, WithKeeps DEF CardInv
    <2> QED BY <2>1, <2>2
  <1>2. \A i \in 1..Len(events') : i > Len(events) => events'[i].type # "join_requested"
    BY DEF Quiet
  <1>3. \A r \in 1..Len(asks') : asks'[r].status \in Decided => r \in 1..Len(asks) /\ asks[r].status \in Decided
    BY <1>1 DEF Decided
  <1>4. ErrandOK(work[p])'
    BY DEF ErrandOK, Idle
  <1> QED BY <1>1, <1>2, <1>3, <1>4, LogGrows

LEMMA DepartureCardInv ==
  ASSUME IInv, CardInv, NEW p \in Procs, CommitDeparture(p) \/ CommitClubDeparture(p) \/ CommitAccountDeletion(p) \/ CommitDeletion(p)
  PROVE  CardInv'
  <1>1. (\A q \in Procs \ {p} : work'[q] = work[q]) /\ work'[p] = Idle
    BY DEF CommitDeparture, CommitClubDeparture, CommitAccountDeletion, CommitDeletion, Finish, IInv
  <1>2. /\ race' \in BOOLEAN /\ (race' => race)
        /\ UNCHANGED <<handled, cards>>
        /\ roster' \subseteq Users
    <2>1. race \in BOOLEAN /\ roster \subseteq Users
      BY DEF CardInv, LogOK
    <2>2. CASE CommitDeletion(p)
      BY <2>1, <2>2 DEF CommitDeletion
    <2>3. CASE CommitDeparture(p)
      <3>1. UNCHANGED <<race, handled, cards>> /\ roster' \in {roster, roster \ {work[p].user}}
        BY <2>3 DEF CommitDeparture
      <3> QED BY <2>1, <3>1
    <2>4. CASE CommitClubDeparture(p)
      <3>1. UNCHANGED <<race, handled, cards>> /\ roster' = roster \ {work[p].user}
        BY <2>4 DEF CommitClubDeparture
      <3> QED BY <2>1, <3>1
    <2>5. CASE CommitAccountDeletion(p)
      <3>1. UNCHANGED <<race, handled, cards>> /\ roster' = roster \ {work[p].user}
        BY <2>5 DEF CommitAccountDeletion
      <3> QED BY <2>1, <3>1
    <2> QED BY <2>2, <2>3, <2>4, <2>5
  <1>3. asks' = asks \/ \E R : asks' = With(R, "gone")
    BY DEF CommitDeparture, CommitClubDeparture, CommitAccountDeletion, CommitDeletion
  <1>4. EventsKept /\ \A i \in 1..Len(events') : i > Len(events) => events'[i].type \in Quiet
    <2>1. ASSUME NEW t \in Quiet, NEW U \in SUBSET Users, events' = Append(events, Event(t, U, {}))
          PROVE  EventsKept /\ \A i \in 1..Len(events') : i > Len(events) => events'[i].type \in Quiet
      <3>1. Event(t, U, {}) \in EventRec /\ Event(t, U, {}).type = t
        BY <2>1 DEF Event, EventRec
      <3>2. EventsKept /\ Len(events') = Len(events) + 1 /\ events'[Len(events) + 1] = Event(t, U, {})
        BY <2>1, <3>1, AppendKeeps DEF CardInv
      <3> QED BY <3>1, <3>2, LenProperties DEF CardInv, LogOK
    <2>2. CASE CommitClubDeparture(p)
      <3>1. work[p].user \in Users
        BY <2>2 DEF CommitClubDeparture, IInv, WorkOK, Waiting
      <3> QED BY <2>1, <2>2, <3>1 DEF CommitClubDeparture, Quiet
    <2>3. CASE CommitDeletion(p)
      <3>1. work[p].users \in SUBSET Users
        BY <2>3 DEF CommitDeletion, CardInv, ErrandsOK, ErrandOK
      <3> QED BY <2>1, <2>3, <3>1 DEF CommitDeletion, Quiet
    <2>4. CASE CommitDeparture(p)
      <3> DEFINE u == work[p].user
                 a == Event("incharge_left", {u}, {})
                 b == Event("member_departed", {u}, {})
      <3>1. u \in Users
        BY <2>4 DEF CommitDeparture, IInv, WorkOK, Waiting
      <3>2. a \in EventRec /\ b \in EventRec /\ a.type \in Quiet /\ b.type \in Quiet
        BY <3>1 DEF Event, EventRec, Quiet
      <3>3. PICK s \in {<<>>, <<a>>}, t \in {<<>>, <<b>>} : events' = events \o s \o t
        BY <2>4 DEF CommitDeparture
      <3> HIDE DEF a, b
      <3>4. s \in Seq(EventRec) /\ t \in Seq(EventRec) /\ (\A i \in 1..Len(s) : s[i].type \in Quiet) /\ (\A i \in 1..Len(t) : t[i].type \in Quiet)
        <4>1. \A e \in EventRec : <<e>> \in Seq(EventRec) /\ Len(<<e>>) = 1 /\ <<e>>[1] = e
          OBVIOUS
        <4>2. \A e \in {a, b} : <<e>> \in Seq(EventRec) /\ \A i \in 1..Len(<<e>>) : <<e>>[i].type \in Quiet
          BY <3>2, <4>1
        <4>3. <<>> \in Seq(EventRec) /\ \A i \in 1..Len(<<>>) : <<>>[i].type \in Quiet
          OBVIOUS
        <4> QED BY <4>2, <4>3
      <3>5. events \in Seq(EventRec)
        BY DEF CardInv, LogOK
      <3> DEFINE m == events \o s
      <3>6. /\ m \in Seq(EventRec) /\ Len(m) = Len(events) + Len(s)
            /\ \A i \in 1..Len(m) : m[i] = IF i <= Len(events) THEN events[i] ELSE s[i - Len(events)]
        BY <3>4, <3>5, ConcatProperties
      <3>7. events' = m \o t
        BY <3>3
      <3> HIDE DEF m
      <3>8. /\ events' \in Seq(EventRec) /\ Len(events') = Len(m) + Len(t)
            /\ \A i \in 1..Len(events') : events'[i] = IF i <= Len(m) THEN m[i] ELSE t[i - Len(m)]
        <4>1. /\ m \o t \in Seq(EventRec) /\ Len(m \o t) = Len(m) + Len(t)
              /\ \A i \in 1..Len(m) + Len(t) : (m \o t)[i] = IF i <= Len(m) THEN m[i] ELSE t[i - Len(m)]
          <5>1. m \in Seq(EventRec) /\ t \in Seq(EventRec)
            BY <3>4, <3>6
          <5> QED BY ONLY <5>1, ConcatProperties
        <4> QED BY <3>7, <4>1
      <3>9. Len(events) \in Nat /\ Len(s) \in Nat /\ Len(t) \in Nat
        BY <3>4, <3>5, LenProperties
      <3>10. EventsKept
        BY <3>6, <3>8, <3>9 DEF EventsKept
      <3>11. ASSUME NEW i \in 1..Len(events'), i > Len(events) PROVE events'[i].type \in Quiet
        <4>1. CASE i <= Len(m)
          <5>1. i \in 1..Len(m) /\ i - Len(events) \in 1..Len(s)
            BY <3>6, <3>8, <3>9, <3>11, <4>1
          <5>2. events'[i] = s[i - Len(events)]
            BY <3>6, <3>8, <3>9, <3>11, <5>1
          <5> QED BY <5>1, <5>2, <3>4
        <4>2. CASE i > Len(m)
          <5>1. i - Len(m) \in 1..Len(t) /\ events'[i] = t[i - Len(m)]
            BY <3>6, <3>8, <3>9, <3>11, <4>2
          <5> QED BY <5>1, <3>4
        <4> QED BY <4>1, <4>2, <3>6, <3>9
      <3> QED BY <3>10, <3>11
    <2>5. CASE CommitAccountDeletion(p)
      <3>1. events' = events
        BY <2>5 DEF CommitAccountDeletion
      <3>2. EventsKept
        BY <3>1 DEF EventsKept, CardInv, LogOK
      <3> QED BY <3>1, <3>2, LenProperties DEF CardInv, LogOK
    <2> QED BY <2>2, <2>3, <2>4, <2>5
  <1> QED BY <1>1, <1>2, <1>3, <1>4, QuietCardInv

\* A card after the worker's step is an earlier one, perhaps resolved, or comes of the event
\* handled.
LEMMA CardOrigins ==
  ASSUME CardInv, handled < Len(events), NEW c \in CardsAfter(handled + 1)
  PROVE  LET e == events[handled + 1]
         IN \/ /\ c \in CardRec /\ c.event = handled + 1
               /\ e.type = "join_requested" /\ c.user \in e.users
            \/ \E d \in cards : /\ c \in CardRec /\ c.event = d.event /\ c.user = d.user /\ (d.decided => c.decided)
                                /\ (e.type \in Answers /\ race /\ c.user \in e.users => c.decided)
  <1> DEFINE n == handled + 1
             e == events[n]
  <1>1. n \in 1..Len(events) /\ n \in Nat
    BY LenProperties DEF CardInv, LogOK
  <1>2. e \in EventRec
    BY <1>1 DEF CardInv, LogOK
  <1>3. \A d \in cards : d \in CardRec
    BY DEF CardInv, CardsOK, CardOK
  <1>4. CASE e.type = "join_requested"
    <2>1. \/ c \in cards
          \/ \E u \in Audience(e), v \in e.users : c = [event |-> n, to |-> u, user |-> v, decided |-> FALSE]
      <3>1. e.type \notin Answering
        BY <1>4 DEF Answering
      <3>2. CardsAfter(n) = cards \cup {[event |-> n, to |-> u, user |-> v, decided |-> FALSE] :
                          u \in {w \in Audience(e) : \A d \in cards : d.event # n \/ d.to # w}, v \in e.users}
        BY <1>4, <3>1 DEF CardsAfter
      <3> HIDE DEF e
      <3> QED BY <3>2
    <2>2. CASE c \in cards
      BY <1>3, <1>4, <2>2 DEF Answers
    <2>3. CASE c \notin cards
      <3>1. PICK u \in Audience(e), v \in e.users : c = [event |-> n, to |-> u, user |-> v, decided |-> FALSE]
        BY <2>1, <2>3
      <3>2. u \in Users /\ v \in Users
        BY <1>2 DEF Audience, EventRec, CardInv, LogOK
      <3>3. c \in CardRec /\ c.event = n /\ c.user = v
        BY <1>1, <3>1, <3>2 DEF CardRec
      <3> QED BY <1>4, <3>3
    <2> QED BY <2>2, <2>3
  <1>5. CASE e.type \in Answering
    <2>1. PICK d \in cards : c = [d EXCEPT !.decided = d.decided \/ d.user \in e.users]
      BY <1>5 DEF CardsAfter, Answering, Resolved
    <2>2. d \in CardRec
      BY <1>3
    <2>3. c \in CardRec /\ c.event = d.event /\ c.user = d.user /\ c.decided = (d.decided \/ d.user \in e.users)
      BY <2>1, <2>2 DEF CardRec
    <2> QED BY <2>3
  <1>6. CASE e.type # "join_requested" /\ e.type \notin Answering
    <2>1. c \in cards
      BY <1>6 DEF CardsAfter
    <2>2. ~(e.type \in Answers /\ race)
      BY <1>6 DEF Answering, Answers
    <2> QED BY <1>3, <2>1, <2>2
  <1> QED BY <1>4, <1>5, <1>6

LEMMA HandleCardInv ==
  ASSUME CardInv, Handle \/ HandleAndDie
  PROVE  CardInv'
  <1> DEFINE n == handled + 1
  <1>1. handled < Len(events) /\ cards' = CardsAfter(n) /\ handled' \in {handled, n}
        /\ UNCHANGED <<asks, events, race, roster, work>>
    BY DEF Handle, HandleAndDie
  <1>2. handled \in Nat /\ Len(events) \in Nat /\ n \in 1..Len(events)
    BY <1>1, LenProperties DEF CardInv, LogOK
  <1>3. LogOK' /\ QuestionsOK' /\ DecidedIsAnswered' /\ ErrandsOK'
    BY <1>1, <1>2 DEF CardInv, LogOK, QuestionsOK, Asks, DecidedIsAnswered, Settles, ErrandsOK, ErrandOK
  <1>4. ASSUME NEW c \in cards'
        PROVE  \/ /\ c \in CardRec /\ c.event = n
                  /\ events[n].type = "join_requested" /\ c.user \in events[n].users
               \/ \E d \in cards : /\ c \in CardRec /\ c.event = d.event /\ c.user = d.user /\ (d.decided => c.decided)
                                   /\ (events[n].type \in Answers /\ race /\ c.user \in events[n].users => c.decided)
    BY <1>1, <1>4, CardOrigins
  <1>5. CardsOK'
    <2> SUFFICES ASSUME NEW c \in cards' PROVE CardOK(c)'
      BY DEF CardsOK
    <2>1. CASE c \in CardRec /\ c.event = n /\ events[n].type = "join_requested" /\ c.user \in events[n].users
      <3>1. c.event \in 1..Len(events') /\ c.event <= handled' + 1
        <4>1. handled' = handled \/ handled' = handled + 1
          BY <1>1
        <4>2. c.event = handled + 1 /\ events' = events
          BY <1>1, <2>1
        <4> QED BY <1>2, <4>1, <4>2
      <3>2. events'[c.event] = events[n]
        BY <1>1, <2>1
      <3> HIDE DEF n
      <3> QED BY <2>1, <3>1, <3>2 DEF CardOK
    <2>2. CASE \E d \in cards : c \in CardRec /\ c.event = d.event /\ c.user = d.user
      <3>1. PICK d \in cards : c \in CardRec /\ c.event = d.event /\ c.user = d.user
        BY <2>2
      <3>2. CardOK(d)
        BY DEF CardInv, CardsOK
      <3>3. c.event \in 1..Len(events') /\ c.event <= handled' + 1
        BY <1>1, <1>2, <3>1, <3>2 DEF CardOK
      <3> QED BY <1>1, <3>1, <3>2, <3>3 DEF CardOK
    <2> QED BY <1>4, <2>1, <2>2
  <1>6. AnswersReach'
    <2> SUFFICES ASSUME race, NEW c \in cards', NEW j \in 1..handled',
                        c.event < j, events[j].type \in Answers, c.user \in events[j].users
                 PROVE  c.decided
      BY <1>1 DEF AnswersReach
    <2>1. j \in 1..handled \/ j = n
      BY <1>1, <1>2
    <2>2. c.event # n
      BY <1>1, <1>2
    <2>3. PICK d \in cards : /\ c.event = d.event /\ c.user = d.user /\ (d.decided => c.decided)
                             /\ (events[n].type \in Answers /\ race /\ c.user \in events[n].users => c.decided)
      BY <1>4, <2>2
    <2>4. CASE j \in 1..handled
      BY <2>3, <2>4 DEF CardInv, AnswersReach
    <2>5. CASE j = n
      BY <2>3, <2>5
    <2> QED BY <2>1, <2>4, <2>5
  <1> QED BY <1>3, <1>5, <1>6 DEF CardInv

LEMMA NextCardInv == IInv /\ CardInv /\ [Next]_vars => CardInv'
  <1> SUFFICES ASSUME IInv, CardInv, [Next]_vars PROVE CardInv'
    OBVIOUS
  <1>1. ASSUME NEW p \in Procs, Step(p) PROVE CardInv'
    BY <1>1, InsertCardInv, AnnounceCardInv, DecisionCardInv, DepartureCardInv, CarCardInv DEF Step, CarStep
  <1>2. CASE UNCHANGED vars
    BY <1>2 DEF vars, queue, CardInv, LogOK, QuestionsOK, Asks, DecidedIsAnswered, Settles, CardsOK, CardOK, AnswersReach,
       ErrandsOK, ErrandOK
  <1> QED BY <1>1, <1>2, ArrivalCardInv, HandleCardInv DEF Next

\* The answer to a card's request is queued behind it, unless it overtook the question, and
\* behind it is where it reaches the card.
LEMMA CardsAreSettled == CardInv => CardsSettle
  <1> SUFFICES ASSUME CardInv, Drained, race, NEW c \in cards,
                      \A r \in events[c.event].asks : asks[r].status \in Decided, ~Overtaken(c.event)
               PROVE  c.decided
    BY DEF CardsSettle, Decided
  <1> DEFINE i == c.event
  <1>1. i \in 1..Len(events) /\ events[i].type = "join_requested" /\ c.user \in events[i].users
    BY DEF CardInv, CardsOK, CardOK
  <1>2. PICK r \in 1..Len(asks) : events[i].asks = {r} /\ events[i].users = {asks[r].user}
    BY <1>1 DEF CardInv, QuestionsOK, Asks
  <1>3. PICK j \in 1..Len(events) : Settles(events[j], r)
    BY <1>2 DEF CardInv, DecidedIsAnswered
  <1>4. i # j
    BY <1>1, <1>3 DEF Settles, Answers
  <1>5. ~(j < i)
    BY <1>1, <1>2, <1>3 DEF Overtaken, Settles
  <1>6. i < j /\ j \in 1..handled
    BY <1>1, <1>4, <1>5 DEF Drained
  <1> QED BY <1>1, <1>2, <1>3, <1>6 DEF CardInv, AnswersReach, Settles

\* When the worker has drained the club's queue, no card asks an admin to decide what was
\* decided, by any route: for any number of users, requests and deaths of the worker.
THEOREM CardsAreClosed == Spec => []CardsSettle
  <1> QED BY InitIInv, NextIInv, InitCardInv, NextCardInv, CardsAreSettled, PTL DEF Spec

CountsOK ==
  /\ role \in [Users -> {"none", "member", "admin", "owner"}] /\ deleted \subseteq Users
  /\ requests \in 0..MaxRequests /\ faults \in 0..MaxFaults

\* Every variable keeps to its type.
THEOREM TypeCorrect == Spec => []TypeOK
  <1>1. Init => CountsOK
    BY RacesAssumption DEF Init, CountsOK
  <1>2. IInv /\ CountsOK /\ [Next]_vars => CountsOK'
    <2> SUFFICES ASSUME IInv, CountsOK, [Next]_vars PROVE CountsOK'
      OBVIOUS
    <2> USE RacesAssumption
    <2>1. ASSUME NEW p \in Procs, Arrival(p) PROVE CountsOK'
      <3>1. PICK w : Accept(p, w)
        BY <2>1 DEF Arrival, requestRaceAccess, decideRaceRequest, addRaceMembers, joinRaceDirectly, removeRaceMember,
           leaveCarGroup, departClub, deleteOwnAccount, deleteRace, createCarGroup, deleteCarGroup, assignToCarGroup, setCarGroupIncharge,
           clearCarGroupIncharge
      <3> QED BY <3>1 DEF Accept, CountsOK
    <2>2. ASSUME NEW p \in Procs, Step(p) PROVE CountsOK'
      <3>1. CASE InsertRequest(p) \/ AnnounceRequest(p) \/ CommitDecision(p) \/ CommitAddition(p)
        BY <3>1 DEF InsertRequest, AnnounceRequest, CommitDecision, CommitAddition, CountsOK
      <3>2. CASE FindSeat(p) \/ Vacate(p) \/ CommitDeparture(p) \/ CommitDeletion(p)
        BY <3>2 DEF FindSeat, Vacate, CommitDeparture, CommitDeletion, CountsOK
      <3>3. CASE CommitClubDeparture(p)
        BY <3>3 DEF CommitClubDeparture, CountsOK
      <3>7. CASE CommitAccountDeletion(p)
        <4>1. work[p].user \in Users
          BY <3>7 DEF CommitAccountDeletion, IInv, WorkOK, Waiting
        <4> QED BY <3>7, <4>1 DEF CommitAccountDeletion, CountsOK
      <3>4. CASE CommitGroup(p) \/ CommitGroupDeletion(p) \/ CommitSeat(p)
        BY <3>4 DEF CommitGroup, CommitGroupDeletion, CommitSeat, CountsOK
      <3>5. CASE SelectForUpdate(p) \/ CommitIncharge(p) \/ CommitClearing(p)
        BY <3>5 DEF SelectForUpdate, CommitIncharge, CommitClearing, CountsOK
      <3>6. CASE Abort(p)
        BY <3>6 DEF Abort, CountsOK
      <3> QED BY <2>2, <3>1, <3>2, <3>3, <3>4, <3>5, <3>6, <3>7 DEF Step
    <2>3. CASE Handle \/ HandleAndDie
      BY <2>3 DEF Handle, HandleAndDie, CountsOK
    <2>4. CASE UNCHANGED vars
      BY <2>4 DEF vars, CountsOK
    <2> QED BY <2>1, <2>2, <2>3, <2>4 DEF Next
  <1>3. IInv /\ CardInv /\ CountsOK => TypeOK
    BY DEF IInv, CarsOK, CardInv, LogOK, AskRec, CountsOK, TypeOK
  <1> QED BY <1>1, <1>2, <1>3, InitIInv, NextIInv, InitCardInv, NextCardInv, PTL DEF Spec
=============================================================================
