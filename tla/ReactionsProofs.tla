---------------------------- MODULE ReactionsProofs ----------------------------
(* What holds of a message's reactions for any users, emoji and requests. *)
EXTENDS Reactions, FiniteSetTheorems, SequenceTheorems, TLAPS

\* The step of one request, by its place in toggleReaction or applySoftDelete.
LEMMA StepCases ==
  ASSUME [Next]_vars, NEW G,
         \A p \in Procs, k \in Keys : ToggleStart(p, k) => G,
         \A p \in Procs : DeleteStart(p) => G,
         \A p \in Procs : RemoveRow(p) => G,
         \A p \in Procs : Count(p) => G,
         \A p \in Procs : Refuse(p) => G,
         \A p \in Procs : InsertRow(p) => G,
         \A p \in Procs : TakeChannel(p, "touch", "commit") => G,
         \A p \in Procs : CommitToggle(p) => G,
         \A p \in Procs : TakeChannel(p, "lock", "clear") => G,
         \A p \in Procs : ClearRows(p) => G,
         \A p \in Procs : CommitDelete(p) => G,
         \A p \in Procs : DeadlockAbort(p) => G,
         \A p \in Procs : Crash(p) => G,
         HandlerRead => G, HandlerPublish => G, UNCHANGED vars => G
  PROVE  G
  BY DEF Next, Work

(***************************************************************************)
(* Types.  A toggle names a key all the way, and the worker has read only   *)
(* for an event it has.                                                    *)
(***************************************************************************)

Toggling == {"remove", "count", "insert", "touch", "commit"}

TypeInv ==
  /\ TypeOK
  /\ \A p \in Procs : pc[p] \in Toggling => req[p] \in Keys
  /\ snapshot # NoSnapshot => outbox # <<>>

LEMMA TypeInit == Init => TypeInv
<1> SUFFICES ASSUME Init PROVE TypeInv
  OBVIOUS
<1>1. TypeOK
  <2>1. pc \in [Procs -> Steps] /\ outbox \in Seq({"message.reacted", "message.deleted"})
    BY DEF Init, Steps
  <2>2. req \in [Procs -> Keys \union {SoftDelete}]
        /\ removed \in [Procs -> SUBSET Keys] /\ added \in [Procs -> SUBSET Keys]
    BY DEF Init
  <2>3. deleted \in BOOLEAN
    BY DEF Init
  <2>4. rev \in Nat /\ requests \in 0..MaxRequests /\ redelivered \in 0..MaxRequests
    BY ReactionsAssumption DEF Init, ReactionsAssumption
  <2>5. rows \subseteq Keys /\ lock \in Procs \union {Nobody} /\ shown \subseteq Keys
    BY DEF Init
  <2>6. snapshot \in (SUBSET Keys) \union {NoSnapshot}
    BY DEF Init
  <2>7. QED BY <2>1, <2>2, <2>3, <2>4, <2>5, <2>6 DEF TypeOK
<1>2. QED BY <1>1 DEF TypeInv, Init, Toggling

LEMMA EndTypes ==
  ASSUME TypeOK, NEW p \in Procs, End(p)
  PROVE  /\ lock' \in Procs \union {Nobody}
         /\ pc' \in [Procs -> Steps]
         /\ req' \in [Procs -> Keys \union {SoftDelete}]
         /\ removed' \in [Procs -> SUBSET Keys] /\ added' \in [Procs -> SUBSET Keys]
         /\ pc'[p] = "idle"
         /\ \A q \in Procs : q # p => pc'[q] = pc[q] /\ req'[q] = req[q]
  BY DEF TypeOK, End, Goto, Steps

LEMMA TypeStep == TypeInv /\ [Next]_vars => TypeInv'
<1>1. SUFFICES ASSUME TypeInv, [Next]_vars PROVE TypeInv'
  OBVIOUS
<1> USE <1>1
<1> USE DEF dbVars, workerVars, Goto, TypeInv, Toggling
<1>2. ASSUME NEW p \in Procs, NEW k \in Keys, ToggleStart(p, k) PROVE TypeInv'
  BY <1>2, ReactionsAssumption DEF TypeOK, Steps, ToggleStart, Accept, ReactionsAssumption
<1>3. ASSUME NEW p \in Procs, DeleteStart(p) PROVE TypeInv'
  BY <1>3, ReactionsAssumption DEF TypeOK, Steps, DeleteStart, Accept, ReactionsAssumption
<1>4. ASSUME NEW p \in Procs, RemoveRow(p) PROVE TypeInv'
  BY <1>4 DEF TypeOK, Steps, RemoveRow
<1>5. ASSUME NEW p \in Procs, Count(p) PROVE TypeInv'
  BY <1>5 DEF TypeOK, Steps, Count
<1>6. ASSUME NEW p \in Procs, Refuse(p) \/ DeadlockAbort(p) \/ Crash(p) PROVE TypeInv'
  <2>1. End(p) /\ UNCHANGED <<dbVars, workerVars, requests>>
    BY <1>6 DEF Refuse, DeadlockAbort, Crash
  <2>2. QED BY <2>1, EndTypes DEF TypeOK
<1>7. ASSUME NEW p \in Procs, InsertRow(p) PROVE TypeInv'
  BY <1>7 DEF TypeOK, Steps, InsertRow
<1>8. ASSUME NEW p \in Procs, TakeChannel(p, "touch", "commit") PROVE TypeInv'
  BY <1>8 DEF TypeOK, Steps, TakeChannel
<1>9. ASSUME NEW p \in Procs, TakeChannel(p, "lock", "clear") PROVE TypeInv'
  BY <1>9 DEF TypeOK, Steps, TakeChannel
<1>10. ASSUME NEW p \in Procs, CommitToggle(p) PROVE TypeInv'
  <2>1. rows' \subseteq Keys /\ rev' \in Nat /\ deleted' \in BOOLEAN
    BY <1>10 DEF TypeOK, CommitToggle
  <2>2. outbox' \in Seq({"message.reacted", "message.deleted"}) /\ outbox' # <<>>
    BY <1>10 DEF TypeOK, CommitToggle
  <2>3. QED BY <1>10, <2>1, <2>2, EndTypes DEF TypeOK, CommitToggle
<1>11. ASSUME NEW p \in Procs, ClearRows(p) PROVE TypeInv'
  BY <1>11 DEF TypeOK, Steps, ClearRows
<1>12. ASSUME NEW p \in Procs, CommitDelete(p) PROVE TypeInv'
  <2>1. rows' \subseteq Keys /\ rev' \in Nat /\ deleted' \in BOOLEAN
    BY <1>12 DEF TypeOK, CommitDelete
  <2>2. outbox' \in Seq({"message.reacted", "message.deleted"}) /\ outbox' # <<>>
    BY <1>12 DEF TypeOK, CommitDelete
  <2>3. QED BY <1>12, <2>1, <2>2, EndTypes DEF TypeOK, CommitDelete
<1>13. CASE HandlerRead
  BY <1>13 DEF TypeOK, HandlerRead
<1>14. CASE HandlerPublish
  <2>1. snapshot \subseteq Keys /\ shown' = snapshot /\ snapshot' = NoSnapshot
    BY <1>14 DEF TypeOK, HandlerPublish
  <2>2. outbox' \in Seq({"message.reacted", "message.deleted"})
    BY <1>14, HeadTailProperties DEF TypeOK, HandlerPublish
  <2>3. redelivered' \in 0..MaxRequests
    BY <1>14, ReactionsAssumption DEF TypeOK, HandlerPublish, ReactionsAssumption
  <2>4. QED BY <1>14, <2>1, <2>2, <2>3 DEF TypeOK, HandlerPublish
<1>15. CASE UNCHANGED vars
  BY <1>15 DEF TypeOK, vars
<1>16. QED
  BY StepCases, <1>2, <1>3, <1>4, <1>5, <1>6, <1>7, <1>8, <1>9, <1>10, <1>11, <1>12, <1>13, <1>14, <1>15

\* Every variable keeps its type, through commits, aborts and redeliveries.
THEOREM TypeCorrect == Spec => []TypeOK
<1>1. TypeInv => TypeOK
  BY DEF TypeInv
<1>2. QED BY <1>1, TypeInit, TypeStep, PTL DEF Spec

(***************************************************************************)
(* The channel row.  Whoever commits holds it, so what a delete took is     *)
(* still everything when it commits.                                       *)
(***************************************************************************)

LockInv ==
  /\ \A p \in Procs : pc[p] \in {"commit", "clear", "cleared"} => lock = p
  /\ \A p \in Procs : pc[p] = "cleared" => removed[p] = rows

LEMMA LockInit == Init => LockInv
  BY DEF Init, LockInv

LEMMA LockStep == TypeInv /\ LockInv /\ [Next]_vars => LockInv'
<1>1. SUFFICES ASSUME TypeInv, LockInv, [Next]_vars PROVE LockInv'
  OBVIOUS
<1>2. TypeOK
  BY <1>1 DEF TypeInv
<1> USE <1>1, <1>2
<1> USE DEF dbVars, workerVars, Goto, LockInv
<1>3. ASSUME NEW p \in Procs, End(p), rows' = rows \/ lock = p PROVE LockInv'
  <2>1. \A q \in Procs : pc'[q] \in {"commit", "clear", "cleared"} => q # p /\ pc'[q] = pc[q]
    BY <1>3 DEF End, TypeOK
  <2>2. \A q \in Procs : pc'[q] \in {"commit", "clear", "cleared"} => lock # p /\ lock' = q
    BY <2>1, <1>3 DEF End
  <2>3. \A q \in Procs : q # p => removed'[q] = removed[q]
    BY <1>3 DEF End, TypeOK
  <2>4. QED BY <2>1, <2>2, <2>3, <1>3
<1>4. ASSUME NEW p \in Procs, NEW k \in Keys, ToggleStart(p, k) PROVE LockInv'
  BY <1>4 DEF TypeOK, ToggleStart, Accept
<1>5. ASSUME NEW p \in Procs, DeleteStart(p) PROVE LockInv'
  BY <1>5 DEF TypeOK, DeleteStart, Accept
<1>6. ASSUME NEW p \in Procs, RemoveRow(p) PROVE LockInv'
  BY <1>6 DEF TypeOK, RemoveRow
<1>7. ASSUME NEW p \in Procs, Count(p) PROVE LockInv'
  BY <1>7 DEF TypeOK, Count
<1>8. ASSUME NEW p \in Procs, Refuse(p) \/ DeadlockAbort(p) \/ Crash(p) PROVE LockInv'
  BY <1>3, <1>8 DEF Refuse, DeadlockAbort, Crash
<1>9. ASSUME NEW p \in Procs, InsertRow(p) PROVE LockInv'
  BY <1>9 DEF TypeOK, InsertRow
<1>10. ASSUME NEW p \in Procs, TakeChannel(p, "touch", "commit") PROVE LockInv'
  BY <1>10, ReactionsAssumption DEF TypeOK, TakeChannel, ReactionsAssumption
<1>11. ASSUME NEW p \in Procs, TakeChannel(p, "lock", "clear") PROVE LockInv'
  BY <1>11, ReactionsAssumption DEF TypeOK, TakeChannel, ReactionsAssumption
<1>12. ASSUME NEW p \in Procs, CommitToggle(p) \/ CommitDelete(p) PROVE LockInv'
  BY <1>3, <1>12 DEF CommitToggle, CommitDelete
<1>13. ASSUME NEW p \in Procs, ClearRows(p) PROVE LockInv'
  BY <1>13 DEF TypeOK, ClearRows
<1>14. CASE HandlerRead \/ HandlerPublish \/ UNCHANGED vars
  BY <1>14 DEF HandlerRead, HandlerPublish, vars
<1>15. QED
  BY StepCases, <1>4, <1>5, <1>6, <1>7, <1>8, <1>9, <1>10, <1>11, <1>12, <1>13, <1>14

\* EveryChangeIsARevision: whoever changes the rows moves the message's
\* revision in the same commit, and the commit of a delete leaves no row, for
\* any number of toggles in progress beside it.
THEOREM RevisedOrUnchanged == Spec => EveryChangeIsARevision
<1>1. TypeInv /\ LockInv /\ [Next]_vars
      => [/\ rows' # rows => rev' > rev
          /\ deleted' /\ ~deleted => rows' = {} /\ rev' > rev]_vars
  <2>1. SUFFICES ASSUME TypeInv, LockInv, [Next]_vars, ~ UNCHANGED vars
                 PROVE  /\ rows' # rows => rev' > rev
                        /\ deleted' /\ ~deleted => rows' = {} /\ rev' > rev
    OBVIOUS
  <2>2. rev \in Nat
    BY <2>1 DEF TypeInv, TypeOK
  <2>3. CASE UNCHANGED dbVars
    BY <2>3 DEF dbVars
  <2>4. ASSUME NEW p \in Procs, CommitToggle(p)
        PROVE rev' = rev + 1 /\ deleted' = deleted
    BY <2>4 DEF CommitToggle
  <2>5. ASSUME NEW p \in Procs, CommitDelete(p)
        PROVE rev' = rev + 1 /\ rows' = {}
    BY <2>1, <2>5 DEF CommitDelete, LockInv
  <2>6. \/ UNCHANGED dbVars
        \/ \E p \in Procs : CommitToggle(p) \/ CommitDelete(p)
    <3>1. ASSUME NEW p \in Procs, NEW k \in Keys, ToggleStart(p, k) PROVE UNCHANGED dbVars
      BY <3>1 DEF ToggleStart, Accept, dbVars
    <3>2. ASSUME NEW p \in Procs, DeleteStart(p) \/ RemoveRow(p) \/ Count(p) \/ Refuse(p) PROVE UNCHANGED dbVars
      BY <3>2 DEF DeleteStart, Accept, RemoveRow, Count, Refuse, dbVars
    <3>3. ASSUME NEW p \in Procs, InsertRow(p) \/ ClearRows(p) \/ DeadlockAbort(p) \/ Crash(p) PROVE UNCHANGED dbVars
      BY <3>3 DEF InsertRow, ClearRows, DeadlockAbort, Crash, dbVars
    <3>4. ASSUME NEW p \in Procs, TakeChannel(p, "touch", "commit") \/ TakeChannel(p, "lock", "clear") PROVE UNCHANGED dbVars
      BY <3>4 DEF TakeChannel, dbVars
    <3>5. CASE HandlerRead \/ HandlerPublish
      BY <3>5 DEF HandlerRead, HandlerPublish, dbVars
    <3>6. QED BY <2>1, StepCases, <3>1, <3>2, <3>3, <3>4, <3>5
  <2>7. QED BY <2>2, <2>3, <2>4, <2>5, <2>6
<1>2. QED
  BY <1>1, TypeInit, TypeStep, LockInit, LockStep, PTL DEF Spec, EveryChangeIsARevision

(***************************************************************************)
(* The clients.  What the last event of the queue will announce, and what   *)
(* the handler has read for it, is what is committed: a later commit brings *)
(* a later event.                                                          *)
(***************************************************************************)

ShownInv ==
  /\ outbox = <<>> => snapshot = NoSnapshot /\ shown = rows
  /\ outbox # <<>> /\ outbox[Len(outbox)] = "message.deleted" => rows = {}
  /\ Len(outbox) = 1 /\ snapshot # NoSnapshot => snapshot = rows

LEMMA ShownInit == Init => ShownInv
  BY DEF Init, ShownInv

LEMMA ShownStep == TypeInv /\ LockInv /\ ShownInv /\ [Next]_vars => ShownInv'
<1>1. SUFFICES ASSUME TypeInv, LockInv, ShownInv, [Next]_vars PROVE ShownInv'
  OBVIOUS
<1>2. outbox \in Seq({"message.reacted", "message.deleted"}) /\ (snapshot # NoSnapshot => outbox # <<>>)
  BY <1>1 DEF TypeInv, TypeOK
<1>3. CASE UNCHANGED <<rows, workerVars>>
  BY <1>1, <1>3 DEF ShownInv, workerVars
<1>4. ASSUME NEW p \in Procs, NEW k \in Keys, ToggleStart(p, k) PROVE ShownInv'
  BY <1>3, <1>4 DEF ToggleStart, Accept, dbVars
<1>5. ASSUME NEW p \in Procs, DeleteStart(p) \/ RemoveRow(p) \/ Count(p) \/ Refuse(p) PROVE ShownInv'
  BY <1>3, <1>5 DEF DeleteStart, Accept, RemoveRow, Count, Refuse, dbVars
<1>6. ASSUME NEW p \in Procs, InsertRow(p) \/ ClearRows(p) \/ DeadlockAbort(p) \/ Crash(p) PROVE ShownInv'
  BY <1>3, <1>6 DEF InsertRow, ClearRows, DeadlockAbort, Crash, dbVars
<1>7. ASSUME NEW p \in Procs, TakeChannel(p, "touch", "commit") \/ TakeChannel(p, "lock", "clear") PROVE ShownInv'
  BY <1>3, <1>7 DEF TakeChannel, dbVars
<1>8. ASSUME NEW e \in {"message.reacted", "message.deleted"}, outbox' = Append(outbox, e),
             UNCHANGED snapshot, e = "message.deleted" => rows' = {} PROVE ShownInv'
  <2>1. outbox' # <<>> /\ Len(outbox') = Len(outbox) + 1 /\ outbox'[Len(outbox')] = e
    BY <1>2, <1>8
  <2>2. Len(outbox') = 1 => outbox = <<>>
    <3>1. Len(outbox) \in Nat /\ (Len(outbox') = 1 => Len(outbox) = 0)
      BY <1>2, <2>1
    <3>2. QED BY <1>2, <3>1, EmptySeq
  <2>3. Len(outbox') = 1 => snapshot' = NoSnapshot
    BY <1>1, <1>8, <2>2 DEF ShownInv
  <2>4. NoSnapshot' = NoSnapshot
    BY DEF NoSnapshot, SoftDelete
  <2>5. QED BY <1>8, <2>1, <2>3, <2>4 DEF ShownInv
<1>9. ASSUME NEW p \in Procs, CommitToggle(p) PROVE ShownInv'
  BY <1>8, <1>9 DEF CommitToggle
<1>10. ASSUME NEW p \in Procs, CommitDelete(p) PROVE ShownInv'
  BY <1>1, <1>8, <1>10 DEF CommitDelete, LockInv
<1>11. CASE HandlerRead
  <2>1. outbox' = outbox /\ rows' = rows /\ outbox # <<>>
    BY <1>11 DEF HandlerRead, dbVars
  <2>2. Len(outbox) = 1 => snapshot' = rows
    BY <1>1, <1>2, <1>11 DEF HandlerRead, ShownInv
  <2>3. QED BY <1>1, <2>1, <2>2 DEF ShownInv
<1>12. CASE HandlerPublish
  <2>1. outbox # <<>> /\ snapshot' = NoSnapshot /\ shown' = snapshot /\ rows' = rows
    BY <1>2, <1>12 DEF HandlerPublish, dbVars
  <2>2. CASE outbox' = outbox
    BY <1>1, <2>1, <2>2 DEF ShownInv
  <2>3. CASE outbox' = Tail(outbox)
    <3>1. outbox' \in Seq({"message.reacted", "message.deleted"}) /\ Len(outbox') = Len(outbox) - 1
      BY <1>2, <2>1, <2>3
    <3>2. outbox' # <<>> => outbox'[Len(outbox')] = outbox[Len(outbox)]
      BY <1>2, <2>1, <2>3
    <3>3. outbox' = <<>> => Len(outbox) = 1
      BY <1>2, <2>1, <3>1
    <3>4. outbox' = <<>> => shown' = rows
      BY <1>1, <1>12, <2>1, <3>3 DEF ShownInv, HandlerPublish
    <3>5. NoSnapshot' = NoSnapshot
      BY DEF NoSnapshot, SoftDelete
    <3>6. QED BY <1>1, <2>1, <3>2, <3>4, <3>5 DEF ShownInv
  <2>4. QED BY <1>12, <2>2, <2>3 DEF HandlerPublish
<1>13. CASE UNCHANGED vars
  BY <1>3, <1>13 DEF vars
<1>14. QED
  BY <1>1, StepCases, <1>4, <1>5, <1>6, <1>7, <1>9, <1>10, <1>11, <1>12, <1>13

\* ClientsConverge: when the queue of events has drained, the set clients show
\* is the committed one, whatever was redelivered and whichever request came in
\* between the worker's read and its publish.
THEOREM ClientsAgree == Spec => []ClientsConverge
<1>1. ShownInv => ClientsConverge
  BY DEF ShownInv, ClientsConverge
<1>2. QED
  BY <1>1, TypeInit, TypeStep, LockInit, LockStep, ShownInit, ShownStep, PTL DEF Spec

(***************************************************************************)
(* The cap.  A toggle past its count has a place of its own above the cap,  *)
(* and gives it up when its row is committed among the others'.             *)
(***************************************************************************)

\* The requests that may still add a row, and the emoji a reader may come to see.
PastCount(p) == pc[p] = "insert" \/ added[p] # {}
Adding == {p \in Procs : PastCount(p)}
Coming == Distinct \union {req[p].emoji : p \in Adding}

AddedInv ==
  \A p \in Procs : /\ added[p] \subseteq {req[p]}
                   /\ added[p] # {} => pc[p] \in {"touch", "commit"}

CapInv == /\ IsFiniteSet(Distinct) /\ IsFiniteSet(Coming)
          /\ Cardinality(Coming) < MaxDistinct + Cardinality(Procs)

LEMMA AddedInit == Init => AddedInv
  BY DEF Init, AddedInv

LEMMA AddedStep == TypeInv /\ AddedInv /\ [Next]_vars => AddedInv'
<1>1. SUFFICES ASSUME TypeInv, AddedInv, [Next]_vars PROVE AddedInv'
  OBVIOUS
<1>2. TypeOK
  BY <1>1 DEF TypeInv
<1> USE <1>1, <1>2
<1> USE DEF dbVars, workerVars, Goto, AddedInv
<1>3. ASSUME NEW p \in Procs, End(p) PROVE AddedInv'
  BY <1>3 DEF End, TypeOK
<1>4. ASSUME NEW p \in Procs, NEW k \in Keys, ToggleStart(p, k) PROVE AddedInv'
  BY <1>4 DEF TypeOK, ToggleStart, Accept
<1>5. ASSUME NEW p \in Procs, DeleteStart(p) PROVE AddedInv'
  BY <1>5 DEF TypeOK, DeleteStart, Accept
<1>6. ASSUME NEW p \in Procs, RemoveRow(p) PROVE AddedInv'
  BY <1>6 DEF TypeOK, RemoveRow
<1>7. ASSUME NEW p \in Procs, Count(p) PROVE AddedInv'
  BY <1>7 DEF TypeOK, Count
<1>8. ASSUME NEW p \in Procs, Refuse(p) \/ DeadlockAbort(p) \/ Crash(p) \/ CommitToggle(p) \/ CommitDelete(p) PROVE AddedInv'
  BY <1>3, <1>8 DEF Refuse, DeadlockAbort, Crash, CommitToggle, CommitDelete
<1>9. ASSUME NEW p \in Procs, InsertRow(p) PROVE AddedInv'
  BY <1>9 DEF TypeOK, InsertRow
<1>10. ASSUME NEW p \in Procs, TakeChannel(p, "touch", "commit") PROVE AddedInv'
  BY <1>10 DEF TypeOK, TakeChannel
<1>11. ASSUME NEW p \in Procs, TakeChannel(p, "lock", "clear") PROVE AddedInv'
  BY <1>11 DEF TypeOK, TakeChannel
<1>12. ASSUME NEW p \in Procs, ClearRows(p) PROVE AddedInv'
  BY <1>12 DEF TypeOK, ClearRows
<1>13. CASE HandlerRead \/ HandlerPublish \/ UNCHANGED vars
  BY <1>13 DEF HandlerRead, HandlerPublish, vars
<1>14. QED
  BY StepCases, <1>4, <1>5, <1>6, <1>7, <1>8, <1>9, <1>10, <1>11, <1>12, <1>13

\* Requests bring at most one emoji each.
LEMMA OneEmojiEach ==
  ASSUME NEW f, NEW P \in SUBSET Procs
  PROVE  LET E == {f[p].emoji : p \in P}
         IN  IsFiniteSet(E) /\ Cardinality(E) <= Cardinality(Procs)
<1> DEFINE E == {f[p].emoji : p \in P}
           g == [p \in P |-> f[p].emoji]
<1>1. IsFiniteSet(P) /\ Cardinality(P) <= Cardinality(Procs)
  BY ReactionsAssumption, FS_Subset DEF ReactionsAssumption
<1>2. g \in Surjection(P, E)
  BY DEF Surjection
<1>3. IsFiniteSet(E) /\ Cardinality(E) <= Cardinality(P)
  <2> HIDE DEF g, E
  <2> QED BY <1>1, <1>2, FS_Surjection
<1>4. Cardinality(E) \in Nat /\ Cardinality(P) \in Nat /\ Cardinality(Procs) \in Nat
  BY <1>1, <1>3, ReactionsAssumption, FS_CardinalityType DEF ReactionsAssumption
<1>5. QED BY <1>1, <1>3, <1>4

LEMMA CapInit == Init => CapInv
<1>1. SUFFICES ASSUME Init PROVE CapInv
  OBVIOUS
<1>2. Distinct = {} /\ Coming = {}
  BY <1>1 DEF Init, Distinct, Coming, Adding, PastCount
<1>3. Cardinality(Procs) \in Nat /\ MaxDistinct \in Nat \ {0}
  BY ReactionsAssumption, FS_CardinalityType DEF ReactionsAssumption
<1>4. QED BY <1>2, <1>3, FS_EmptySet DEF CapInv

\* What only takes away from Distinct and Coming keeps the bound.
LEMMA CapShrinks ==
  ASSUME CapInv, Distinct' \subseteq Coming, Coming' \subseteq Coming
  PROVE  CapInv'
<1>1. IsFiniteSet(Distinct') /\ IsFiniteSet(Coming') /\ Cardinality(Coming') <= Cardinality(Coming)
  BY FS_Subset DEF CapInv
<1>2. Cardinality(Coming) \in Nat /\ Cardinality(Coming') \in Nat /\ Cardinality(Procs) \in Nat /\ MaxDistinct \in Nat
  BY <1>1, ReactionsAssumption, FS_CardinalityType DEF CapInv, ReactionsAssumption
<1>3. QED BY <1>1, <1>2 DEF CapInv

LEMMA CapStep == TypeInv /\ AddedInv /\ CapInv /\ [Next]_vars => CapInv'
<1>1. SUFFICES ASSUME TypeInv, AddedInv, CapInv, [Next]_vars PROVE CapInv'
  OBVIOUS
<1>2. TypeOK
  BY <1>1 DEF TypeInv
<1> USE <1>1, <1>2
<1> USE DEF dbVars, workerVars, Goto, Coming, Adding, PastCount, Distinct
<1>3. ASSUME rows' \subseteq rows,
             \A q \in Procs : PastCount(q)' => PastCount(q) /\ req'[q] = req[q]
      PROVE  CapInv'
  <2>1. Distinct' \subseteq Distinct
    BY <1>3
  <2>2. Coming' \subseteq Coming
    BY <1>3, <2>1
  <2>3. QED BY <2>1, <2>2, CapShrinks
<1>4. ASSUME NEW p \in Procs, End(p) PROVE \A q \in Procs : PastCount(q)' => q # p /\ PastCount(q) /\ req'[q] = req[q]
  BY <1>4 DEF End, TypeOK
<1>5. ASSUME NEW p \in Procs, NEW k \in Keys, ToggleStart(p, k) PROVE CapInv'
  BY <1>3, <1>5 DEF TypeOK, ToggleStart, Accept, AddedInv
<1>6. ASSUME NEW p \in Procs, DeleteStart(p) PROVE CapInv'
  BY <1>3, <1>6 DEF TypeOK, DeleteStart, Accept, AddedInv
<1>7. ASSUME NEW p \in Procs, RemoveRow(p) PROVE CapInv'
  BY <1>3, <1>7 DEF TypeOK, RemoveRow
<1>8. ASSUME NEW p \in Procs, Count(p) PROVE CapInv'
  <2> DEFINE e == req[p].emoji
             P == Adding \union {p}
             E == {req[q].emoji : q \in P}
  <2>1. Distinct' = Distinct /\ Coming' \subseteq (Distinct \ {e}) \union E
    BY <1>8 DEF Count, TypeOK
  <2>2. P \subseteq Procs
    OBVIOUS
  <2>3. IsFiniteSet(E) /\ Cardinality(E) <= Cardinality(Procs)
    <3> HIDE DEF P
    <3> QED BY <2>2, OneEmojiEach
  <2> HIDE DEF P, E
  <2>4. IsFiniteSet(Distinct \ {e}) /\ Cardinality(Distinct \ {e}) < MaxDistinct
    BY <1>8, FS_Difference DEF CapInv, Count, OtherEmojis
  <2>5. /\ IsFiniteSet((Distinct \ {e}) \union E)
        /\ Cardinality((Distinct \ {e}) \union E) <= Cardinality(Distinct \ {e}) + Cardinality(E)
    <3>1. /\ IsFiniteSet((Distinct \ {e}) \union E)
          /\ Cardinality((Distinct \ {e}) \union E) = Cardinality(Distinct \ {e}) + Cardinality(E) - Cardinality((Distinct \ {e}) \intersect E)
      BY <2>3, <2>4, FS_Union
    <3>2. IsFiniteSet((Distinct \ {e}) \intersect E)
      BY <2>4, FS_Intersection
    <3>3. /\ Cardinality(Distinct \ {e}) \in Nat /\ Cardinality(E) \in Nat
          /\ Cardinality((Distinct \ {e}) \intersect E) \in Nat
      BY <2>3, <2>4, <3>2, FS_CardinalityType
    <3>4. QED BY <3>1, <3>3
  <2>6. IsFiniteSet(Coming') /\ Cardinality(Coming') <= Cardinality((Distinct \ {e}) \union E)
    BY <2>1, <2>5, FS_Subset
  <2>7. /\ Cardinality(Coming') \in Nat /\ Cardinality((Distinct \ {e}) \union E) \in Nat
        /\ Cardinality(Distinct \ {e}) \in Nat /\ Cardinality(E) \in Nat
        /\ Cardinality(Procs) \in Nat /\ MaxDistinct \in Nat
    BY <2>3, <2>4, <2>5, <2>6, ReactionsAssumption, FS_CardinalityType DEF ReactionsAssumption
  <2>8. Cardinality(Coming') < MaxDistinct + Cardinality(Procs)
    BY <2>3, <2>4, <2>5, <2>6, <2>7
  <2>9. IsFiniteSet(Distinct')
    BY <2>1 DEF CapInv
  <2>10. QED BY <2>6, <2>8, <2>9 DEF CapInv
<1>9. ASSUME NEW p \in Procs, Refuse(p) \/ DeadlockAbort(p) \/ Crash(p) PROVE CapInv'
  BY <1>3, <1>4, <1>9 DEF Refuse, DeadlockAbort, Crash
<1>10. ASSUME NEW p \in Procs, InsertRow(p) PROVE CapInv'
  BY <1>3, <1>10 DEF TypeOK, InsertRow
<1>11. ASSUME NEW p \in Procs, TakeChannel(p, "touch", "commit") PROVE CapInv'
  BY <1>3, <1>11 DEF TypeOK, TakeChannel
<1>12. ASSUME NEW p \in Procs, TakeChannel(p, "lock", "clear") PROVE CapInv'
  BY <1>3, <1>12 DEF TypeOK, TakeChannel
<1>13. ASSUME NEW p \in Procs, CommitToggle(p) PROVE CapInv'
  <2>1. added[p] # {} => p \in Adding
    OBVIOUS
  <2>2. \A k \in added[p] : k = req[p]
    BY DEF AddedInv
  <2>3. Distinct' \subseteq Coming
    BY <1>13, <2>1, <2>2 DEF CommitToggle
  <2>4. \A q \in Procs : PastCount(q)' => PastCount(q) /\ req'[q] = req[q]
    BY <1>4, <1>13 DEF CommitToggle
  <2>5. Coming' \subseteq Coming
    BY <2>3, <2>4
  <2>6. QED BY <2>3, <2>5, CapShrinks
<1>14. ASSUME NEW p \in Procs, ClearRows(p) PROVE CapInv'
  BY <1>3, <1>14 DEF TypeOK, ClearRows
<1>15. ASSUME NEW p \in Procs, CommitDelete(p) PROVE CapInv'
  BY <1>3, <1>4, <1>15 DEF CommitDelete
<1>16. CASE HandlerRead \/ HandlerPublish \/ UNCHANGED vars
  BY <1>3, <1>16 DEF HandlerRead, HandlerPublish, vars
<1>17. QED
  BY StepCases, <1>5, <1>6, <1>7, <1>8, <1>9, <1>10, <1>11, <1>12, <1>13, <1>14, <1>15, <1>16

\* CapOvershoot: however many toggles race past the count, each shows at most
\* one emoji above the cap.
THEOREM CapHolds == Spec => []CapOvershoot
<1>1. CapInv => CapOvershoot
  <2>1. SUFFICES ASSUME CapInv PROVE CapOvershoot
    OBVIOUS
  <2>2. Cardinality(Distinct) <= Cardinality(Coming)
    BY <2>1, FS_Subset DEF CapInv, Coming
  <2>3. /\ Cardinality(Distinct) \in Nat /\ Cardinality(Coming) \in Nat
        /\ Cardinality(Procs) \in Nat /\ MaxDistinct \in Nat
    BY <2>1, ReactionsAssumption, FS_CardinalityType DEF CapInv, ReactionsAssumption
  <2>4. QED BY <2>1, <2>2, <2>3 DEF CapInv, CapOvershoot
<1>2. QED
  BY <1>1, TypeInit, TypeStep, AddedInit, AddedStep, CapInit, CapStep, PTL DEF Spec
================================================================================
