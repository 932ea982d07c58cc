------------------------- MODULE OutboxDrainProofs -------------------------
(***************************************************************************)
(* What the drain guarantees with any number of workers, partitions, rows  *)
(* and deaths, provided a lease outlasts the batch it was taken for: the   *)
(* proviso LEASE_MS is chosen for, and a hypothesis of each theorem but    *)
(* the last four, which have one worker and leases of any length.          *)
(***************************************************************************)
EXTENDS OutboxDrain, FiniteSetTheorems, TLAPS

Running(w, e) == pc[w] = "running" /\ Current(w, e)
Leased(w) == pc[w] \in {"looping", "running"}

\* Who holds what: a claim holds rows that are free, a batch rows under lease.
HandsInv ==
  /\ \A w \in Workers : pc[w] = "idle" => batch[w] = {} /\ deferred[w] = {}
  /\ \A w \in Workers : pc[w] = "claiming" => deferred[w] = {}
  /\ \A w \in Workers : batch[w] \intersect deferred[w] = {}
  /\ \A w \in Workers : pc[w] = "claiming" =>
       \A e \in batch[w] : ~held[e] /\ attempts[e] < MaxAttempts
  /\ \A w \in Workers : Leased(w) =>
       \A e \in InHand(w) : held[e] /\ attempts[e] = seen[w][e]
  /\ \A v, w \in Workers : v # w => InHand(v) \intersect InHand(w) = {}

\* Attempts cover the dispatches begun, and one more for a row not run yet.
CountsInv ==
  /\ \A e \in Ids : begun[e] <= attempts[e]
  /\ \A w \in Workers : \A e \in InHand(w) : Leased(w) /\ ~Running(w, e) => begun[e] < attempts[e]
  /\ \A e \in alarmed : attempts[e] >= MaxAttempts /\ \A w \in Workers : e \notin InHand(w)

\* As long as no worker died they are equal to them.
ExactInv ==
  crashes = 0 =>
    /\ \A w \in Workers : \A e \in InHand(w) :
         Leased(w) => attempts[e] = IF Running(w, e) THEN begun[e] ELSE begun[e] + 1
    /\ \A e \in Ids \ alarmed :
         (\A w \in Workers : Leased(w) => e \notin InHand(w)) => attempts[e] = begun[e]

IInv == TypeOK /\ HandsInv /\ CountsInv /\ ExactInv

LEMMA InitIInv == Init => IInv
  BY OutboxAssumption DEF Init, IInv, TypeOK, HandsInv, CountsInv, ExactInv, InHand, Leased, Running, Ids, Steps

(***************************************************************************)
(* One lemma for each step.                                                *)
(***************************************************************************)

\* The types the arithmetic needs.
LEMMA Numbers ==
  ASSUME TypeOK
  PROVE  /\ MaxAttempts \in Nat \ {0}
         /\ DOMAIN attempts = Ids /\ DOMAIN begun = Ids /\ DOMAIN held = Ids
         /\ \A e \in Ids : attempts[e] \in 0..MaxAttempts /\ begun[e] \in Nat /\ held[e] \in BOOLEAN
         /\ DOMAIN pc = Workers /\ DOMAIN batch = Workers /\ DOMAIN deferred = Workers /\ DOMAIN seen = Workers
         /\ \A w \in Workers : /\ pc[w] \in Steps /\ batch[w] \subseteq Ids /\ deferred[w] \subseteq Ids
                               /\ InHand(w) \subseteq Ids
                               /\ DOMAIN seen[w] = Ids
                               /\ \A e \in Ids : seen[w][e] \in 0..MaxAttempts
         /\ alarmed \subseteq Ids
  BY OutboxAssumption DEF TypeOK, InHand

\* Nothing the invariant speaks of has moved.
LEMMA Stutters ==
  ASSUME IInv, UNCHANGED <<attempts, held, workerVars, crashes, begun, alarmed>>
  PROVE  (HandsInv /\ CountsInv /\ ExactInv)'
<1>1. HandsInv'
  BY DEF IInv, HandsInv, InHand, Leased, workerVars
<1>2. CountsInv'
  BY DEF IInv, CountsInv, InHand, Leased, Running, Current, workerVars
<1>3. ExactInv'
  BY DEF IInv, ExactInv, InHand, Leased, Running, Current, workerVars
<1>4. QED
  BY <1>1, <1>2, <1>3

LEMMA InsertIInv ==
  ASSUME IInv, NEW e \in Ids, Insert(e) \/ EndInsert(e)
  PROVE  IInv'
<1>1. UNCHANGED <<attempts, held, workerVars, crashes, begun, alarmed>>
  BY DEF Insert, EndInsert, history
<1>2. status' \in [Ids -> {"absent", "inserted", "pending", "processed", "rolled back"}] /\ part' = part
  BY DEF IInv, TypeOK, Insert, EndInsert
<1>3. before' \in [Ids -> SUBSET Ids]
  <2>1. CASE EndInsert(e)
    BY <2>1 DEF IInv, TypeOK, EndInsert, history
  <2>2. CASE Insert(e)
    <3>1. e \in Nat /\ 1..(e - 1) \subseteq Ids
      BY OutboxAssumption DEF Ids
    <3>2. QED
      BY <2>2, <3>1 DEF IInv, TypeOK, Insert
  <2>3. QED
    BY <2>1, <2>2
<1>4. TypeOK'
  BY <1>1, <1>2, <1>3 DEF IInv, TypeOK, workerVars
<1>5. QED
  BY <1>1, <1>4, Stutters DEF IInv

LEMMA ClaimLockIInv ==
  ASSUME IInv, NEW w \in Workers, ClaimLock(w)
  PROVE  IInv'
<1>1. PICK rows \in SUBSET Ids : /\ batch' = [batch EXCEPT ![w] = rows]
                                 /\ \A e \in rows : Claimable(e) /\ ~Locked(e)
  BY DEF ClaimLock, Lowest
<1>2. pc[w] = "idle" /\ pc' = [pc EXCEPT ![w] = "claiming"] /\ UNCHANGED <<rowVars, seen, stalled, deferred, crashes, history>>
  BY DEF ClaimLock, Goto
<1>3. TypeOK'
  BY <1>1, <1>2 DEF IInv, TypeOK, rowVars, history, Steps
<1>4. \A v \in Workers : v # w => InHand(v)' = InHand(v) /\ pc'[v] = pc[v] /\ batch'[v] = batch[v]
  BY <1>1, <1>2 DEF InHand, IInv, TypeOK
<1>5. deferred[w] = {} /\ batch'[w] = rows /\ InHand(w)' = rows /\ pc'[w] = "claiming"
  BY <1>1, <1>2 DEF IInv, HandsInv, InHand, TypeOK
<1>6. \A e \in rows : ~held[e] /\ attempts[e] < MaxAttempts
  BY <1>1 DEF Claimable
<1>7. \A v \in Workers : v # w => InHand(v) \intersect rows = {}
  <2>1. SUFFICES ASSUME NEW v \in Workers, v # w, NEW e \in rows, e \in InHand(v) PROVE FALSE
    OBVIOUS
  <2>2. CASE pc[v] = "claiming"
    BY <1>1, <2>1, <2>2 DEF IInv, HandsInv, InHand, Locked
  <2>3. CASE pc[v] = "idle"
    BY <2>1, <2>3 DEF IInv, HandsInv, InHand
  <2>4. CASE Leased(v)
    BY <1>6, <2>1, <2>4 DEF IInv, HandsInv
  <2>5. QED
    BY <2>2, <2>3, <2>4 DEF IInv, TypeOK, Steps, Leased
<1>8. HandsInv'
  BY <1>2, <1>4, <1>5, <1>6, <1>7 DEF IInv, HandsInv, Leased, rowVars
<1>9. CountsInv'
  <2>1. \A v \in Workers : \A e \in InHand(v)' : Leased(v)' /\ ~Running(v, e)' => begun'[e] < attempts'[e]
    BY <1>2, <1>4, <1>5 DEF IInv, CountsInv, Leased, Running, Current, rowVars, history
  <2>2. \A e \in alarmed : e \notin rows
    BY <1>6, Numbers DEF IInv, CountsInv
  <2>3. \A e \in alarmed' : attempts'[e] >= MaxAttempts /\ \A v \in Workers : e \notin InHand(v)'
    BY <1>2, <1>4, <1>5, <2>2 DEF IInv, CountsInv, rowVars, history
  <2>4. QED
    BY <1>2, <2>1, <2>3 DEF IInv, CountsInv, rowVars, history
<1>10. ExactInv'
  BY <1>2, <1>4, <1>5 DEF IInv, ExactInv, Leased, Running, Current, rowVars, history
<1>11. QED
  BY <1>3, <1>8, <1>9, <1>10 DEF IInv

LEMMA ClaimCommitIInv ==
  ASSUME IInv, NEW w \in Workers, ClaimCommit(w)
  PROVE  IInv'
<1>1. /\ pc[w] = "claiming" /\ pc' = [pc EXCEPT ![w] = "looping"]
      /\ attempts' = [e \in Ids |-> IF e \in batch[w] THEN attempts[e] + 1 ELSE attempts[e]]
      /\ held' = [e \in Ids |-> held[e] \/ e \in batch[w]]
      /\ seen' = [seen EXCEPT ![w] = [e \in Ids |-> IF e \in batch[w] THEN attempts'[e] ELSE 0]]
      /\ UNCHANGED <<status, part, batch, stalled, deferred, crashes, history>>
  BY DEF ClaimCommit, Goto
<1> USE Numbers DEF IInv
<1>2. \A e \in batch[w] : attempts[e] < MaxAttempts
  BY <1>1 DEF HandsInv
<1>3. TypeOK'
  <2>1. \A e \in Ids : attempts'[e] \in 0..MaxAttempts
    BY <1>1, <1>2
  <2>2. attempts' \in [Ids -> 0..MaxAttempts]
    BY <1>1, <2>1
  <2>3. [e \in Ids |-> IF e \in batch[w] THEN attempts'[e] ELSE 0] \in [Ids -> 0..MaxAttempts]
    BY <2>1
  <2>4. seen' \in [Workers -> [Ids -> 0..MaxAttempts]]
    BY <1>1, <2>3 DEF TypeOK
  <2>5. QED
    BY <1>1, <2>2, <2>4 DEF TypeOK, history, Steps
<1>4. \A v \in Workers : InHand(v)' = InHand(v) /\ batch'[v] = batch[v]
  BY <1>1 DEF InHand
<1>5. InHand(w) = batch[w] /\ pc'[w] = "looping"
  BY <1>1 DEF HandsInv, InHand
<1>6. \A v \in Workers : v # w => pc'[v] = pc[v] /\ seen'[v] = seen[v]
  BY <1>1
<1>7. \A v \in Workers : v # w => \A e \in InHand(v) : e \in Ids /\ attempts'[e] = attempts[e] /\ (held[e] <=> held'[e])
  BY <1>1, <1>5 DEF HandsInv
<1>8. \A e \in InHand(w) : e \in Ids /\ held'[e] /\ attempts'[e] = attempts[e] + 1 /\ seen'[w][e] = attempts'[e]
  BY <1>1, <1>5
<1>9. HandsInv'
  <2>1. ASSUME NEW v \in Workers, Leased(v)', NEW e \in InHand(v)'
        PROVE  held'[e] /\ attempts'[e] = seen'[v][e]
    <3>1. CASE v = w
      BY <1>4, <1>8, <2>1, <3>1
    <3>2. CASE v # w
      BY <1>4, <1>6, <1>7, <2>1, <3>2 DEF HandsInv, Leased
    <3>3. QED
      BY <3>1, <3>2
  <2>2. \A v \in Workers : pc'[v] = "claiming" => \A e \in batch'[v] : ~held'[e] /\ attempts'[e] < MaxAttempts
    BY <1>4, <1>5, <1>6, <1>7 DEF HandsInv, InHand
  <2>3. \A v \in Workers : pc'[v] = "idle" \/ pc'[v] = "claiming" => v # w /\ pc'[v] = pc[v]
    BY <1>5, <1>6
  <2>4. /\ \A v \in Workers : pc'[v] = "idle" => batch'[v] = {} /\ deferred'[v] = {}
        /\ \A v \in Workers : pc'[v] = "claiming" => deferred'[v] = {}
        /\ \A v \in Workers : batch'[v] \intersect deferred'[v] = {}
        /\ \A u, v \in Workers : u # v => InHand(u)' \intersect InHand(v)' = {}
    BY <1>1, <1>4, <2>3 DEF HandsInv
  <2>5. \A v \in Workers : Leased(v)' => \A e \in InHand(v)' : held'[e] /\ attempts'[e] = seen'[v][e]
    BY <2>1
  <2>6. QED
    BY <2>2, <2>4, <2>5 DEF HandsInv
<1>10. \A e \in Ids : attempts'[e] >= attempts[e]
  BY <1>1
<1>11. CountsInv'
  <2>1. ASSUME NEW e \in Ids PROVE begun'[e] <= attempts'[e]
    <3>1. begun'[e] = begun[e] /\ begun[e] <= attempts[e]
      BY <1>1 DEF CountsInv, history
    <3>2. attempts'[e] = attempts[e] \/ attempts'[e] = attempts[e] + 1
      BY <1>1
    <3>3. QED
      BY <3>1, <3>2
  <2>2. ASSUME NEW v \in Workers, NEW e \in InHand(v)', Leased(v)', ~Running(v, e)'
        PROVE  begun'[e] < attempts'[e]
    <3>1. e \in Ids /\ e \in InHand(v) /\ begun'[e] = begun[e] /\ begun[e] <= attempts[e]
      BY <1>1, <1>4, <2>2 DEF CountsInv, history
    <3>2. CASE v = w
      BY <1>8, <3>1, <3>2
    <3>3. CASE v # w
      BY <1>4, <1>6, <1>7, <2>2, <3>1, <3>3 DEF CountsInv, Leased, Running, Current
    <3>4. QED
      BY <3>2, <3>3
  <2>3. ASSUME NEW e \in alarmed'
        PROVE  attempts'[e] >= MaxAttempts /\ \A v \in Workers : e \notin InHand(v)'
    <3>1. e \in alarmed /\ e \in Ids /\ attempts[e] >= MaxAttempts /\ \A v \in Workers : e \notin InHand(v)
      BY <1>1, <2>3 DEF CountsInv, history
    <3>2. attempts'[e] = attempts[e]
      BY <1>1, <1>5, <3>1
    <3>3. QED
      BY <1>4, <3>1, <3>2
  <2>4. QED
    BY <2>1, <2>2, <2>3 DEF CountsInv
<1>12. ExactInv'
  <2>1. SUFFICES ASSUME crashes = 0 PROVE
          /\ \A v \in Workers : \A e \in InHand(v)' :
               Leased(v)' => attempts'[e] = IF Running(v, e)' THEN begun'[e] ELSE begun'[e] + 1
          /\ \A e \in Ids \ alarmed' :
               (\A v \in Workers : Leased(v)' => e \notin InHand(v)') => attempts'[e] = begun'[e]
    BY <1>1 DEF ExactInv
  <2>2. ASSUME NEW e \in InHand(w) PROVE attempts[e] = begun[e]
    <3>1. e \in Ids \ alarmed
      BY <2>2 DEF CountsInv
    <3>2. \A v \in Workers : Leased(v) => e \notin InHand(v)
      BY <1>1, <2>2 DEF HandsInv, Leased
    <3>3. QED
      BY <2>1, <3>1, <3>2 DEF ExactInv
  <2>3. ASSUME NEW v \in Workers, NEW e \in InHand(v)', Leased(v)'
        PROVE  attempts'[e] = IF Running(v, e)' THEN begun'[e] ELSE begun'[e] + 1
    <3>1. CASE v = w
      <4>1. ~Running(v, e)' /\ e \in InHand(w) /\ begun'[e] = begun[e]
        BY <1>1, <1>4, <1>5, <2>3, <3>1 DEF Running, history
      <4>2. attempts[e] = begun[e] /\ attempts'[e] = attempts[e] + 1
        BY <1>8, <2>2, <4>1
      <4>3. QED
        BY <4>1, <4>2
    <3>2. CASE v # w
      <4>1. e \in InHand(v) /\ attempts'[e] = attempts[e] /\ begun'[e] = begun[e]
        BY <1>1, <1>4, <1>7, <2>3, <3>2 DEF history
      <4>2. Leased(v) /\ (Running(v, e)' <=> Running(v, e))
        BY <1>4, <1>6, <2>3, <3>2 DEF Leased, Running, Current
      <4>3. attempts[e] = IF Running(v, e) THEN begun[e] ELSE begun[e] + 1
        BY <2>1, <4>1, <4>2 DEF ExactInv
      <4>4. QED
        BY <4>1, <4>2, <4>3
    <3>3. QED
      BY <3>1, <3>2
  <2>4. ASSUME NEW e \in Ids \ alarmed', \A v \in Workers : Leased(v)' => e \notin InHand(v)'
        PROVE  attempts'[e] = begun'[e]
    <3>1. e \notin batch[w] /\ e \notin alarmed
      BY <1>1, <1>4, <1>5, <2>4 DEF Leased, history
    <3>2. \A v \in Workers : Leased(v) => e \notin InHand(v)
      BY <1>1, <1>4, <1>6, <2>4 DEF Leased
    <3>3. attempts[e] = begun[e]
      BY <2>1, <3>1, <3>2 DEF ExactInv
    <3>4. QED
      BY <1>1, <3>1, <3>3 DEF history
  <2>5. QED
    BY <2>3, <2>4
<1>13. QED
  BY <1>3, <1>9, <1>11, <1>12

\* A row of a leased batch that is dropped from it or handed back.
LEMMA DeferIInv ==
  ASSUME IInv, NEW w \in Workers, NEW e \in Ids, Defer(w, e)
  PROVE  IInv'
<1> USE Numbers DEF IInv
<1>1. /\ pc[w] = "looping" /\ e \in batch[w]
      /\ deferred' = [deferred EXCEPT ![w] = deferred[w] \union {e}]
      /\ batch' = [batch EXCEPT ![w] = batch[w] \ {e}]
      /\ UNCHANGED <<rowVars, pc, seen, stalled, crashes, history>>
  BY DEF Defer, Current
<1>2. TypeOK'
  BY <1>1 DEF TypeOK, rowVars, history
<1>3. \A v \in Workers : InHand(v)' = InHand(v)
  BY <1>1 DEF InHand
<1>4. \A v \in Workers : pc[v] # "looping" => batch'[v] = batch[v] /\ deferred'[v] = deferred[v]
  BY <1>1
<1>5. \A v \in Workers : batch'[v] \intersect deferred'[v] = {}
  BY <1>1 DEF HandsInv
<1>6. HandsInv'
  BY <1>1, <1>3, <1>4, <1>5 DEF HandsInv, Leased, rowVars
<1>7. \A v \in Workers, d \in Ids : Running(v, d)' <=> Running(v, d)
  BY <1>1, <1>4 DEF Running, Current
<1>8. CountsInv'
  BY <1>1, <1>3, <1>7 DEF CountsInv, Leased, rowVars, history
<1>9. ExactInv'
  BY <1>1, <1>3, <1>7 DEF ExactInv, Leased, rowVars, history
<1>10. QED
  BY <1>2, <1>6, <1>8, <1>9

LEMMA DispatchIInv ==
  ASSUME IInv, NEW w \in Workers, NEW e \in Ids, Dispatch(w, e)
  PROVE  IInv'
<1> USE Numbers DEF IInv
<1>1. /\ pc[w] = "looping" /\ Current(w, e)
      /\ pc' = [pc EXCEPT ![w] = "running"]
      /\ begun' = [begun EXCEPT ![e] = begun[e] + 1]
      /\ UNCHANGED <<rowVars, batch, seen, stalled, deferred, crashes, before, alarmed>>
  BY DEF Dispatch, Goto
<1>2. e \in InHand(w) /\ Leased(w) /\ ~Running(w, e)
  BY <1>1 DEF Current, InHand, Leased, Running
<1>3. begun[e] < attempts[e]
  BY <1>2 DEF CountsInv
<1>4. TypeOK'
  <2>a. begun \in [Ids -> Nat] /\ pc \in [Workers -> Steps]
    BY DEF TypeOK
  <2>1. begun[e] + 1 \in Nat /\ begun \in [Ids -> Nat] /\ pc \in [Workers -> Steps]
    BY ONLY <2>a, e \in Ids
  <2>2. begun' \in [Ids -> Nat] /\ pc' \in [Workers -> Steps]
    BY <1>1, <2>1 DEF Steps
  <2>3. QED
    BY <1>1, <2>2 DEF TypeOK, rowVars
<1>5. \A v \in Workers : InHand(v)' = InHand(v) /\ (v # w => pc'[v] = pc[v]) /\ (Leased(v)' <=> Leased(v))
  BY <1>1 DEF InHand, Leased
<1>6. HandsInv'
  <2>1. \A v \in Workers : pc'[v] \in {"idle", "claiming"} => pc'[v] = pc[v]
    BY <1>1
  <2>2. QED
    BY <1>1, <1>5, <2>1 DEF HandsInv, rowVars
<1>7. \A v \in Workers : v # w => e \notin InHand(v)
  BY <1>2 DEF HandsInv
<1>8. \A v \in Workers : \A d \in InHand(v) : v # w => (Running(v, d)' <=> Running(v, d)) /\ begun'[d] = begun[d] /\ d \in Ids
  BY <1>1, <1>5, <1>7 DEF Running, Current
<1>9. Running(w, e)' /\ \A d \in InHand(w) : d # e => ~Running(w, d)' /\ ~Running(w, d) /\ begun'[d] = begun[d] /\ d \in Ids
  <2>1. Running(w, e)' /\ batch' = batch
    BY <1>1 DEF Running, Current
  <2>2. ASSUME NEW d \in InHand(w), d # e PROVE ~Running(w, d)'
    BY <1>1, <2>1, <2>2 DEF Running, Current, Ids
  <2>3. QED
    BY <1>1, <2>1, <2>2 DEF Running
<1>10. CountsInv'
  <2>1. ASSUME NEW d \in Ids PROVE begun'[d] <= attempts'[d]
    <3>1. CASE d = e
      BY <1>1, <1>3, <3>1 DEF rowVars
    <3>2. CASE d # e
      BY <1>1, <3>2 DEF rowVars, CountsInv
    <3>3. QED
      BY <3>1, <3>2
  <2>2. ASSUME NEW v \in Workers, NEW d \in InHand(v)', Leased(v)', ~Running(v, d)'
        PROVE  begun'[d] < attempts'[d]
    <3>1. CASE v = w
      <4>1. d # e /\ d \in InHand(w)
        BY <1>5, <1>9, <2>2, <3>1
      <4>2. ~Running(w, d) /\ begun'[d] = begun[d] /\ Leased(w)
        BY <1>2, <1>9, <4>1
      <4>3. QED
        BY <1>1, <4>1, <4>2 DEF CountsInv, rowVars
    <3>2. CASE v # w
      BY <1>1, <1>5, <1>8, <2>2, <3>2 DEF CountsInv, rowVars
    <3>3. QED
      BY <3>1, <3>2
  <2>3. \A d \in alarmed' : attempts'[d] >= MaxAttempts /\ \A v \in Workers : d \notin InHand(v)'
    BY <1>1, <1>5 DEF CountsInv, rowVars
  <2>4. QED
    BY <2>1, <2>2, <2>3 DEF CountsInv
<1>11. ExactInv'
  <2>1. SUFFICES ASSUME crashes = 0 PROVE
          /\ \A v \in Workers : \A d \in InHand(v)' :
               Leased(v)' => attempts'[d] = IF Running(v, d)' THEN begun'[d] ELSE begun'[d] + 1
          /\ \A d \in Ids \ alarmed' :
               (\A v \in Workers : Leased(v)' => d \notin InHand(v)') => attempts'[d] = begun'[d]
    BY <1>1 DEF ExactInv
  <2>2. ASSUME NEW v \in Workers, NEW d \in InHand(v)', Leased(v)'
        PROVE  attempts'[d] = IF Running(v, d)' THEN begun'[d] ELSE begun'[d] + 1
    <3>1. CASE v = w /\ d = e
      <4>1. attempts[e] = begun[e] + 1
        BY <1>2, <2>1 DEF ExactInv
      <4>2. QED
        BY <1>1, <1>9, <3>1, <4>1 DEF rowVars
    <3>2. CASE v = w /\ d # e
      BY <1>1, <1>2, <1>5, <1>9, <2>1, <2>2, <3>2 DEF ExactInv, rowVars
    <3>3. CASE v # w
      BY <1>1, <1>5, <1>8, <2>1, <2>2, <3>3 DEF ExactInv, rowVars
    <3>4. QED
      BY <3>1, <3>2, <3>3
  <2>3. ASSUME NEW d \in Ids \ alarmed', \A v \in Workers : Leased(v)' => d \notin InHand(v)'
        PROVE  attempts'[d] = begun'[d]
    <3>1. d # e
      BY <1>2, <1>5, <2>3
    <3>2. QED
      BY <1>1, <1>5, <2>1, <2>3, <3>1 DEF ExactInv, rowVars
  <2>4. QED
    BY <2>2, <2>3
<1>12. QED
  BY <1>4, <1>6, <1>10, <1>11

\* What the end of a dispatch does to the worker, whatever its outcome.
LEMMA Settled ==
  ASSUME IInv, NEW w \in Workers, NEW e \in Ids, Settle(w, e),
         \A d \in Ids : d # e => attempts'[d] = attempts[d] /\ (held'[d] <=> held[d])
  PROVE  /\ pc[w] = "running" /\ pc'[w] = "looping" /\ Running(w, e)
         /\ InHand(w)' = InHand(w) \ {e}
         /\ \A v \in Workers : v # w => e \notin InHand(v)
         /\ \A v \in Workers : v # w => pc'[v] = pc[v] /\ batch'[v] = batch[v] /\ InHand(v)' = InHand(v)
         /\ HandsInv'
         /\ \A v \in Workers : \A d \in InHand(v)' : d # e /\ (Running(v, d)' <=> Running(v, d))
<1> USE Numbers DEF IInv
<1>1. /\ pc[w] = "running" /\ Current(w, e)
      /\ pc' = [pc EXCEPT ![w] = "looping"] /\ batch' = [batch EXCEPT ![w] = batch[w] \ {e}]
      /\ UNCHANGED <<seen, deferred>>
  BY DEF Settle, Goto
<1>2. e \in batch[w] /\ e \notin deferred[w]
  BY <1>1 DEF Current, HandsInv
<1>3. InHand(w)' = InHand(w) \ {e} /\ e \in InHand(w)
  BY <1>1, <1>2 DEF InHand
<1>4. \A v \in Workers : v # w => pc'[v] = pc[v] /\ batch'[v] = batch[v] /\ InHand(v)' = InHand(v)
  BY <1>1 DEF InHand
<1>5. \A v \in Workers : v # w => e \notin InHand(v)
  BY <1>3 DEF HandsInv
<1>6. \A v \in Workers : InHand(v)' \subseteq InHand(v) /\ \A d \in InHand(v)' : d \in Ids /\ d # e
  BY <1>3, <1>4, <1>5
<1>7. HandsInv'
  <2>1. /\ \A v \in Workers : pc'[v] = "idle" => batch'[v] = {} /\ deferred'[v] = {}
        /\ \A v \in Workers : pc'[v] = "claiming" => deferred'[v] = {}
        /\ \A v \in Workers : batch'[v] \intersect deferred'[v] = {}
    BY <1>1, <1>4 DEF HandsInv
  <2>2. \A u, v \in Workers : u # v => InHand(u)' \intersect InHand(v)' = {}
    BY <1>6 DEF HandsInv
  <2>3. ASSUME NEW v \in Workers, pc'[v] = "claiming", NEW d \in batch'[v]
        PROVE  ~held'[d] /\ attempts'[d] < MaxAttempts
    <3>1. v # w /\ pc[v] = "claiming" /\ d \in batch[v]
      BY <1>1, <1>4, <2>3
    <3>2. d \in Ids /\ d # e
      BY <1>5, <3>1 DEF InHand
    <3>3. QED
      BY <3>1, <3>2 DEF HandsInv
  <2>4. ASSUME NEW v \in Workers, Leased(v)', NEW d \in InHand(v)'
        PROVE  held'[d] /\ attempts'[d] = seen'[v][d]
    <3>1. Leased(v) /\ d \in InHand(v) /\ d \in Ids /\ d # e
      BY <1>1, <1>4, <1>6, <2>4 DEF Leased
    <3>2. QED
      BY <1>1, <3>1 DEF HandsInv
  <2>5. QED
    BY <2>1, <2>2, <2>3, <2>4 DEF HandsInv
<1>8. ASSUME NEW v \in Workers, NEW d \in InHand(v)' PROVE Running(v, d)' <=> Running(v, d)
  <2>1. CASE v # w
    BY <1>4, <2>1 DEF Running, Current
  <2>2. CASE v = w
    <3>1. ~Running(v, d)'
      BY <1>1, <2>2 DEF Running
    <3>2. d # e /\ d \in Ids
      BY <1>6, <1>8
    <3>3. ~Running(v, d)
      BY <1>1, <2>2, <3>2 DEF Running, Current, Ids
    <3>4. QED
      BY <3>1, <3>3
  <2>3. QED
    BY <2>1, <2>2
<1>9. QED
  BY <1>1, <1>3, <1>4, <1>5, <1>6, <1>7, <1>8 DEF Running

LEMMA ProcessedIInv ==
  ASSUME IInv, NEW w \in Workers, NEW e \in Ids, Processed(w, e)
  PROVE  IInv'
<1> USE Numbers DEF IInv
<1>1. /\ Settle(w, e) /\ status' = [status EXCEPT ![e] = "processed"]
      /\ held' = [held EXCEPT ![e] = FALSE] /\ UNCHANGED <<attempts, stalled, alarmed>>
  BY DEF Processed
<1>2. \A d \in Ids : d # e => attempts'[d] = attempts[d] /\ (held'[d] <=> held[d])
  BY <1>1
<1> DEFINE S == /\ pc[w] = "running" /\ pc'[w] = "looping" /\ Running(w, e)
                /\ InHand(w)' = InHand(w) \ {e}
                /\ \A v \in Workers : v # w => e \notin InHand(v)
                /\ \A v \in Workers : v # w => pc'[v] = pc[v] /\ batch'[v] = batch[v] /\ InHand(v)' = InHand(v)
                /\ HandsInv'
                /\ \A v \in Workers : \A d \in InHand(v)' : d # e /\ (Running(v, d)' <=> Running(v, d))
<1>3. S
  BY <1>1, <1>2, Settled
<1>4. UNCHANGED <<begun, crashes, part, seen, deferred, before>>
  BY <1>1 DEF Settle
<1>5. TypeOK'
  BY <1>1, <1>4 DEF TypeOK, Settle, Goto, Steps
<1>6. CountsInv'
  BY <1>1, <1>3, <1>4 DEF CountsInv, Leased
<1>7. ExactInv'
  <2>1. SUFFICES ASSUME crashes = 0 PROVE
          /\ \A v \in Workers : \A d \in InHand(v)' :
               Leased(v)' => attempts'[d] = IF Running(v, d)' THEN begun'[d] ELSE begun'[d] + 1
          /\ \A d \in Ids \ alarmed' :
               (\A v \in Workers : Leased(v)' => d \notin InHand(v)') => attempts'[d] = begun'[d]
    BY <1>4 DEF ExactInv
  <2>2. \A v \in Workers : \A d \in InHand(v)' :
               Leased(v)' => attempts'[d] = IF Running(v, d)' THEN begun'[d] ELSE begun'[d] + 1
    BY <1>1, <1>3, <1>4, <2>1 DEF ExactInv, Leased
  <2>3. attempts[e] = begun[e]
    BY <1>3, <2>1 DEF ExactInv, Leased, Running, Current, InHand
  <2>4. \A d \in Ids \ alarmed' :
               (\A v \in Workers : Leased(v)' => d \notin InHand(v)') => attempts'[d] = begun'[d]
    BY <1>1, <1>3, <1>4, <2>1, <2>3 DEF ExactInv, Leased
  <2>5. QED
    BY <2>2, <2>4
<1>8. QED
  BY <1>3, <1>5, <1>6, <1>7

LEMMA FailIInv ==
  ASSUME IInv, NEW w \in Workers, NEW e \in Ids, Failed(w, e) \/ FailedPermanently(w, e)
  PROVE  IInv'
<1> USE Numbers DEF IInv
<1>1. PICK n \in 0..MaxAttempts, delayed \in BOOLEAN :
         Fail(w, e, n, delayed) /\ n >= seen[w][e] /\ (n = seen[w][e] \/ n = MaxAttempts)
  <2>1. MaxAttempts \in 0..MaxAttempts /\ seen[w][e] \in 0..MaxAttempts /\ MaxAttempts >= seen[w][e] /\ seen[w][e] >= seen[w][e]
    OBVIOUS
  <2>2. CASE Failed(w, e)
    BY <2>1, <2>2 DEF Failed
  <2>3. CASE FailedPermanently(w, e)
    BY <2>1, <2>3 DEF FailedPermanently
  <2>4. QED
    BY <2>2, <2>3
<1>2. /\ Settle(w, e) /\ attempts' = [attempts EXCEPT ![e] = n] /\ held' = [held EXCEPT ![e] = delayed]
      /\ stalled' = [stalled EXCEPT ![w] = stalled[w] \union {part[e]}]
      /\ alarmed' = IF n >= MaxAttempts THEN alarmed \union {e} ELSE alarmed
      /\ UNCHANGED status
  BY <1>1 DEF Fail
<1>3. \A d \in Ids : d # e => attempts'[d] = attempts[d] /\ (held'[d] <=> held[d])
  BY <1>2
<1>4. /\ pc[w] = "running" /\ pc'[w] = "looping" /\ Running(w, e)
      /\ InHand(w)' = InHand(w) \ {e}
      /\ \A v \in Workers : v # w => e \notin InHand(v)
      /\ \A v \in Workers : v # w => pc'[v] = pc[v] /\ batch'[v] = batch[v] /\ InHand(v)' = InHand(v)
      /\ HandsInv'
      /\ \A v \in Workers : \A d \in InHand(v)' : d # e /\ (Running(v, d)' <=> Running(v, d))
  BY <1>2, <1>3, Settled
<1>5. UNCHANGED <<begun, crashes, part, seen, deferred, before>>
  BY <1>2 DEF Settle
<1>6. TypeOK'
  <2>1. attempts' \in [Ids -> 0..MaxAttempts] /\ held' \in [Ids -> BOOLEAN] /\ alarmed' \subseteq Ids
    BY <1>2 DEF TypeOK
  <2>a. stalled \in [Workers -> SUBSET Partitions] /\ part[e] \in Partitions
    BY DEF TypeOK
  <2>2. stalled' \in [Workers -> SUBSET Partitions]
    BY ONLY <1>2, <2>a
  <2>3. pc' \in [Workers -> Steps] /\ batch' \in [Workers -> SUBSET Ids]
    BY <1>2 DEF TypeOK, Settle, Goto, Steps
  <2>4. QED
    BY <1>2, <1>5, <2>1, <2>2, <2>3 DEF TypeOK
<1>7. seen[w][e] = attempts[e] /\ n >= attempts[e] /\ attempts'[e] = n
  BY <1>1, <1>2, <1>4 DEF HandsInv, Leased, Running, Current, InHand
<1>8. CountsInv'
  <2>1. ASSUME NEW d \in Ids PROVE begun'[d] <= attempts'[d]
    BY <1>3, <1>5, <1>7 DEF CountsInv
  <2>2. \A v \in Workers : \A d \in InHand(v)' : Leased(v)' /\ ~Running(v, d)' => begun'[d] < attempts'[d]
    BY <1>3, <1>4, <1>5 DEF CountsInv, Leased
  <2>3. \A v \in Workers : InHand(v)' \subseteq InHand(v) /\ e \notin InHand(v)'
    BY <1>4
  <2>4. \A d \in alarmed' : attempts'[d] >= MaxAttempts /\ \A v \in Workers : d \notin InHand(v)'
    BY <1>2, <1>3, <1>7, <2>3 DEF CountsInv
  <2>5. QED
    BY <2>1, <2>2, <2>4 DEF CountsInv
<1>9. ExactInv'
  <2>1. SUFFICES ASSUME crashes = 0 PROVE
          /\ \A v \in Workers : \A d \in InHand(v)' :
               Leased(v)' => attempts'[d] = IF Running(v, d)' THEN begun'[d] ELSE begun'[d] + 1
          /\ \A d \in Ids \ alarmed' :
               (\A v \in Workers : Leased(v)' => d \notin InHand(v)') => attempts'[d] = begun'[d]
    BY <1>5 DEF ExactInv
  <2>2. \A v \in Workers : \A d \in InHand(v)' :
               Leased(v)' => attempts'[d] = IF Running(v, d)' THEN begun'[d] ELSE begun'[d] + 1
    BY <1>3, <1>4, <1>5, <2>1 DEF ExactInv, Leased
  <2>3. attempts[e] = begun[e]
    BY <1>4, <2>1 DEF ExactInv, Leased, Running, Current, InHand
  <2>4. e \notin alarmed' => n = attempts[e]
    BY <1>1, <1>2, <1>7
  <2>5. \A d \in Ids \ alarmed' :
               (\A v \in Workers : Leased(v)' => d \notin InHand(v)') => attempts'[d] = begun'[d]
    BY <1>2, <1>3, <1>4, <1>5, <1>7, <2>1, <2>3, <2>4 DEF ExactInv, Leased
  <2>6. QED
    BY <2>2, <2>5
<1>10. QED
  BY <1>4, <1>6, <1>8, <1>9

\* drainOnce over or dead: the worker has nothing in hand.
LEMMA Emptied ==
  ASSUME TypeOK, NEW w \in Workers, Forget(w)
  PROVE  /\ pc'[w] = "idle" /\ InHand(w)' = {} /\ batch'[w] = {} /\ deferred'[w] = {}
         /\ \A v \in Workers : v # w => /\ pc'[v] = pc[v] /\ batch'[v] = batch[v] /\ deferred'[v] = deferred[v]
                                        /\ InHand(v)' = InHand(v) /\ seen'[v] = seen[v]
                                        /\ \A e \in Ids : Running(v, e)' <=> Running(v, e)
         /\ pc' \in [Workers -> Steps] /\ batch' \in [Workers -> SUBSET Ids]
         /\ seen' \in [Workers -> [Ids -> 0..MaxAttempts]]
         /\ stalled' \in [Workers -> SUBSET Partitions] /\ deferred' \in [Workers -> SUBSET Ids]
<1>1. /\ pc' = [pc EXCEPT ![w] = "idle"] /\ batch' = [batch EXCEPT ![w] = {}] /\ deferred' = [deferred EXCEPT ![w] = {}]
      /\ seen' = [seen EXCEPT ![w] = [e \in Ids |-> 0]] /\ stalled' = [stalled EXCEPT ![w] = {}]
  BY DEF Forget, Goto
<1>2. pc' \in [Workers -> Steps] /\ batch' \in [Workers -> SUBSET Ids] /\ deferred' \in [Workers -> SUBSET Ids]
  BY <1>1 DEF TypeOK, Steps
<1>3. seen' \in [Workers -> [Ids -> 0..MaxAttempts]] /\ stalled' \in [Workers -> SUBSET Partitions]
  <2>1. [e \in Ids |-> 0] \in [Ids -> 0..MaxAttempts]
    BY OutboxAssumption
  <2>2. seen \in [Workers -> [Ids -> 0..MaxAttempts]] /\ stalled \in [Workers -> SUBSET Partitions]
    BY DEF TypeOK
  <2>3. QED
    BY ONLY <1>1, <2>1, <2>2
<1>4. /\ pc'[w] = "idle" /\ InHand(w)' = {} /\ batch'[w] = {} /\ deferred'[w] = {}
      /\ \A v \in Workers : v # w => /\ pc'[v] = pc[v] /\ batch'[v] = batch[v] /\ deferred'[v] = deferred[v]
                                     /\ InHand(v)' = InHand(v) /\ seen'[v] = seen[v]
  BY <1>1 DEF TypeOK, InHand
<1>5. \A v \in Workers : v # w => \A e \in Ids : Running(v, e)' <=> Running(v, e)
  BY <1>4 DEF Running, Current
<1>6. QED
  BY <1>2, <1>3, <1>4, <1>5

\* The others keep their hands, if what is written is in none of them.
LEMMA HandsKept ==
  ASSUME IInv, NEW w \in Workers, Forget(w),
         \A v \in Workers : v # w => \A e \in InHand(v) : attempts'[e] = attempts[e] /\ (held'[e] <=> held[e])
  PROVE  HandsInv'
<1>1. /\ pc'[w] = "idle" /\ InHand(w)' = {} /\ batch'[w] = {} /\ deferred'[w] = {}
      /\ \A v \in Workers : v # w => /\ pc'[v] = pc[v] /\ batch'[v] = batch[v] /\ deferred'[v] = deferred[v]
                                     /\ InHand(v)' = InHand(v) /\ seen'[v] = seen[v]
  BY Emptied DEF IInv
<1>2. /\ \A v \in Workers : pc'[v] = "idle" => batch'[v] = {} /\ deferred'[v] = {}
      /\ \A v \in Workers : pc'[v] = "claiming" => deferred'[v] = {}
      /\ \A v \in Workers : batch'[v] \intersect deferred'[v] = {}
      /\ \A u, v \in Workers : u # v => InHand(u)' \intersect InHand(v)' = {}
  BY <1>1 DEF IInv, HandsInv
<1>3. ASSUME NEW v \in Workers, pc'[v] = "claiming", NEW e \in batch'[v]
      PROVE  ~held'[e] /\ attempts'[e] < MaxAttempts
  <2>1. v # w /\ pc[v] = "claiming" /\ e \in batch[v] /\ e \in InHand(v)
    BY <1>1, <1>3 DEF InHand
  <2>2. QED
    BY <2>1 DEF IInv, HandsInv
<1>4. ASSUME NEW v \in Workers, Leased(v)', NEW e \in InHand(v)'
      PROVE  held'[e] /\ attempts'[e] = seen'[v][e]
  <2>1. v # w /\ Leased(v) /\ e \in InHand(v) /\ seen'[v] = seen[v]
    BY <1>1, <1>4 DEF Leased
  <2>2. QED
    BY <2>1 DEF IInv, HandsInv
<1>5. QED
  BY <1>2, <1>3, <1>4 DEF HandsInv

LEMMA CrashIInv ==
  ASSUME IInv, NEW w \in Workers, Crash(w)
  PROVE  IInv'
<1>1. Forget(w) /\ UNCHANGED <<status, part, attempts, held, before, begun, alarmed>>
      /\ crashes' = crashes + 1 /\ crashes < MaxCrashes
  BY DEF Crash, rowVars, history
<1>2. crashes' # 0 /\ crashes' \in 0..MaxCrashes
  <2>1. crashes \in 0..MaxCrashes /\ MaxCrashes \in Nat
    BY OutboxAssumption DEF IInv, TypeOK
  <2>2. QED
    BY ONLY <1>1, <2>1
<1>3. /\ pc'[w] = "idle" /\ InHand(w)' = {}
      /\ \A v \in Workers : v # w => /\ pc'[v] = pc[v] /\ InHand(v)' = InHand(v)
                                     /\ \A e \in Ids : Running(v, e)' <=> Running(v, e)
      /\ pc' \in [Workers -> Steps] /\ batch' \in [Workers -> SUBSET Ids]
      /\ seen' \in [Workers -> [Ids -> 0..MaxAttempts]]
      /\ stalled' \in [Workers -> SUBSET Partitions] /\ deferred' \in [Workers -> SUBSET Ids]
  BY <1>1, Emptied DEF IInv
<1>4. TypeOK'
  BY <1>1, <1>2, <1>3 DEF IInv, TypeOK
<1>5. HandsInv'
  BY <1>1, HandsKept
<1>6. CountsInv'
  <2>1. \A v \in Workers : \A e \in InHand(v)' : v # w /\ e \in InHand(v) /\ e \in Ids
    BY <1>3, Numbers DEF IInv
  <2>2. QED
    BY <1>1, <1>3, <2>1 DEF IInv, CountsInv, Leased
<1>7. ExactInv'
  BY <1>2 DEF ExactInv
<1>8. QED
  BY <1>4, <1>5, <1>6, <1>7 DEF IInv

LEMMA EndBatchIInv ==
  ASSUME IInv, NEW w \in Workers, EndBatch(w)
  PROVE  IInv'
<1> USE Numbers DEF IInv
<1>1. /\ Forget(w) /\ pc[w] = "looping" /\ batch[w] = {}
      /\ attempts' = [e \in Ids |-> IF e \in deferred[w] THEN attempts[e] - 1 ELSE attempts[e]]
      /\ held' = [e \in Ids |-> held[e] /\ e \notin deferred[w]]
      /\ UNCHANGED <<status, part, before, begun, alarmed, crashes>>
  BY DEF EndBatch, history
<1>2. /\ pc'[w] = "idle" /\ InHand(w)' = {}
      /\ \A v \in Workers : v # w => /\ pc'[v] = pc[v] /\ InHand(v)' = InHand(v)
                                     /\ \A e \in Ids : Running(v, e)' <=> Running(v, e)
      /\ pc' \in [Workers -> Steps] /\ batch' \in [Workers -> SUBSET Ids]
      /\ seen' \in [Workers -> [Ids -> 0..MaxAttempts]]
      /\ stalled' \in [Workers -> SUBSET Partitions] /\ deferred' \in [Workers -> SUBSET Ids]
  BY <1>1, Emptied
<1>3. InHand(w) = deferred[w] /\ Leased(w) /\ \A e \in Ids : ~Running(w, e)
  BY <1>1 DEF InHand, Leased, Running
<1>4. \A e \in deferred[w] : e \in Ids /\ begun[e] < attempts[e] /\ attempts'[e] = attempts[e] - 1 /\ e \notin alarmed
  BY <1>1, <1>3 DEF CountsInv
<1>5. \A e \in Ids \ deferred[w] : attempts'[e] = attempts[e] /\ (held'[e] <=> held[e])
  BY <1>1
<1>6. \A v \in Workers : v # w => \A e \in InHand(v) : e \in Ids \ deferred[w]
  BY <1>3 DEF HandsInv
<1>7. TypeOK'
  <2>1. ASSUME NEW e \in Ids PROVE attempts'[e] \in 0..MaxAttempts
    <3>1. CASE e \in deferred[w]
      BY <1>4, <3>1
    <3>2. CASE e \notin deferred[w]
      BY <1>5, <3>2
    <3>3. QED
      BY <3>1, <3>2
  <2>2. attempts' \in [Ids -> 0..MaxAttempts] /\ held' \in [Ids -> BOOLEAN]
    BY <1>1, <2>1
  <2>3. QED
    BY <1>1, <1>2, <2>2 DEF TypeOK
<1>8. HandsInv'
  BY <1>1, <1>5, <1>6, HandsKept
<1>9. \A v \in Workers : \A e \in InHand(v)' : v # w /\ e \in InHand(v) /\ e \in Ids \ deferred[w]
  BY <1>2, <1>6
<1>10. CountsInv'
  <2>1. ASSUME NEW e \in Ids PROVE begun'[e] <= attempts'[e]
    <3>1. CASE e \in deferred[w]
      <4>1. begun[e] < attempts[e] /\ attempts'[e] = attempts[e] - 1 /\ begun'[e] = begun[e]
        BY <1>1, <1>4, <3>1
      <4>2. begun[e] \in Nat /\ attempts[e] \in Nat
        OBVIOUS
      <4>3. QED
        BY ONLY <4>1, <4>2
    <3>2. CASE e \notin deferred[w]
      BY <1>1, <1>5, <3>2 DEF CountsInv
    <3>3. QED
      BY <3>1, <3>2
  <2>2. \A v \in Workers : \A e \in InHand(v)' : Leased(v)' /\ ~Running(v, e)' => begun'[e] < attempts'[e]
    BY <1>1, <1>2, <1>5, <1>9 DEF CountsInv, Leased
  <2>3. \A e \in alarmed' : attempts'[e] >= MaxAttempts /\ \A v \in Workers : e \notin InHand(v)'
    BY <1>1, <1>4, <1>5, <1>9 DEF CountsInv
  <2>4. QED
    BY <2>1, <2>2, <2>3 DEF CountsInv
<1>11. ExactInv'
  <2>1. SUFFICES ASSUME crashes = 0 PROVE
          /\ \A v \in Workers : \A d \in InHand(v)' :
               Leased(v)' => attempts'[d] = IF Running(v, d)' THEN begun'[d] ELSE begun'[d] + 1
          /\ \A d \in Ids \ alarmed' :
               (\A v \in Workers : Leased(v)' => d \notin InHand(v)') => attempts'[d] = begun'[d]
    BY <1>1 DEF ExactInv
  <2>2. ASSUME NEW v \in Workers, NEW d \in InHand(v)', Leased(v)'
        PROVE  attempts'[d] = IF Running(v, d)' THEN begun'[d] ELSE begun'[d] + 1
    BY <1>1, <1>2, <1>5, <1>9, <2>1, <2>2 DEF ExactInv, Leased
  <2>3. ASSUME NEW d \in Ids \ alarmed', \A v \in Workers : Leased(v)' => d \notin InHand(v)'
        PROVE  attempts'[d] = begun'[d]
    <3>1. CASE d \in deferred[w]
      <4>1. attempts[d] = begun[d] + 1
        BY <1>3, <2>1, <3>1 DEF ExactInv
      <4>2. QED
        BY <1>1, <1>4, <3>1, <4>1
    <3>2. CASE d \notin deferred[w]
      <4>1. \A v \in Workers : Leased(v) => d \notin InHand(v)
        BY <1>2, <1>3, <2>3, <3>2 DEF Leased
      <4>2. attempts[d] = begun[d]
        BY <1>1, <2>1, <2>3, <4>1 DEF ExactInv
      <4>3. QED
        BY <1>1, <1>5, <3>2, <4>2
    <3>3. QED
      BY <3>1, <3>2
  <2>4. QED
    BY <2>2, <2>3
<1>12. QED
  BY <1>7, <1>8, <1>10, <1>11

\* Leases outlast batches: only rows nobody works on become free.
LEMMA ExpireIInv ==
  ASSUME IInv, ~SlowBatch, NEW e \in Ids, Expire(e)
  PROVE  IInv'
<1>1. /\ held[e] /\ \A w \in Workers : e \notin InHand(w)
      /\ held' = [held EXCEPT ![e] = FALSE]
      /\ UNCHANGED <<status, part, attempts, workerVars, crashes, history>>
  BY DEF Expire
<1>2. TypeOK'
  BY <1>1 DEF IInv, TypeOK, workerVars, history
<1>3. \A w \in Workers : InHand(w)' = InHand(w) /\ \A d \in InHand(w) : held'[d] = held[d]
  BY <1>1, Numbers DEF IInv, InHand, workerVars
<1>4. HandsInv'
  <2>1. UNCHANGED <<pc, batch, deferred, seen, attempts>>
    BY <1>1 DEF workerVars
  <2>2. /\ \A w \in Workers : pc'[w] = "idle" => batch'[w] = {} /\ deferred'[w] = {}
        /\ \A w \in Workers : pc'[w] = "claiming" => deferred'[w] = {}
        /\ \A w \in Workers : batch'[w] \intersect deferred'[w] = {}
        /\ \A u, v \in Workers : u # v => InHand(u)' \intersect InHand(v)' = {}
    BY <1>3, <2>1 DEF IInv, HandsInv
  <2>3. ASSUME NEW w \in Workers, pc'[w] = "claiming", NEW d \in batch'[w]
        PROVE  ~held'[d] /\ attempts'[d] < MaxAttempts
    <3>1. pc[w] = "claiming" /\ d \in batch[w] /\ d \in InHand(w)
      BY <2>1, <2>3 DEF InHand
    <3>2. ~held[d] /\ attempts[d] < MaxAttempts
      BY <3>1 DEF IInv, HandsInv
    <3>3. QED
      BY <1>3, <2>1, <3>1, <3>2
  <2>4. ASSUME NEW w \in Workers, Leased(w)', NEW d \in InHand(w)'
        PROVE  held'[d] /\ attempts'[d] = seen'[w][d]
    <3>1. Leased(w) /\ d \in InHand(w)
      BY <1>3, <2>1, <2>4 DEF Leased
    <3>2. held[d] /\ attempts[d] = seen[w][d]
      BY <3>1 DEF IInv, HandsInv
    <3>3. QED
      BY <1>3, <2>1, <3>1, <3>2
  <2>5. QED
    BY <2>2, <2>3, <2>4 DEF HandsInv
<1>5. (CountsInv /\ ExactInv)'
  BY <1>1, <1>3 DEF IInv, CountsInv, ExactInv, Leased, Running, Current, workerVars, history
<1>6. QED
  BY <1>2, <1>4, <1>5 DEF IInv

LEMMA NextIInv ==
  ASSUME ~SlowBatch, IInv, [Next]_vars
  PROVE  IInv'
<1>1. CASE UNCHANGED vars
  <2>1. UNCHANGED <<attempts, held, workerVars, crashes, begun, alarmed>>
    BY <1>1 DEF vars, rowVars, history
  <2>2. TypeOK'
    BY <1>1 DEF IInv, TypeOK, vars, rowVars, workerVars, history
  <2>3. QED
    BY <2>1, <2>2, Stutters DEF IInv
<1>2. ASSUME NEW e \in Ids, Insert(e) \/ EndInsert(e) PROVE IInv'
  BY <1>2, InsertIInv
<1>3. ASSUME NEW e \in Ids, Expire(e) PROVE IInv'
  BY <1>3, ExpireIInv
<1>4. ASSUME NEW w \in Workers, Crash(w) PROVE IInv'
  BY <1>4, CrashIInv
<1>5. ASSUME NEW w \in Workers, Work(w) PROVE IInv'
  <2>1. ASSUME NEW e \in Ids, Outcome(w, e) PROVE IInv'
    BY <2>1, ProcessedIInv, FailIInv DEF Outcome
  <2>2. ASSUME NEW e \in Ids, Defer(w, e) \/ Dispatch(w, e) PROVE IInv'
    BY <2>2, DeferIInv, DispatchIInv
  <2>3. QED
    BY <1>5, <2>1, <2>2, ClaimLockIInv, ClaimCommitIInv, EndBatchIInv DEF Work
<1>6. QED
  BY <1>1, <1>2, <1>3, <1>4, <1>5 DEF Next

(***************************************************************************)
(* The theorems.                                                           *)
(***************************************************************************)

LEMMA AlwaysIInv ==
  ASSUME ~SlowBatch
  PROVE  Spec => []IInv
<1>1. IInv /\ [Next]_vars => IInv'
  BY NextIInv
<1>2. QED
  BY InitIInv, <1>1, PTL DEF Spec

\* No row is ever in the hands of two workers (the claim's SKIP LOCKED and its lease).
THEOREM OneRunnerAtATime ==
  ASSUME ~SlowBatch
  PROVE  Spec => []OneRunner
<1>1. IInv => OneRunner
  BY DEF IInv, HandsInv, OneRunner
<1>2. QED
  BY AlwaysIInv, <1>1, PTL

\* No event is dispatched more than MAX_ATTEMPTS times, whoever dies.
THEOREM BudgetKept ==
  ASSUME ~SlowBatch
  PROVE  Spec => []AttemptBudget
<1>1. IInv => AttemptBudget
  <2>1. SUFFICES ASSUME IInv, NEW e \in Ids PROVE begun[e] <= MaxAttempts
    BY DEF AttemptBudget
  <2>2. begun[e] <= attempts[e] /\ attempts[e] <= MaxAttempts /\ begun[e] \in Nat /\ attempts[e] \in Nat /\ MaxAttempts \in Nat
    BY <2>1, Numbers DEF IInv, CountsInv
  <2>3. QED
    BY ONLY <2>2
<1>2. QED
  BY AlwaysIInv, <1>1, PTL

\* While no worker has died, `attempts' is the number of dispatches (releaseUnrun gives back
\* what was held behind a failure).
THEOREM AttemptsAreRuns ==
  ASSUME ~SlowBatch
  PROVE  Spec => [](crashes = 0 => AttemptsCountRuns)
<1>1. IInv => (crashes = 0 => AttemptsCountRuns)
  <2>1. SUFFICES ASSUME IInv, crashes = 0, NEW e \in Ids, ~InFlight(e), e \notin alarmed PROVE attempts[e] = begun[e]
    BY DEF AttemptsCountRuns
  <2>2. \A w \in Workers : Leased(w) => e \notin InHand(w)
    BY <2>1 DEF InFlight, Leased
  <2>3. QED
    BY <2>1, <2>2 DEF IInv, ExactInv
<1>2. QED
  BY AlwaysIInv, <1>1, PTL

\* An event reported as parked (worker.outbox.parked) is over: no worker runs it again or
\* changes its count, whatever else is claimed, held back or dies.
THEOREM ParkedIsFinal ==
  ASSUME ~SlowBatch
  PROVE  Spec => ParkedNeverRuns
<1>1. ASSUME IInv, [Next]_vars
      PROVE  [\A e \in alarmed : begun'[e] = begun[e] /\ attempts'[e] = attempts[e]]_vars
  <2>1. SUFFICES ASSUME Next, NEW e \in alarmed
                 PROVE  begun'[e] = begun[e] /\ attempts'[e] = attempts[e]
    BY <1>1
  <2>2. e \in Ids /\ \A w \in Workers : e \notin batch[w] /\ e \notin deferred[w]
    BY <1>1, <2>1 DEF IInv, TypeOK, CountsInv, InHand
  <2>3. attempts \in [Ids -> 0..MaxAttempts] /\ begun \in [Ids -> Nat]
    BY <1>1 DEF IInv, TypeOK
  <2>4. CASE \E d \in Ids : Insert(d) \/ EndInsert(d) \/ Expire(d)
    BY <2>4 DEF Insert, EndInsert, Expire, history
  <2>5. ASSUME NEW w \in Workers, Crash(w)
        PROVE  begun'[e] = begun[e] /\ attempts'[e] = attempts[e]
    BY <2>5 DEF Crash, rowVars, history
  <2>6. ASSUME NEW w \in Workers, ClaimLock(w) \/ ClaimCommit(w) \/ EndBatch(w)
        PROVE  begun'[e] = begun[e] /\ attempts'[e] = attempts[e]
    BY <2>2, <2>6 DEF ClaimLock, ClaimCommit, EndBatch, rowVars, history
  <2>7. ASSUME NEW w \in Workers, NEW d \in Ids, Defer(w, d) \/ Dispatch(w, d) \/ Outcome(w, d)
        PROVE  begun'[e] = begun[e] /\ attempts'[e] = attempts[e]
    <3>1. d # e
      BY <2>2, <2>7 DEF Defer, Dispatch, Outcome, Processed, Failed, FailedPermanently, Fail, Settle, Current
    <3>2. CASE Defer(w, d)
      BY <3>2 DEF Defer, rowVars, history
    <3>3. CASE Dispatch(w, d)
      BY <2>3, <3>1, <3>3 DEF Dispatch, rowVars
    <3>4. CASE Processed(w, d)
      BY <3>4 DEF Processed, Settle
    <3>5. ASSUME NEW n, NEW delayed, Fail(w, d, n, delayed)
          PROVE  begun'[e] = begun[e] /\ attempts'[e] = attempts[e]
      BY <2>2, <2>3, <3>1, <3>5 DEF Fail, Settle
    <3>6. QED
      BY <2>7, <3>2, <3>3, <3>4, <3>5 DEF Outcome, Failed, FailedPermanently
  <2>8. QED
    BY <2>1, <2>4, <2>5, <2>6, <2>7 DEF Next, Work
<1>2. QED
  BY AlwaysIInv, <1>1, PTL DEF Spec, ParkedNeverRuns

\* Every variable keeps its type; `attempts' never passes MAX_ATTEMPTS.
THEOREM TypeCorrect ==
  ASSUME ~SlowBatch
  PROVE  Spec => []TypeOK
<1>1. IInv => TypeOK
  BY DEF IInv
<1>2. QED
  BY AlwaysIInv, <1>1, PTL

(***************************************************************************)
(* Order needs no lease: it holds when one worker drains the queue, however *)
(* slow its batches, and is what a second worker would break.  A claim      *)
(* takes with a row whatever of its partition is due before it, and the     *)
(* batch either gets through those or stops the partition.                  *)
(***************************************************************************)

RowTypes ==
  /\ status \in [Ids -> {"absent", "inserted", "pending", "processed", "rolled back"}]
  /\ part \in [Ids -> Partitions] /\ before \in [Ids -> SUBSET Ids]
  /\ attempts \in [Ids -> Int] /\ held \in [Ids -> BOOLEAN]

HandTypes ==
  /\ pc \in [Workers -> Steps]
  /\ batch \in [Workers -> SUBSET Ids] /\ deferred \in [Workers -> SUBSET Ids]
  /\ stalled \in [Workers -> SUBSET Partitions] /\ seen \in [Workers -> [Ids -> Int]]
  /\ \A w \in Workers : pc[w] = "idle" => InHand(w) = {}
  /\ \A w \in Workers : batch[w] \intersect deferred[w] = {}
  /\ \A w \in Workers : \A e \in InHand(w) : status[e] = "pending"

\* What was there before stays there.
BeforeInv ==
  \A e \in Ids : \A d \in before[e] : d < e /\ part[d] = part[e] /\ status[d] \in {"pending", "processed"}

\* What was there before a row of the batch is over, or goes first, or has stopped them both.
Over(w, d) == status[d] = "processed" \/ (status[d] = "pending" /\ attempts[d] >= MaxAttempts /\ d \notin InHand(w))
BatchInv ==
  \A w \in Workers : \A e \in batch[w] : \A d \in before[e] :
    Over(w, d) \/ d \in batch[w] \/ part[e] \in stalled[w]

RunInv == \A w \in Workers, e \in Ids : Running(w, e) => part[e] \notin stalled[w]

OrderInv == RowTypes /\ HandTypes /\ BeforeInv /\ BatchInv /\ RunInv

LEMMA InitOrder == Init => OrderInv
  BY OutboxAssumption DEF Init, OrderInv, RowTypes, HandTypes, BeforeInv, BatchInv, RunInv, Running, InHand, Ids, Steps

\* The lowest rows of a set are closed downwards.
LEMMA LowestClosed ==
  ASSUME NEW S \in SUBSET Ids, NEW n \in Nat, NEW e \in Lowest(S, n), NEW d \in S, d < e
  PROVE  d \in Lowest(S, n)
<1> DEFINE A == {c \in S : c < d}
           B == {c \in S : c < e}
<1>1. A \subseteq B /\ B \subseteq Ids /\ Cardinality(B) < n
  <2>1. Cardinality(B) < n
    BY DEF Lowest
  <2>2. d \in Int /\ e \in Int /\ \A c \in S : c \in Int
    BY OutboxAssumption DEF Ids, Lowest
  <2>3. ASSUME NEW c \in A PROVE c \in B
    <3>1. c \in S /\ c < d
      OBVIOUS
    <3> HIDE DEF A
    <3>2. QED
      BY <2>2, <3>1
  <2>4. QED
    BY <2>1, <2>3
<1>2. IsFiniteSet(Ids)
  BY OutboxAssumption, FS_Interval DEF Ids
<1> HIDE DEF A, B
<1>3. IsFiniteSet(B) /\ Cardinality(A) <= Cardinality(B) /\ Cardinality(A) \in Nat /\ Cardinality(B) \in Nat
  BY <1>1, <1>2, FS_Subset, FS_CardinalityType
<1>4. Cardinality(A) < n
  BY <1>1, <1>3
<1>5. QED
  BY <1>4 DEF A, Lowest

\* Rows leave the batch processed, or with their partition stopped.
LEMMA BatchShrinks ==
  ASSUME OrderInv, NEW w, Workers = {w},
         batch'[w] \subseteq batch[w], InHand(w)' \subseteq InHand(w), UNCHANGED <<before, part>>,
         \A d \in Ids : status'[d] = status[d] \/ status'[d] = "processed",
         \A d \in Ids \ InHand(w) : attempts'[d] = attempts[d],
         stalled[w] \subseteq stalled'[w],
         \A d \in batch[w] \ batch'[w] : status'[d] = "processed" \/ part[d] \in stalled'[w]
  PROVE  BeforeInv' /\ BatchInv'
<1>1. BeforeInv'
  BY DEF OrderInv, RowTypes, BeforeInv
<1>2. ASSUME NEW e \in batch'[w], NEW d \in before[e]
      PROVE  Over(w, d)' \/ d \in batch'[w] \/ part[e] \in stalled'[w]
  <2>1. e \in batch[w] /\ e \in Ids /\ d \in Ids /\ part[d] = part[e]
    BY <1>2 DEF OrderInv, RowTypes, HandTypes, BeforeInv
  <2>2. CASE Over(w, d)
    BY <2>1, <2>2 DEF Over
  <2>3. CASE d \in batch[w]
    BY <2>1, <2>3 DEF Over
  <2>4. CASE part[e] \in stalled[w]
    BY <2>4
  <2>5. QED
    BY <2>1, <2>2, <2>3, <2>4 DEF OrderInv, BatchInv
<1>3. QED
  BY <1>1, <1>2 DEF BatchInv

LEMMA InsertOrder ==
  ASSUME OrderInv, NEW w, Workers = {w}, NEW e \in Ids, Insert(e) \/ EndInsert(e)
  PROVE  OrderInv'
<1> USE DEF OrderInv
<1>1. UNCHANGED <<part, attempts, held, pc, batch, seen, stalled, deferred>>
  BY DEF Insert, EndInsert, workerVars
<1>2. status' = [status EXCEPT ![e] = status'[e]] /\ status[e] \in {"absent", "inserted"}
      /\ status'[e] \in {"inserted", "pending", "rolled back"}
  BY DEF Insert, EndInsert, RowTypes
<1>3. \A d \in Ids : status[d] \in {"pending", "processed"} => d # e /\ status'[d] = status[d]
  BY <1>2 DEF RowTypes
<1>4. InHand(w)' = InHand(w) /\ InHand(w) \subseteq Ids /\ e \notin InHand(w)
  BY <1>1, <1>2 DEF InHand, HandTypes
<1>5. \A b \in Ids : b # e => before'[b] = before[b]
  BY DEF Insert, EndInsert, RowTypes, history
<1>6. before' \in [Ids -> SUBSET Ids] /\ BeforeInv'
  <2>1. CASE Insert(e)
    <3> DEFINE B == {d \in 1..(e - 1) : part[d] = part[e] /\ status[d] \in {"pending", "processed"}}
    <3>1. before' = [before EXCEPT ![e] = B]
      BY <2>1 DEF Insert
    <3>2. \A d \in B : d \in Ids /\ d < e /\ part[d] = part[e] /\ status[d] \in {"pending", "processed"}
      BY OutboxAssumption DEF Ids
    <3> HIDE DEF B
    <3>3. before' \in [Ids -> SUBSET Ids] /\ before'[e] = B
      BY <3>1, <3>2 DEF RowTypes
    <3>4. ASSUME NEW b \in Ids, NEW d \in before'[b]
          PROVE  d < b /\ part'[d] = part'[b] /\ status'[d] \in {"pending", "processed"}
      <4>1. CASE b = e
        BY <1>1, <1>3, <3>2, <3>3, <3>4, <4>1
      <4>2. CASE b # e
        BY <1>1, <1>3, <1>5, <3>3, <3>4, <4>2 DEF BeforeInv
      <4>3. QED
        BY <4>1, <4>2
    <3>5. QED
      BY <3>3, <3>4 DEF BeforeInv
  <2>2. CASE EndInsert(e)
    <3>1. before' = before
      BY <2>2 DEF EndInsert, history
    <3>2. QED
      BY <1>1, <1>3, <3>1 DEF RowTypes, BeforeInv
  <2>3. QED
    BY <2>1, <2>2
<1>7. RowTypes' /\ HandTypes'
  <2>1. RowTypes'
    BY <1>1, <1>2, <1>6 DEF RowTypes
  <2>2. \A d \in InHand(w)' : status'[d] = "pending"
    BY <1>3, <1>4 DEF HandTypes
  <2>3. QED
    BY <1>1, <1>4, <2>1, <2>2 DEF HandTypes
<1>8. BatchInv'
  <2>1. ASSUME NEW b \in batch[w], NEW d \in before'[b]
        PROVE  Over(w, d)' \/ d \in batch[w] \/ part[b] \in stalled[w]
    <3>1. b \in Ids /\ b # e /\ d \in before[b] /\ d \in Ids
      BY <1>4, <1>5, <2>1 DEF InHand, RowTypes
    <3>2. Over(w, d) => Over(w, d)'
      BY <1>1, <1>3, <1>4, <3>1 DEF Over
    <3>3. QED
      BY <3>1, <3>2 DEF BatchInv
  <2>2. QED
    BY <1>1, <2>1 DEF BatchInv
<1>9. RunInv'
  BY <1>1 DEF RunInv, Running, Current
<1>10. QED
  BY <1>6, <1>7, <1>8, <1>9

\* The claim takes what is due before the rows it takes.
LEMMA ClaimOrder ==
  ASSUME OrderInv, NEW w, Workers = {w}, ClaimLock(w)
  PROVE  OrderInv'
<1> USE DEF OrderInv
<1> DEFINE rows == {e \in Ids : Claimable(e) /\ ~Locked(e)}
<1>1. pc[w] = "idle" /\ pc'[w] = "claiming" /\ batch'[w] = Lowest(rows, BatchSize)
      /\ UNCHANGED <<status, part, attempts, held, seen, stalled, deferred, before>>
  BY DEF ClaimLock, Goto, HandTypes, rowVars, history
<1>2. InHand(w) = {} /\ deferred[w] = {}
  BY <1>1 DEF HandTypes, InHand
<1>3. rows = {e \in Ids : Claimable(e)}
  BY <1>1 DEF Locked
<1>4. batch'[w] \subseteq rows /\ InHand(w)' = batch'[w]
  BY <1>1, <1>2 DEF Lowest, InHand
<1>5. RowTypes' /\ BeforeInv'
  BY <1>1 DEF RowTypes, BeforeInv
<1>6. HandTypes'
  <2>1. \A e \in rows : e \in Ids /\ status'[e] = "pending"
    BY <1>1 DEF Claimable
  <2>2. pc' \in [Workers -> Steps] /\ batch' \in [Workers -> SUBSET Ids]
    BY <1>4 DEF ClaimLock, Goto, HandTypes, Steps
  <2> HIDE DEF rows
  <2>3. QED
    BY <1>1, <1>2, <1>4, <2>1, <2>2 DEF HandTypes
<1>7. ASSUME NEW e \in batch'[w], NEW d \in before[e]
      PROVE  Over(w, d)' \/ d \in batch'[w]
  <2>1. e \in Ids /\ Claimable(e)
    BY <1>3, <1>4, <1>7
  <2>2. d \in Ids /\ d < e /\ part[d] = part[e] /\ status[d] \in {"pending", "processed"} /\ d \in 1..(e - 1)
    <3>1. d \in Ids /\ d < e /\ part[d] = part[e] /\ status[d] \in {"pending", "processed"}
      BY <1>7, <2>1 DEF BeforeInv, RowTypes
    <3>2. d \in 1..MaxId /\ e \in 1..MaxId /\ MaxId \in Nat
      BY <2>1, <3>1, OutboxAssumption DEF Ids
    <3>3. d \in 1..(e - 1)
      BY <3>1, <3>2
    <3>4. QED
      BY <3>1, <3>3
  <2>3. CASE status[d] = "processed"
    BY <1>1, <2>3 DEF Over
  <2>4. CASE status[d] = "pending" /\ attempts[d] >= MaxAttempts
    <3>1. MaxAttempts \in Nat /\ attempts[d] \in Int
      BY OutboxAssumption, <2>2 DEF RowTypes
    <3>2. d \notin rows
      BY <1>3, <2>4, <3>1 DEF Claimable
    <3>3. QED
      BY <1>1, <1>4, <2>4, <3>2 DEF Over
  <2>5. CASE status[d] = "pending" /\ ~(attempts[d] >= MaxAttempts)
    <3>1. MaxAttempts \in Nat /\ attempts[d] < MaxAttempts
      <4>1. MaxAttempts \in Nat /\ attempts[d] \in Int
        BY OutboxAssumption, <2>2 DEF RowTypes
      <4>2. QED
        BY <2>5, <4>1
    <3>2. ~held[d]
      BY <2>1, <2>2, <2>5, <3>1 DEF Claimable
    <3>3. ASSUME NEW c \in 1..(d - 1), part[c] = part[d], status[c] = "pending", attempts[c] < MaxAttempts, held[c]
          PROVE  FALSE
      <4>1. c \in 1..(e - 1)
        BY <2>1, <2>2, <3>3, OutboxAssumption DEF Ids
      <4>2. QED
        BY <2>1, <2>2, <3>3, <4>1 DEF Claimable
    <3>4. d \in rows
      BY <1>3, <2>2, <2>5, <3>1, <3>2, <3>3 DEF Claimable
    <3>5. rows \in SUBSET Ids /\ BatchSize \in Nat /\ e \in Lowest(rows, BatchSize)
      BY <1>1, <1>7, OutboxAssumption
    <3> HIDE DEF rows
    <3>6. QED
      BY <1>1, <2>2, <3>4, <3>5, LowestClosed
  <2>6. QED
    BY <2>2, <2>3, <2>4, <2>5
<1>8. BatchInv' /\ RunInv'
  BY <1>1, <1>7 DEF BatchInv, RunInv, Running
<1>9. QED
  BY <1>5, <1>6, <1>8

\* The claim's stamp, a row held back, a row begun: the batch and what it waits for stand.
LEMMA CommitOrder ==
  ASSUME OrderInv, NEW w, Workers = {w}, ClaimCommit(w)
  PROVE  OrderInv'
<1> USE DEF OrderInv
<1>1. pc[w] = "claiming" /\ pc'[w] = "looping" /\ UNCHANGED <<status, part, before, batch, stalled, deferred>>
  BY DEF ClaimCommit, Goto, HandTypes, history
<1>2. /\ attempts' \in [Ids -> Int] /\ held' \in [Ids -> BOOLEAN] /\ seen' \in [Workers -> [Ids -> Int]]
      /\ \A d \in Ids \ batch[w] : attempts'[d] = attempts[d]
  <2>1. attempts' = [e \in Ids |-> IF e \in batch[w] THEN attempts[e] + 1 ELSE attempts[e]]
    BY DEF ClaimCommit
  <2>2. \A e \in Ids : attempts[e] \in Int
    BY DEF RowTypes
  <2>3. attempts' \in [Ids -> Int] /\ \A d \in Ids \ batch[w] : attempts'[d] = attempts[d]
    BY <2>1, <2>2
  <2>4. held' \in [Ids -> BOOLEAN]
    BY DEF ClaimCommit, RowTypes
  <2>5. seen' \in [Workers -> [Ids -> Int]]
    BY <2>3 DEF ClaimCommit, HandTypes
  <2>6. QED
    BY <2>3, <2>4, <2>5
<1>3. InHand(w)' = InHand(w) /\ batch[w] \subseteq InHand(w)
  BY <1>1 DEF InHand
<1>4. RowTypes'
  BY <1>1, <1>2 DEF RowTypes
<1>5. HandTypes'
  <2>1. pc' \in [Workers -> Steps]
    BY DEF ClaimCommit, Goto, HandTypes, Steps
  <2>2. QED
    BY <1>1, <1>2, <1>3, <2>1 DEF HandTypes
<1>6. BeforeInv' /\ BatchInv'
  BY <1>1, <1>2, <1>3, BatchShrinks
<1>7. RunInv'
  BY <1>1 DEF RunInv, Running
<1>8. QED
  BY <1>4, <1>5, <1>6, <1>7

LEMMA DeferOrder ==
  ASSUME OrderInv, NEW w, Workers = {w}, NEW e \in Ids, Defer(w, e)
  PROVE  OrderInv'
<1> USE DEF OrderInv
<1>1. /\ pc[w] = "looping" /\ e \in batch[w] /\ part[e] \in stalled[w]
      /\ batch'[w] = batch[w] \ {e} /\ deferred'[w] = deferred[w] \union {e}
      /\ UNCHANGED <<status, part, attempts, held, pc, seen, stalled, before>>
  BY DEF Defer, Current, HandTypes, rowVars, history
<1>2. InHand(w)' = InHand(w)
  BY <1>1 DEF InHand
<1>3. RowTypes' /\ RunInv'
  BY <1>1 DEF RowTypes, RunInv, Running
<1>4. HandTypes'
  <2>1. batch' \in [Workers -> SUBSET Ids] /\ deferred' \in [Workers -> SUBSET Ids]
    BY DEF Defer, HandTypes
  <2>2. QED
    BY <1>1, <1>2, <2>1 DEF HandTypes
<1>5. BeforeInv' /\ BatchInv'
  BY <1>1, <1>2, BatchShrinks
<1>6. QED
  BY <1>3, <1>4, <1>5

LEMMA DispatchOrder ==
  ASSUME OrderInv, NEW w, Workers = {w}, NEW e \in Ids, Dispatch(w, e)
  PROVE  OrderInv'
<1> USE DEF OrderInv
<1>1. /\ pc[w] = "looping" /\ pc'[w] = "running" /\ Current(w, e) /\ part[e] \notin stalled[w]
      /\ UNCHANGED <<status, part, attempts, held, batch, seen, stalled, deferred, before>>
  BY DEF Dispatch, Goto, HandTypes, rowVars
<1>2. InHand(w)' = InHand(w)
  BY <1>1 DEF InHand
<1>3. RowTypes'
  BY <1>1 DEF RowTypes
<1>4. HandTypes'
  <2>1. pc' \in [Workers -> Steps]
    BY DEF Dispatch, Goto, HandTypes, Steps
  <2>2. QED
    BY <1>1, <1>2, <2>1 DEF HandTypes
<1>5. BeforeInv' /\ BatchInv'
  BY <1>1, <1>2, BatchShrinks
<1>6. RunInv'
  <2>1. ASSUME NEW d \in Ids, Current(w, d) PROVE d = e
    BY <1>1, <2>1, OutboxAssumption DEF Current, Ids
  <2>2. QED
    BY <1>1, <2>1 DEF RunInv, Running, Current
<1>7. QED
  BY <1>3, <1>4, <1>5, <1>6

\* A row that fails stops its partition, one that succeeds is over.
LEMMA OutcomeOrder ==
  ASSUME OrderInv, NEW w, Workers = {w}, NEW e \in Ids, Outcome(w, e)
  PROVE  OrderInv'
<1> USE DEF OrderInv
<1>1. /\ Settle(w, e) /\ pc'[w] = "looping" /\ e \in batch[w] /\ batch'[w] = batch[w] \ {e}
      /\ UNCHANGED <<part, seen, deferred, before>>
  BY DEF Outcome, Processed, Failed, FailedPermanently, Fail, Settle, Current, Goto, HandTypes
<1>2. /\ status' \in {status, [status EXCEPT ![e] = "processed"]}
      /\ stalled[w] \subseteq stalled'[w] /\ (status'[e] = "processed" \/ part[e] \in stalled'[w])
      /\ stalled' \in [Workers -> SUBSET Partitions]
  <2>1. part[e] \in Partitions
    BY DEF RowTypes
  <2>2. CASE Processed(w, e)
    BY <2>2 DEF Processed, RowTypes, HandTypes
  <2>3. ASSUME NEW n, NEW b, Fail(w, e, n, b)
        PROVE  status' = status /\ stalled[w] \subseteq stalled'[w] /\ part[e] \in stalled'[w]
               /\ stalled' \in [Workers -> SUBSET Partitions]
    BY <2>1, <2>3 DEF Fail, HandTypes
  <2>4. QED
    BY <2>2, <2>3 DEF Outcome, Failed, FailedPermanently
<1>3. /\ attempts' \in [Ids -> Int] /\ held' \in [Ids -> BOOLEAN]
      /\ \A d \in Ids \ {e} : attempts'[d] = attempts[d]
  <2>1. CASE Processed(w, e)
    BY <2>1 DEF Processed, RowTypes
  <2>2. ASSUME NEW n \in Int, NEW b \in BOOLEAN, Fail(w, e, n, b)
        PROVE  /\ attempts' \in [Ids -> Int] /\ held' \in [Ids -> BOOLEAN]
               /\ \A d \in Ids \ {e} : attempts'[d] = attempts[d]
    BY <2>2 DEF Fail, RowTypes
  <2>3. seen[w][e] \in Int /\ MaxAttempts \in Int
    BY OutboxAssumption DEF HandTypes
  <2>4. QED
    BY <2>1, <2>2, <2>3 DEF Outcome, Failed, FailedPermanently
<1>4. InHand(w)' \subseteq InHand(w) /\ e \in InHand(w) /\ InHand(w) \subseteq Ids
  BY <1>1 DEF InHand, HandTypes
<1>5. RowTypes'
  BY <1>1, <1>2, <1>3 DEF RowTypes
<1>6. BeforeInv' /\ BatchInv'
  BY <1>1, <1>2, <1>3, <1>4, BatchShrinks DEF RowTypes
<1>7. RunInv'
  BY <1>1 DEF RunInv, Running
<1>8. HandTypes'
  <2>1. pc' \in [Workers -> Steps] /\ batch' \in [Workers -> SUBSET Ids]
    BY <1>1 DEF Settle, Goto, HandTypes, Steps
  <2>2. \A d \in InHand(w)' : d \in Ids /\ d # e /\ status[d] = "pending"
    BY <1>1, <1>4 DEF InHand, HandTypes
  <2>3. \A d \in InHand(w)' : status'[d] = "pending"
    BY <1>2, <2>2 DEF RowTypes
  <2>4. QED
    BY <1>1, <1>2, <2>1, <2>3 DEF HandTypes
<1>9. QED
  BY <1>5, <1>6, <1>7, <1>8

LEMMA ForgetOrder ==
  ASSUME OrderInv, NEW w, Workers = {w}, EndBatch(w) \/ Crash(w)
  PROVE  OrderInv'
<1> USE DEF OrderInv
<1>1. Forget(w) /\ UNCHANGED <<status, part, before>>
  BY DEF EndBatch, Crash, rowVars, history
<1>2. attempts' \in [Ids -> Int] /\ held' \in [Ids -> BOOLEAN]
  <2>1. CASE Crash(w)
    BY <2>1 DEF Crash, rowVars, RowTypes
  <2>2. CASE EndBatch(w)
    <3>1. \A e \in Ids : attempts[e] \in Int
      BY DEF RowTypes
    <3>2. attempts' = [e \in Ids |-> IF e \in deferred[w] THEN attempts[e] - 1 ELSE attempts[e]]
      BY <2>2 DEF EndBatch
    <3>3. attempts' \in [Ids -> Int]
      BY <3>1, <3>2
    <3>4. QED
      BY <2>2, <3>3 DEF EndBatch, RowTypes
  <2>3. QED
    BY <2>1, <2>2
<1>3. /\ pc' \in [Workers -> Steps] /\ pc'[w] = "idle"
      /\ batch' \in [Workers -> SUBSET Ids] /\ deferred' \in [Workers -> SUBSET Ids]
      /\ stalled' \in [Workers -> SUBSET Partitions] /\ seen' \in [Workers -> [Ids -> Int]]
      /\ batch'[w] = {} /\ deferred'[w] = {} /\ InHand(w)' = {}
  BY <1>1 DEF Forget, Goto, HandTypes, InHand, Steps
<1>4. RowTypes' /\ BeforeInv'
  BY <1>1, <1>2 DEF RowTypes, BeforeInv
<1>5. HandTypes' /\ BatchInv' /\ RunInv'
  BY <1>3 DEF HandTypes, BatchInv, RunInv, Running
<1>6. QED
  BY <1>4, <1>5

\* Whether a lease ends while its row is in hand is of no consequence.
LEMMA ExpireOrder ==
  ASSUME OrderInv, NEW e \in Ids, Expire(e) \/ UNCHANGED vars
  PROVE  OrderInv'
<1>1. UNCHANGED <<status, part, attempts, pc, batch, seen, stalled, deferred, before>> /\ held' \in [Ids -> BOOLEAN]
  BY DEF Expire, vars, rowVars, workerVars, history, OrderInv, RowTypes
<1>2. RowTypes' /\ BeforeInv' /\ RunInv'
  BY <1>1 DEF OrderInv, RowTypes, BeforeInv, RunInv, Running, Current
<1>3. HandTypes' /\ BatchInv'
  BY <1>1 DEF OrderInv, HandTypes, BatchInv, Over, InHand
<1>4. QED
  BY <1>2, <1>3 DEF OrderInv

LEMMA NextOrder ==
  ASSUME OrderInv, NEW w, Workers = {w}, [Next]_vars
  PROVE  OrderInv'
<1>1. CASE UNCHANGED vars
  <2>1. UNCHANGED <<status, part, attempts, held, pc, batch, seen, stalled, deferred, before>>
    BY <1>1 DEF vars, rowVars, workerVars, history
  <2>2. QED
    BY <2>1 DEF OrderInv, RowTypes, BeforeInv, RunInv, Running, Current, HandTypes, BatchInv, Over, InHand
<1>2. ASSUME NEW e \in Ids, Insert(e) \/ EndInsert(e) \/ Expire(e) PROVE OrderInv'
  BY <1>2, InsertOrder, ExpireOrder
<1>3. ASSUME Work(w) \/ Crash(w) PROVE OrderInv'
  BY <1>3, ClaimOrder, CommitOrder, DeferOrder, DispatchOrder, OutcomeOrder, ForgetOrder DEF Work
<1>4. QED
  BY <1>1, <1>2, <1>3 DEF Next

\* With one worker, as deployed, no handler runs while an event its partition already held
\* when this one was written is unresolved: whatever the number of events and partitions, the
\* size of the batch, the length of the leases and the deaths.
THEOREM OneWorkerKeepsOrder ==
  ASSUME NEW w, Workers = {w}
  PROVE  Spec => []InOrder
<1>1. OrderInv /\ [Next]_vars => OrderInv'
  BY NextOrder
<1>2. OrderInv => InOrder
  <2>1. SUFFICES ASSUME OrderInv, NEW e \in Ids, Running(w, e), NEW d \in before[e] PROVE Resolved(d)
    BY DEF InOrder, Running
  <2>2. e \in batch[w] /\ part[e] \notin stalled[w] /\ d \in Ids /\ d < e
    BY <2>1 DEF OrderInv, RowTypes, BeforeInv, RunInv, Running, Current
  <2>3. d \notin batch[w]
    BY <2>1, <2>2, OutboxAssumption DEF Running, Current, Ids
  <2>4. Over(w, d)
    BY <2>1, <2>2, <2>3 DEF OrderInv, BatchInv
  <2>5. QED
    BY <2>4 DEF Over, Resolved, Parked, InFlight
<1>3. QED
  BY InitOrder, <1>1, <1>2, PTL DEF Spec

(***************************************************************************)
(* Nor does the budget need a lease, if one worker drains the queue: what   *)
(* it saw when it claimed is what it adds to and takes from.  A row in its  *)
(* hands that has not begun has an attempt to spare, so that handing it     *)
(* back leaves as many attempts as it began, and a death only wastes some. *)
(***************************************************************************)

SpareInv ==
  /\ begun \in [Ids -> Int] /\ alarmed \subseteq Ids
  /\ \A e \in Ids : begun[e] <= attempts[e] /\ attempts[e] <= MaxAttempts
  /\ \A w \in Workers : pc[w] = "claiming" =>
       deferred[w] = {} /\ \A e \in batch[w] : attempts[e] < MaxAttempts
  /\ \A w \in Workers : Leased(w) =>
       \A e \in InHand(w) : /\ attempts[e] = seen[w][e]
                            /\ ~Running(w, e) => begun[e] < attempts[e]
  /\ \A e \in alarmed : attempts[e] >= MaxAttempts /\ \A w \in Workers : e \notin InHand(w)

LEMMA InitSpare == Init => SpareInv
  BY OutboxAssumption DEF Init, SpareInv, Leased, InHand

LEMMA WholeNumbers ==
  ASSUME RowTypes, begun \in [Ids -> Int]
  PROVE  MaxAttempts \in Int /\ \A e \in Ids : attempts[e] \in Int /\ begun[e] \in Int
<1>1. MaxAttempts \in Int
  BY OutboxAssumption
<1>2. attempts \in [Ids -> Int]
  BY DEF RowTypes
<1>3. \A e \in Ids : attempts[e] \in Int /\ begun[e] \in Int
  BY <1>2
<1>4. QED
  BY <1>1, <1>3

LEMMA ClaimSpare ==
  ASSUME OrderInv, SpareInv, NEW w, Workers = {w}, ClaimLock(w)
  PROVE  SpareInv'
<1> USE DEF OrderInv, SpareInv
<1>1. pc[w] = "idle" /\ pc'[w] = "claiming" /\ UNCHANGED <<attempts, seen, deferred, begun, alarmed>>
  BY DEF ClaimLock, Goto, HandTypes, rowVars, history
<1>2. \A e \in batch'[w] : e \in Ids /\ attempts[e] < MaxAttempts
  BY DEF ClaimLock, HandTypes, Lowest, Claimable
<1>3. deferred[w] = {} /\ InHand(w)' = batch'[w]
  BY <1>1 DEF HandTypes, InHand
<1>4. \A e \in alarmed : e \notin batch'[w]
  <2>1. \A e \in Ids : attempts[e] \in Int /\ MaxAttempts \in Int
    BY WholeNumbers
  <2>2. QED
    BY <1>2, <2>1
<1>5. QED
  BY <1>1, <1>2, <1>3, <1>4 DEF Leased

\* A row of the claim gets an attempt it has not begun.
LEMMA CommitSpare ==
  ASSUME OrderInv, SpareInv, NEW w, Workers = {w}, ClaimCommit(w)
  PROVE  SpareInv'
<1> USE DEF OrderInv, SpareInv
<1>1. pc[w] = "claiming" /\ pc'[w] = "looping" /\ UNCHANGED <<batch, deferred, begun, alarmed>>
  BY DEF ClaimCommit, Goto, HandTypes, history
<1>2. InHand(w) = batch[w] /\ InHand(w)' = batch[w] /\ batch[w] \subseteq Ids
  BY <1>1 DEF InHand, HandTypes
<1>3. \A e \in Ids : attempts'[e] = (IF e \in batch[w] THEN attempts[e] + 1 ELSE attempts[e])
  BY DEF ClaimCommit
<1>4. \A e \in batch[w] : seen'[w][e] = attempts'[e]
  BY <1>2 DEF ClaimCommit, HandTypes
<1>5. MaxAttempts \in Int /\ \A e \in Ids : attempts[e] \in Int /\ begun[e] \in Int
  BY WholeNumbers
<1>6. \A e \in Ids : begun'[e] <= attempts'[e] /\ attempts'[e] <= MaxAttempts
  BY <1>1, <1>3, <1>5
<1>7. \A e \in InHand(w)' : attempts'[e] = seen'[w][e] /\ begun'[e] < attempts'[e]
  BY <1>1, <1>2, <1>3, <1>4, <1>5
<1>8. \A e \in alarmed : attempts'[e] = attempts[e] /\ e \notin InHand(w)'
  BY <1>2, <1>3
<1>9. QED
  BY <1>1, <1>6, <1>7, <1>8

\* A row held back stays in hand, unbegun; one that begins spends its attempt.
LEMMA LoopSpare ==
  ASSUME OrderInv, SpareInv, NEW w, Workers = {w}, NEW e \in Ids, Defer(w, e) \/ Dispatch(w, e)
  PROVE  SpareInv'
<1> USE DEF OrderInv, SpareInv
<1>1. pc[w] = "looping" /\ Current(w, e) /\ e \in InHand(w) /\ InHand(w) \subseteq Ids
      /\ UNCHANGED <<attempts, seen, alarmed>>
  BY DEF Defer, Dispatch, Current, InHand, HandTypes, rowVars, history
<1>2. InHand(w)' = InHand(w)
  BY DEF Defer, Dispatch, Current, InHand, HandTypes
<1>3. \A d \in InHand(w) : attempts[d] = seen[w][d] /\ begun[d] < attempts[d]
  BY <1>1 DEF Leased, Running
<1>4. CASE Defer(w, e)
  <2>1. pc' = pc /\ begun' = begun
    BY <1>4 DEF Defer, history
  <2>2. QED
    BY <1>1, <1>2, <1>3, <2>1 DEF Leased
<1>5. CASE Dispatch(w, e)
  <2>1. pc'[w] = "running" /\ batch' = batch /\ begun' = [begun EXCEPT ![e] = begun[e] + 1]
    BY <1>5 DEF Dispatch, Goto, HandTypes
  <2>2. Running(w, e)'
    BY <1>1, <2>1 DEF Running, Current
  <2>3. begun[e] \in Int /\ attempts[e] \in Int /\ begun[e] < attempts[e]
    BY <1>1, <1>3 DEF RowTypes
  <2>4. begun' \in [Ids -> Int] /\ begun'[e] <= attempts[e] /\ \A d \in Ids \ {e} : begun'[d] = begun[d]
    BY <2>1, <2>3
  <2>5. \A d \in Ids : begun'[d] <= attempts'[d] /\ attempts'[d] <= MaxAttempts
    BY <1>1, <2>4
  <2>6. \A d \in InHand(w)' : attempts'[d] = seen'[w][d] /\ (~Running(w, d)' => begun'[d] < attempts'[d])
    BY <1>1, <1>2, <1>3, <2>2, <2>4
  <2>7. QED
    BY <1>1, <1>2, <2>1, <2>4, <2>5, <2>6
<1>6. QED
  BY <1>4, <1>5

LEMMA OutcomeSpare ==
  ASSUME OrderInv, SpareInv, NEW w, Workers = {w}, NEW e \in Ids, Outcome(w, e)
  PROVE  SpareInv'
<1> USE DEF OrderInv, SpareInv
<1>1. /\ pc[w] = "running" /\ pc'[w] = "looping" /\ Current(w, e) /\ batch'[w] = batch[w] \ {e}
      /\ UNCHANGED <<seen, deferred, begun>>
  BY DEF Outcome, Processed, Failed, FailedPermanently, Fail, Settle, Goto, HandTypes
<1>2. e \in InHand(w) /\ InHand(w) \subseteq Ids /\ InHand(w)' = InHand(w) \ {e}
  BY <1>1 DEF InHand, HandTypes, Current
<1>3. \A d \in InHand(w) \ {e} : ~Running(w, d)
  <2>1. \A d \in Ids : Current(w, d) => d = e
    BY <1>1, OutboxAssumption DEF Current, Ids
  <2>2. QED
    BY <1>2, <2>1 DEF Running
<1>4. MaxAttempts \in Int /\ \A d \in Ids : attempts[d] \in Int /\ begun[d] \in Int
  BY WholeNumbers
<1>5. attempts[e] = seen[w][e]
  BY <1>1, <1>2 DEF Leased
<1>6. /\ \A d \in Ids \ {e} : attempts'[d] = attempts[d]
      /\ attempts'[e] \in {attempts[e], MaxAttempts}
      /\ alarmed' = alarmed \/ (alarmed' = alarmed \union {e} /\ attempts'[e] >= MaxAttempts)
  <2>1. CASE Processed(w, e)
    BY <2>1 DEF Processed
  <2>2. ASSUME NEW n \in {attempts[e], MaxAttempts}, NEW b, Fail(w, e, n, b)
        PROVE  /\ \A d \in Ids \ {e} : attempts'[d] = attempts[d]
               /\ attempts'[e] \in {attempts[e], MaxAttempts}
               /\ alarmed' = alarmed \/ (alarmed' = alarmed \union {e} /\ attempts'[e] >= MaxAttempts)
    BY <2>2 DEF Fail, RowTypes
  <2>3. QED
    BY <1>5, <2>1, <2>2 DEF Outcome, Failed, FailedPermanently
<1>7. \A d \in Ids : begun'[d] <= attempts'[d] /\ attempts'[d] <= MaxAttempts
  BY <1>1, <1>4, <1>6
<1>8. \A d \in InHand(w)' : attempts'[d] = seen'[w][d] /\ begun'[d] < attempts'[d]
  BY <1>1, <1>2, <1>3, <1>6 DEF Leased
<1>9. \A d \in alarmed' : d \in Ids /\ attempts'[d] >= MaxAttempts /\ d \notin InHand(w)'
  <2>1. e \notin alarmed
    BY <1>2
  <2>2. QED
    BY <1>2, <1>6, <2>1
<1>10. QED
  BY <1>1, <1>7, <1>8, <1>9

\* What is handed back had an attempt it did not begin.
LEMMA ForgetSpare ==
  ASSUME OrderInv, SpareInv, NEW w, Workers = {w}, EndBatch(w) \/ Crash(w)
  PROVE  SpareInv'
<1> USE DEF OrderInv, SpareInv
<1>1. pc'[w] = "idle" /\ InHand(w)' = {} /\ UNCHANGED <<begun, alarmed>>
  BY DEF EndBatch, Crash, Forget, Goto, HandTypes, InHand, history
<1>2. MaxAttempts \in Int /\ \A d \in Ids : attempts[d] \in Int /\ begun[d] \in Int
  BY WholeNumbers
<1>3. \A d \in Ids : begun[d] <= attempts'[d] /\ attempts'[d] <= MaxAttempts
  <2>1. CASE Crash(w)
    BY <2>1 DEF Crash, rowVars
  <2>2. CASE EndBatch(w)
    <3>1. \A d \in Ids : attempts'[d] = (IF d \in deferred[w] THEN attempts[d] - 1 ELSE attempts[d])
      BY <2>2 DEF EndBatch
    <3>2. \A d \in deferred[w] : begun[d] < attempts[d]
      BY <2>2 DEF EndBatch, Leased, Running, InHand
    <3>3. QED
      BY <1>2, <3>1, <3>2
  <2>3. QED
    BY <2>1, <2>2
<1>4. \A d \in alarmed : attempts'[d] = attempts[d]
  BY DEF EndBatch, Crash, rowVars, InHand
<1>5. QED
  BY <1>1, <1>3, <1>4 DEF Leased

LEMMA NextSpare ==
  ASSUME OrderInv, SpareInv, NEW w, Workers = {w}, [Next]_vars
  PROVE  SpareInv'
<1>1. CASE UNCHANGED <<attempts, workerVars, begun, alarmed>>
  BY <1>1 DEF SpareInv, InHand, Leased, Running, Current, workerVars
<1>2. ASSUME NEW e \in Ids, Insert(e) \/ EndInsert(e) \/ Expire(e) PROVE SpareInv'
  BY <1>1, <1>2 DEF Insert, EndInsert, Expire, history
<1>3. ASSUME Work(w) \/ Crash(w) PROVE SpareInv'
  BY <1>3, ClaimSpare, CommitSpare, LoopSpare, OutcomeSpare, ForgetSpare DEF Work
<1>4. QED
  BY <1>1, <1>2, <1>3 DEF Next, vars, rowVars, history

LEMMA AlwaysSpare ==
  ASSUME NEW w, Workers = {w}
  PROVE  Spec => [](OrderInv /\ SpareInv)
<1>1. OrderInv /\ SpareInv /\ [Next]_vars => (OrderInv /\ SpareInv)'
  BY NextOrder, NextSpare
<1>2. QED
  BY InitOrder, InitSpare, <1>1, PTL DEF Spec

\* With one worker no event is dispatched more than MAX_ATTEMPTS times, even when leases run
\* out under its batches and it dies in them.
THEOREM OneWorkerKeepsBudget ==
  ASSUME NEW w, Workers = {w}
  PROVE  Spec => []AttemptBudget
<1>1. OrderInv /\ SpareInv => AttemptBudget
  <2>1. ASSUME OrderInv, SpareInv, NEW e \in Ids PROVE begun[e] <= MaxAttempts
    <3>1. attempts[e] \in Int /\ begun[e] \in Int /\ MaxAttempts \in Int
      BY <2>1, WholeNumbers DEF OrderInv, SpareInv
    <3>2. QED
      BY <2>1, <3>1 DEF SpareInv
  <2>2. QED
    BY <2>1 DEF AttemptBudget
<1>2. QED
  BY AlwaysSpare, <1>1, PTL
(***************************************************************************)
(* With one worker the drain is an EventQueue: claims, leases, batches and  *)
(* what is held back cannot be told from outside.  An event runs while its  *)
(* handler does; a row the worker has in hand and has not begun is waiting, *)
(* and the attempt its claim stamped is not spent yet.                      *)
(***************************************************************************)

Taken(e) == \E w \in Workers : Leased(w) /\ e \in InHand(w) /\ ~Running(w, e)

EventState(e) ==
  CASE status[e] = "absent" -> "absent"
    [] status[e] = "inserted" -> "written"
    [] status[e] = "rolled back" -> "void"
    [] status[e] = "processed" -> "done"
    [] OTHER -> IF \E w \in Workers : Running(w, e) THEN "running" ELSE "waiting"

TriesSpent(e) == IF Taken(e) THEN attempts[e] - 1 ELSE attempts[e]

Queue == INSTANCE EventQueue
           WITH Events <- Ids, Queues <- Partitions, Tries <- MaxAttempts,
                Hands <- {taken \in SUBSET Ids : Cardinality(taken) <= BatchSize}, state <- [e \in Ids |-> EventState(e)],
                queue <- part, causes <- before, spent <- [e \in Ids |-> TriesSpent(e)]

\* Ids are given out in order, and a claim takes no more than a batch.
IdsInOrder == \A d, e \in Ids : d < e /\ status[d] = "absent" => status[e] = "absent"
HandsAreSmall == \A w \in Workers : Cardinality(InHand(w)) <= BatchSize
SizeInv == IdsInOrder /\ HandsAreSmall

QueueInv == OrderInv /\ SpareInv /\ SizeInv

\* The lowest n of a set are no more than n.
LEMMA LowestSize ==
  ASSUME NEW S \in SUBSET Ids, NEW n \in Nat
  PROVE  Cardinality(Lowest(S, n)) <= n
<1> DEFINE L == Lowest(S, n)
           T == {k \in Nat : \A e \in L : e <= k}
           R == OpToRel(<, Nat)
<1>1. IsFiniteSet(Ids) /\ MaxId \in Nat
  BY OutboxAssumption, FS_Interval DEF Ids
<1>2. L \subseteq S /\ IsFiniteSet(L) /\ Cardinality(L) \in Nat
  BY <1>1, FS_Subset, FS_CardinalityType DEF Lowest
<1>3. CASE L = {}
  BY <1>3, FS_EmptySet
<1>4. CASE L # {}
  <2>1. \A e \in L : e \in Nat /\ e <= MaxId /\ e > 0
    <3> HIDE DEF L
    <3> QED BY <1>1, <1>2 DEF Ids
  <2>2. MaxId \in T
    BY <1>1, <2>1
  <2>3. IsWellFoundedOn(R, Nat) /\ \A x, y \in Nat : y < x => <<y, x>> \in R
    BY NatLessThanWellFounded DEF OpToRel
  <2> HIDE DEF R
  <2>4. PICK m \in T : \A k \in T : ~(<<k, m>> \in R)
    <3>1. T \subseteq Nat /\ T # {}
      BY <2>2
    <3> HIDE DEF T
    <3> QED BY <2>3, <3>1, WFMin
  <2>5. m \in Nat /\ \A e \in L : e <= m
    BY <2>4
  <2>6. m \in L
    <3> SUFFICES ASSUME m \notin L PROVE FALSE
      OBVIOUS
    <3> HIDE DEF L
    <3>1. PICK e \in L : TRUE
      BY <1>4
    <3>2. m > 0 /\ \A d \in L : d <= m - 1
      BY <2>1, <2>5, <3>1
    <3>3. m - 1 \in Nat /\ m - 1 \in T /\ m - 1 < m
      BY <2>5, <3>2
    <3> QED BY <2>3, <2>4, <2>5, <3>3
  <2>7. L \subseteq {d \in S : d < m} \union {m}
    <3> HIDE DEF L
    <3> QED BY <1>2, <2>1, <2>5
  <2>8. Cardinality({d \in S : d < m}) < n
    BY <2>6 DEF Lowest
  <2> DEFINE B == {d \in S : d < m}
  <2>9. IsFiniteSet(B) /\ Cardinality(B) \in Nat
    BY <1>1, FS_Subset, FS_CardinalityType
  <2> HIDE DEF B, L
  <2>10. IsFiniteSet(B \union {m}) /\ Cardinality(B \union {m}) <= Cardinality(B) + 1
         /\ Cardinality(B \union {m}) \in Nat
    <3>1. /\ IsFiniteSet(B \union {m})
          /\ Cardinality(B \union {m}) = IF m \in B THEN Cardinality(B) ELSE Cardinality(B) + 1
      BY <2>9, FS_AddElement
    <3> QED BY <2>9, <3>1
  <2>11. Cardinality(L) <= Cardinality(B \union {m})
    BY <2>7, <2>10, FS_Subset DEF B
  <2> QED BY <1>2, <2>8, <2>9, <2>10, <2>11 DEF B, L
<1> QED BY <1>3, <1>4

LEMMA InitSize == Init => SizeInv
<1>1. Cardinality({}) = 0 /\ BatchSize \in Nat
  BY FS_EmptySet, OutboxAssumption
<1> QED BY <1>1, OutboxAssumption DEF Init, SizeInv, IdsInOrder, HandsAreSmall, InHand

\* A hand that does not grow stays small.
LEMMA SmallerHand ==
  ASSUME OrderInv, HandsAreSmall, NEW w, Workers = {w}, NEW S \in SUBSET InHand(w)
  PROVE  Cardinality(S) <= BatchSize
<1>1. IsFiniteSet(Ids) /\ InHand(w) \subseteq Ids
  BY OutboxAssumption, FS_Interval DEF Ids, OrderInv, HandTypes, InHand
<1>2. IsFiniteSet(InHand(w)) /\ Cardinality(InHand(w)) \in Nat /\ Cardinality(S) \in Nat
      /\ Cardinality(S) <= Cardinality(InHand(w))
  <2>1. IsFiniteSet(InHand(w)) /\ S \subseteq Ids
    BY <1>1, FS_Subset
  <2>2. IsFiniteSet(S)
    BY <1>1, <2>1, FS_Subset
  <2> QED BY <2>1, <2>2, FS_Subset, FS_CardinalityType
<1> QED BY <1>2, OutboxAssumption DEF HandsAreSmall

LEMMA NextSize ==
  ASSUME QueueInv, NEW w, Workers = {w}, [Next]_vars
  PROVE  SizeInv'
<1> USE DEF QueueInv, SizeInv
<1>1. IdsInOrder'
  <2>1. CASE status' = status
    BY <2>1 DEF IdsInOrder
  <2>2. ASSUME NEW e \in Ids, Insert(e) PROVE IdsInOrder'
    <3>1. /\ status' = [status EXCEPT ![e] = "inserted"] /\ DOMAIN status = Ids
          /\ \A d \in 1..(e - 1) : status[d] # "absent"
      BY <2>2 DEF Insert, OrderInv, RowTypes
    <3>2. \A d \in Ids : d < e => status[d] # "absent"
      BY <3>1, OutboxAssumption DEF Ids
    <3>3. \A d \in Ids : status'[d] = IF d = e THEN "inserted" ELSE status[d]
      BY <3>1
    <3> QED BY <3>2, <3>3 DEF IdsInOrder
  <2>3. ASSUME NEW e \in Ids, EndInsert(e) \/ \E v \in Workers : Processed(v, e) PROVE IdsInOrder'
    <3>1. PICK s \in {"pending", "rolled back", "processed"} : status' = [status EXCEPT ![e] = s]
      BY <2>3 DEF EndInsert, Processed
    <3>2. status[e] # "absent"
      BY <2>3 DEF EndInsert, Processed, Settle, Current, OrderInv, HandTypes, InHand
    <3>3. \A d \in Ids : status'[d] = IF d = e THEN s ELSE status[d]
      BY <3>1 DEF OrderInv, RowTypes
    <3> QED BY <3>2, <3>3 DEF IdsInOrder
  <2>4. CASE UNCHANGED vars
    BY <2>1, <2>4 DEF vars, rowVars
  <2>5. ASSUME NEW e \in Ids, Expire(e) PROVE IdsInOrder'
    BY <2>1, <2>5 DEF Expire
  <2>6. CASE ClaimLock(w) \/ ClaimCommit(w) \/ EndBatch(w) \/ Crash(w)
    BY <2>1, <2>6 DEF ClaimLock, ClaimCommit, EndBatch, Crash, rowVars
  <2>7. ASSUME NEW e \in Ids, Defer(w, e) \/ Dispatch(w, e) \/ Failed(w, e) \/ FailedPermanently(w, e)
        PROVE  IdsInOrder'
    BY <2>1, <2>7 DEF Defer, Dispatch, Failed, FailedPermanently, Fail, rowVars
  <2> QED BY <2>2, <2>3, <2>4, <2>5, <2>6, <2>7 DEF Next, Work, Outcome
<1>2. Cardinality(InHand(w)') <= BatchSize
  <2>1. CASE InHand(w)' \subseteq InHand(w)
    BY <2>1, SmallerHand
  <2>2. CASE ClaimLock(w)
    <3>1. PICK S \in SUBSET Ids : batch'[w] = Lowest(S, BatchSize)
      BY <2>2 DEF ClaimLock, OrderInv, HandTypes
    <3>2. InHand(w)' = batch'[w]
      BY <2>2 DEF ClaimLock, OrderInv, HandTypes, InHand
    <3> QED BY <3>1, <3>2, LowestSize, OutboxAssumption
  <2>3. CASE UNCHANGED workerVars
    BY <2>1, <2>3 DEF workerVars, InHand
  <2>4. CASE ClaimCommit(w) \/ EndBatch(w) \/ Crash(w)
    BY <2>1, <2>4 DEF ClaimCommit, EndBatch, Crash, Forget, InHand, OrderInv, HandTypes
  <2>5. ASSUME NEW e \in Ids, Defer(w, e) \/ Dispatch(w, e) \/ Outcome(w, e)
        PROVE  InHand(w)' \subseteq InHand(w)
    BY <2>5 DEF Defer, Dispatch, Outcome, Processed, Failed, FailedPermanently, Fail, Settle, Current,
                InHand, OrderInv, HandTypes
  <2>6. ASSUME NEW e \in Ids, Insert(e) \/ EndInsert(e) \/ Expire(e) PROVE UNCHANGED workerVars
    BY <2>6 DEF Insert, EndInsert, Expire
  <2> QED BY <2>1, <2>2, <2>3, <2>4, <2>5, <2>6 DEF Next, Work, vars
<1> QED BY <1>1, <1>2 DEF HandsAreSmall

\* The one worker, its batch and what it runs.
LEMMA OneWorker ==
  ASSUME OrderInv, SpareInv, NEW w, Workers = {w}
  PROVE  /\ \A e \in Ids : status[e] \in {"absent", "inserted", "pending", "processed", "rolled back"}
         /\ \A e \in Ids : EventState(e) = "running" <=> Running(w, e)
         /\ \A e \in Ids : EventState(e) = "waiting" <=> status[e] = "pending" /\ ~Running(w, e)
         /\ \A e \in Ids : EventState(e) = "absent" <=> status[e] = "absent"
         /\ \A e \in Ids : EventState(e) = "done" <=> status[e] = "processed"
         /\ \A e \in Ids : EventState(e) = "written" <=> status[e] = "inserted"
         /\ \A e : Taken(e) <=> Leased(w) /\ e \in InHand(w) /\ ~Running(w, e)
         /\ MaxAttempts \in Int /\ \A e \in Ids : attempts[e] \in Int /\ attempts[e] <= MaxAttempts
         /\ InHand(w) \subseteq Ids /\ \A e \in InHand(w) : status[e] = "pending"
         /\ \A e \in Ids : Running(w, e) => status[e] = "pending" /\ Leased(w)
<1>1. \A e \in Ids : status[e] \in {"absent", "inserted", "pending", "processed", "rolled back"}
  BY DEF OrderInv, RowTypes
<1>2. InHand(w) \subseteq Ids /\ \A e \in InHand(w) : status[e] = "pending"
  BY DEF OrderInv, HandTypes, InHand
<1>3. \A e \in Ids : Running(w, e) => status[e] = "pending" /\ Leased(w)
  BY <1>2 DEF Running, Current, InHand, Leased
<1>4. MaxAttempts \in Int /\ \A e \in Ids : attempts[e] \in Int
  BY WholeNumbers DEF OrderInv, SpareInv
<1>5. \A e : Taken(e) <=> Leased(w) /\ e \in InHand(w) /\ ~Running(w, e)
  BY DEF Taken
<1>6. \A e \in Ids : attempts[e] <= MaxAttempts
  BY DEF SpareInv
<1>7. ASSUME NEW e \in Ids
      PROVE  /\ EventState(e) = "running" <=> Running(w, e)
             /\ EventState(e) = "waiting" <=> status[e] = "pending" /\ ~Running(w, e)
             /\ EventState(e) = "absent" <=> status[e] = "absent"
             /\ EventState(e) = "done" <=> status[e] = "processed"
             /\ EventState(e) = "written" <=> status[e] = "inserted"
  BY <1>1, <1>3 DEF EventState
<1> QED BY <1>1, <1>2, <1>3, <1>4, <1>5, <1>6, <1>7

\* What the commands do.
LEMMA InsertIsWrite ==
  ASSUME QueueInv, NEW w, Workers = {w}, NEW e \in Ids, Insert(e)
  PROVE  Queue!Write(e)
<1>1. /\ status[e] = "absent" /\ \A d \in Ids : status'[d] = IF d = e THEN "inserted" ELSE status[d]
      /\ before' = [before EXCEPT ![e] = {d \in 1..(e - 1) : part[d] = part[e] /\ status[d] \in {"pending", "processed"}}]
      /\ UNCHANGED <<part, attempts, pc, batch, deferred>>
  BY DEF Insert, QueueInv, OrderInv, RowTypes, workerVars
<1>2. \A d : Taken(d)' = Taken(d) /\ \A v \in Workers : Running(v, d)' = Running(v, d)
  BY <1>1 DEF Taken, Running, Current, InHand, Leased
<1>3. \A d \in Ids : TriesSpent(d)' = TriesSpent(d)
  BY <1>1, <1>2 DEF TriesSpent
<1>4. \A d \in Ids : EventState(d)' = IF d = e THEN "written" ELSE EventState(d)
  BY <1>1, <1>2 DEF EventState
<1>5. EventState(e) = "absent"
  BY <1>1 DEF EventState
<1>6. {d \in 1..(e - 1) : part[d] = part[e] /\ status[d] \in {"pending", "processed"}}
      = {d \in Ids : part[d] = part[e] /\ EventState(d) \in {"waiting", "running", "done"}}
  <2>1. \A d \in Ids : d # e /\ status[d] # "absent" => d < e
    BY <1>1, OutboxAssumption DEF QueueInv, SizeInv, IdsInOrder, Ids
  <2>2. \A d \in Ids : EventState(d) \in {"waiting", "running", "done"}
                       <=> status[d] \in {"pending", "processed"}
    BY OneWorker DEF QueueInv
  <2>3. \A d : d \in 1..(e - 1) <=> d \in Ids /\ d < e
    BY OutboxAssumption DEF Ids
  <2>4. status[e] \notin {"pending", "processed"}
    BY <1>1
  <2>5. \A d : (d \in 1..(e - 1) /\ part[d] = part[e] /\ status[d] \in {"pending", "processed"})
               <=> (d \in Ids /\ part[d] = part[e] /\ EventState(d) \in {"waiting", "running", "done"})
    <3> SUFFICES ASSUME NEW d
                 PROVE  (d \in 1..(e - 1) /\ part[d] = part[e] /\ status[d] \in {"pending", "processed"})
                        <=> (d \in Ids /\ part[d] = part[e] /\ EventState(d) \in {"waiting", "running", "done"})
      OBVIOUS
    <3>1. CASE d \in Ids
      <4>1. status[d] \in {"pending", "processed"} => d \in 1..(e - 1)
        BY <2>1, <2>3, <2>4, <3>1
      <4> QED BY <2>2, <3>1, <4>1
    <3>2. CASE d \notin Ids
      BY <2>3, <3>2
    <3> QED BY <3>1, <3>2
  <2> HIDE DEF QueueInv
  <2> QED BY <2>5
<1> QED BY <1>1, <1>3, <1>4, <1>5, <1>6 DEF Queue!Write, Queue!Goto

LEMMA EndInsertIsPublish ==
  ASSUME QueueInv, NEW w, Workers = {w}, NEW e \in Ids, EndInsert(e)
  PROVE  Queue!Publish(e)
<1>1. PICK s \in {"pending", "rolled back"} :
         /\ status[e] = "inserted" /\ \A d \in Ids : status'[d] = IF d = e THEN s ELSE status[d]
         /\ UNCHANGED <<part, attempts, pc, batch, deferred, before>>
  BY DEF EndInsert, QueueInv, OrderInv, RowTypes, workerVars, history
<1>2. \A d : Taken(d)' = Taken(d) /\ \A v \in Workers : Running(v, d)' = Running(v, d)
  BY <1>1 DEF Taken, Running, Current, InHand, Leased
<1>3. \A d \in Ids : TriesSpent(d)' = TriesSpent(d)
  BY <1>1, <1>2 DEF TriesSpent
<1>4. EventState(e) = "written" /\ ~Running(w, e)
  BY <1>1, OneWorker DEF QueueInv
<1>5. \A d \in Ids : EventState(d)' = IF d = e THEN (IF s = "pending" THEN "waiting" ELSE "void") ELSE EventState(d)
  BY <1>1, <1>2, <1>4 DEF EventState
<1> QED BY <1>1, <1>3, <1>4, <1>5 DEF Queue!Publish, Queue!Goto

\* A step that moves no row, no attempt and no handler is not seen.
LEMMA Unseen ==
  ASSUME NEW w, Workers = {w}, UNCHANGED <<status, part, before>>,
         \A e \in Ids : Running(w, e)' <=> Running(w, e),
         \A e \in Ids : TriesSpent(e)' = TriesSpent(e)
  PROVE  UNCHANGED Queue!queueVars
<1>1. \A e \in Ids : EventState(e)' = EventState(e)
  BY DEF EventState
<1> QED BY <1>1 DEF Queue!queueVars

LEMMA ExpireUnseen ==
  ASSUME QueueInv, NEW w, Workers = {w}, (\E e \in Ids : Expire(e)) \/ UNCHANGED vars
  PROVE  UNCHANGED Queue!queueVars
<1>1. UNCHANGED <<status, part, attempts, pc, batch, deferred, before>>
  BY DEF Expire, vars, rowVars, workerVars, history
<1>2. \A e \in Ids : (Running(w, e)' <=> Running(w, e)) /\ TriesSpent(e)' = TriesSpent(e)
  BY <1>1 DEF TriesSpent, Taken, Running, Current, InHand, Leased
<1> QED BY <1>1, <1>2, Unseen

\* A claim stamps an attempt that is not spent before its row begins.
LEMMA ClaimUnseen ==
  ASSUME QueueInv, NEW w, Workers = {w}, ClaimLock(w) \/ ClaimCommit(w)
  PROVE  UNCHANGED Queue!queueVars
<1>1. \A e \in Ids : ~Running(w, e) /\ ~Running(w, e)' /\ ~Taken(e)
  BY DEF ClaimLock, ClaimCommit, Goto, Running, Taken, Leased, QueueInv, OrderInv, HandTypes
<1>2. \A e \in Ids : TriesSpent(e)' = TriesSpent(e)
  <2>1. CASE ClaimLock(w)
    <3>1. attempts' = attempts /\ \A e \in Ids : ~Taken(e)'
      BY <2>1 DEF ClaimLock, Goto, Taken, Leased, QueueInv, OrderInv, HandTypes, rowVars
    <3> QED BY <1>1, <3>1 DEF TriesSpent
  <2>2. CASE ClaimCommit(w)
    <3>1. /\ pc'[w] = "looping" /\ InHand(w)' = batch[w] /\ batch[w] \subseteq Ids
          /\ \A e \in Ids : attempts'[e] = IF e \in batch[w] THEN attempts[e] + 1 ELSE attempts[e]
      BY <2>2 DEF ClaimCommit, Goto, InHand, QueueInv, OrderInv, HandTypes, SpareInv
    <3>2. \A e \in Ids : Taken(e)' <=> e \in batch[w]
      BY <2>2, <3>1 DEF Taken, Leased, Running, ClaimCommit
    <3>3. \A e \in Ids : attempts[e] \in Int
      BY OneWorker DEF QueueInv
    <3> QED BY <1>1, <3>1, <3>2, <3>3 DEF TriesSpent
  <2> QED BY <2>1, <2>2
<1>3. UNCHANGED <<status, part, before>>
  BY DEF ClaimLock, ClaimCommit, rowVars, history
<1> QED BY <1>1, <1>2, <1>3, Unseen

\* Nor is a row that is held back, and given its attempt again.
LEMMA HeldBackUnseen ==
  ASSUME QueueInv, NEW w, Workers = {w}, EndBatch(w) \/ \E e \in Ids : Defer(w, e)
  PROVE  UNCHANGED Queue!queueVars
<1>1. pc[w] = "looping" /\ pc'[w] # "running" /\ UNCHANGED <<status, part, before>>
  BY DEF EndBatch, Defer, Forget, Goto, QueueInv, OrderInv, HandTypes, rowVars, history
<1>2. \A e \in Ids : ~Running(w, e) /\ ~Running(w, e)'
  BY <1>1 DEF Running
<1>3. \A e \in Ids : TriesSpent(e)' = TriesSpent(e)
  <2>1. ASSUME NEW d \in Ids, Defer(w, d) PROVE \A e \in Ids : TriesSpent(e)' = TriesSpent(e)
    <3>1. InHand(w)' = InHand(w) /\ pc' = pc /\ attempts' = attempts
      BY <2>1 DEF Defer, Current, InHand, QueueInv, OrderInv, HandTypes, rowVars
    <3> QED BY <1>2, <3>1 DEF TriesSpent, Taken, Leased
  <2>2. CASE EndBatch(w)
    <3>1. /\ InHand(w) = deferred[w] /\ pc'[w] = "idle"
          /\ \A e \in Ids : attempts'[e] = IF e \in deferred[w] THEN attempts[e] - 1 ELSE attempts[e]
      BY <2>2 DEF EndBatch, Forget, Goto, InHand, QueueInv, OrderInv, HandTypes
    <3>2. \A e \in Ids : ~Taken(e)' /\ (Taken(e) <=> e \in deferred[w])
      BY <1>1, <1>2, <3>1 DEF Taken, Leased
    <3> QED BY <3>1, <3>2 DEF TriesSpent
  <2> QED BY <2>1, <2>2
<1> QED BY <1>1, <1>2, <1>3, Unseen

\* A row that runs is the only one; what was there before it is settled.
LEMMA DispatchIsBegin ==
  ASSUME QueueInv, NEW w, Workers = {w}, NEW e \in Ids, Dispatch(w, e)
  PROVE  Queue!Begin(e)
<1>1. /\ pc[w] = "looping" /\ pc'[w] = "running" /\ Current(w, e) /\ part[e] \notin stalled[w]
      /\ UNCHANGED <<status, part, attempts, batch, deferred, before>>
  BY DEF Dispatch, Goto, QueueInv, OrderInv, HandTypes, rowVars
<1>2. \A d \in Ids : ~Running(w, d) /\ (Running(w, d)' <=> d = e)
  <2>1. \A d \in Ids : Current(w, d) <=> d = e
    BY <1>1, OutboxAssumption DEF Current, Ids
  <2> QED BY <1>1, <2>1 DEF Running, Current
<1>3. e \in InHand(w) /\ InHand(w)' = InHand(w)
  BY <1>1 DEF Current, InHand
<1>4. \A d \in Ids : /\ Taken(d) <=> d \in InHand(w)
                     /\ Taken(d)' <=> d \in InHand(w) /\ d # e
  BY <1>1, <1>2, <1>3 DEF Taken, Leased
<1>5. attempts[e] \in Int /\ attempts[e] <= MaxAttempts /\ MaxAttempts \in Int
  BY OneWorker DEF QueueInv
<1>6. \A d \in Ids : TriesSpent(d)' = IF d = e THEN TriesSpent(e) + 1 ELSE TriesSpent(d)
  <2>1. \A d \in Ids \ {e} : TriesSpent(d)' = TriesSpent(d)
    BY <1>1, <1>4 DEF TriesSpent
  <2>2. TriesSpent(e)' = attempts[e] /\ TriesSpent(e) = attempts[e] - 1
    BY <1>1, <1>3, <1>4 DEF TriesSpent
  <2> QED BY <1>5, <2>1, <2>2
<1>7. TriesSpent(e) < MaxAttempts
  BY <1>3, <1>4, <1>5 DEF TriesSpent
<1>8. /\ \A d \in Ids : EventState(d) # "running"
      /\ EventState(e) = "waiting"
      /\ \A d \in Ids : EventState(d)' = IF d = e THEN "running" ELSE EventState(d)
  <2>1. status[e] = "pending"
    BY <1>3 DEF QueueInv, OrderInv, HandTypes
  <2>2. \A d \in Ids : EventState(d) # "running"
    BY <1>2, OneWorker DEF QueueInv
  <2>3. EventState(e) = "waiting"
    BY <1>2, <2>1 DEF EventState
  <2>4. EventState(e)' = "running"
    BY <1>1, <1>2, <2>1 DEF EventState
  <2>5. \A d \in Ids \ {e} : EventState(d)' = EventState(d)
    BY <1>1, <1>2 DEF EventState
  <2> QED BY <2>2, <2>3, <2>4, <2>5
<1>9. \A d \in before[e] : d \in Ids /\ (EventState(d) = "done" \/ (EventState(d) = "waiting" /\ TriesSpent(d) >= MaxAttempts))
  <2> SUFFICES ASSUME NEW d \in before[e]
               PROVE  d \in Ids /\ (EventState(d) = "done" \/ (EventState(d) = "waiting" /\ TriesSpent(d) >= MaxAttempts))
    OBVIOUS
  <2>1. d \in Ids /\ d < e /\ e \in batch[w]
    BY <1>1 DEF QueueInv, OrderInv, RowTypes, BeforeInv, Current
  <2>2. d \notin batch[w]
    BY <1>1, <2>1, OutboxAssumption DEF Current, Ids
  <2>3. Over(w, d)
    BY <1>1, <2>1, <2>2 DEF QueueInv, OrderInv, BatchInv
  <2>4. CASE status[d] = "processed"
    BY <2>1, <2>4 DEF EventState
  <2>5. CASE status[d] = "pending" /\ attempts[d] >= MaxAttempts /\ d \notin InHand(w)
    BY <1>2, <1>4, <2>1, <2>5 DEF EventState, TriesSpent
  <2> QED BY <2>1, <2>3, <2>4, <2>5 DEF Over
<1>10. before[e] \subseteq Ids /\ [d \in Ids |-> EventState(d)][e] = "waiting"
  BY <1>8, <1>9
<1> HIDE DEF QueueInv
<1> QED BY <1>1, <1>6, <1>7, <1>8, <1>9 DEF Queue!Begin, Queue!Goto, Queue!Settled, Queue!GivenUp

\* The row that ran leaves the hand, with the attempts it began.
LEMMA OutcomeShape ==
  ASSUME QueueInv, NEW w, Workers = {w}, NEW e \in Ids, Outcome(w, e)
  PROVE  /\ EventState(e) = "running" /\ UNCHANGED <<part, before>>
         /\ \A d \in Ids : ~Running(w, d)'
         /\ \A d \in Ids \ {e} : ~Running(w, d)
         /\ TriesSpent(e) = attempts[e] /\ ~Taken(e)'
         /\ \A d \in Ids : d # e => (Taken(d)' <=> Taken(d))
         /\ seen[w][e] = attempts[e]
<1>1. /\ pc[w] = "running" /\ pc'[w] = "looping" /\ Current(w, e) /\ batch'[w] = batch[w] \ {e}
      /\ UNCHANGED <<seen, deferred, part, before>>
  BY DEF Outcome, Processed, Failed, FailedPermanently, Fail, Settle, Goto, QueueInv, OrderInv, HandTypes
<1>2. \A d \in Ids : Running(w, d) <=> d = e
  <2>1. \A d \in Ids : Current(w, d) <=> d = e
    BY <1>1, OutboxAssumption DEF Current, Ids
  <2> QED BY <1>1, <2>1 DEF Running
<1>3. e \in InHand(w) /\ InHand(w)' = InHand(w) \ {e}
  BY <1>1 DEF InHand, Current, QueueInv, OrderInv, HandTypes
<1>4. \A d : ~Running(w, d)'
  BY <1>1 DEF Running
<1>5. \A d \in Ids : (Taken(d) <=> d \in InHand(w) /\ d # e) /\ (Taken(d)' <=> d \in InHand(w) /\ d # e)
  BY <1>1, <1>2, <1>3, <1>4 DEF Taken, Leased
<1>6. EventState(e) = "running"
  BY <1>2, OneWorker DEF QueueInv
<1>7. seen[w][e] = attempts[e]
  BY <1>1, <1>3 DEF QueueInv, SpareInv, Leased
<1> QED BY <1>1, <1>2, <1>4, <1>5, <1>6, <1>7 DEF TriesSpent

LEMMA ProcessedIsSucceed ==
  ASSUME QueueInv, NEW w, Workers = {w}, NEW e \in Ids, Processed(w, e)
  PROVE  Queue!Succeed(e)
<1>1. Outcome(w, e)
  BY DEF Outcome
<1>2. attempts' = attempts /\ \A d \in Ids : status'[d] = IF d = e THEN "processed" ELSE status[d]
  BY DEF Processed, QueueInv, OrderInv, RowTypes
<1>3. \A d \in Ids : TriesSpent(d)' = TriesSpent(d)
  BY <1>1, <1>2, OutcomeShape DEF TriesSpent
<1>4. EventState(e)' = "done"
  BY <1>2 DEF EventState
<1>6. \A d \in Ids \ {e} : ~Running(w, d) /\ ~Running(w, d)'
  BY <1>1, OutcomeShape
<1>5. \A d \in Ids \ {e} : EventState(d)' = EventState(d)
  BY <1>2, <1>6 DEF EventState
<1> QED BY <1>1, <1>3, <1>4, <1>5, OutcomeShape DEF Queue!Succeed, Queue!Goto

LEMMA FailIsFail ==
  ASSUME QueueInv, NEW w, Workers = {w}, NEW e \in Ids, Failed(w, e) \/ FailedPermanently(w, e)
  PROVE  Queue!Fail(e)
<1>1. Outcome(w, e)
  BY DEF Outcome
<1>2. PICK n \in {attempts[e], MaxAttempts} :
         status' = status /\ \A d \in Ids : attempts'[d] = IF d = e THEN n ELSE attempts[d]
  <2>1. seen[w][e] = attempts[e]
    BY <1>1, OutcomeShape
  <2>2. ASSUME NEW n, NEW b, Fail(w, e, n, b)
        PROVE  status' = status /\ \A d \in Ids : attempts'[d] = IF d = e THEN n ELSE attempts[d]
    BY <2>2 DEF Fail, QueueInv, OrderInv, RowTypes
  <2>3. CASE Failed(w, e)
    <3>1. status' = status /\ \A d \in Ids : attempts'[d] = IF d = e THEN attempts[e] ELSE attempts[d]
      BY <2>1, <2>2, <2>3 DEF Failed
    <3> QED BY <3>1
  <2>4. CASE FailedPermanently(w, e)
    <3>1. status' = status /\ \A d \in Ids : attempts'[d] = IF d = e THEN MaxAttempts ELSE attempts[d]
      BY <2>2, <2>4 DEF FailedPermanently
    <3> QED BY <3>1
  <2> QED BY <2>3, <2>4
<1>3. \A d \in Ids : TriesSpent(d)' = IF d = e THEN n ELSE TriesSpent(d)
  BY <1>1, <1>2, OutcomeShape DEF TriesSpent
<1>4. n \in {TriesSpent(e), MaxAttempts}
  BY <1>1, <1>2, OutcomeShape
<1>5. EventState(e)' = "waiting"
  <2>1. status[e] = "pending"
    BY <1>1, OutcomeShape, OneWorker DEF QueueInv
  <2>2. ~Running(w, e)'
    BY <1>1, OutcomeShape
  <2> QED BY <1>2, <2>1, <2>2 DEF EventState
<1>6. \A d \in Ids \ {e} : EventState(d)' = EventState(d)
  <2>1. \A d \in Ids \ {e} : ~Running(w, d) /\ ~Running(w, d)'
    BY <1>1, OutcomeShape
  <2> QED BY <1>2, <2>1 DEF EventState
<1>7. [d \in Ids |-> TriesSpent(d)]' = [[d \in Ids |-> TriesSpent(d)] EXCEPT ![e] = n]
  BY <1>3
<1>8. [d \in Ids |-> EventState(d)]' = [[d \in Ids |-> EventState(d)] EXCEPT ![e] = "waiting"]
  BY <1>5, <1>6
<1>9. /\ [d \in Ids |-> EventState(d)][e] = "running"
      /\ n \in {[d \in Ids |-> TriesSpent(d)][e], MaxAttempts}
  BY <1>1, <1>4, OutcomeShape
<1> QED BY <1>1, <1>7, <1>8, <1>9, OutcomeShape DEF Queue!Fail, Queue!Goto

\* The attempts of the rows in hand that had not begun are lost.
LEMMA CrashIsDie ==
  ASSUME QueueInv, NEW w, Workers = {w}, Crash(w)
  PROVE  \E taken \in {S \in SUBSET Ids : Cardinality(S) <= BatchSize} : Queue!Die(taken)
<1> DEFINE taken == {e \in Ids : Taken(e)}
<1>1. pc'[w] = "idle" /\ UNCHANGED <<status, part, attempts, before>>
  BY DEF Crash, Forget, Goto, QueueInv, OrderInv, HandTypes, rowVars, history
<1>2. \A e \in Ids : ~Running(w, e)' /\ ~Taken(e)'
  BY <1>1 DEF Running, Taken, Leased
<1>3. \A e \in Ids : (Taken(e) => e \in InHand(w) /\ ~Running(w, e) /\ status[e] = "pending")
  BY OneWorker DEF QueueInv
<1>4. MaxAttempts \in Int /\ \A e \in Ids : attempts[e] \in Int /\ attempts[e] <= MaxAttempts
  BY OneWorker DEF QueueInv
<1>5. \A e \in taken : EventState(e) = "waiting" /\ TriesSpent(e) < MaxAttempts
  <2>1. \A e \in taken : EventState(e) = "waiting"
    BY <1>3, OneWorker DEF QueueInv
  <2>2. \A e \in taken : TriesSpent(e) = attempts[e] - 1
    BY DEF TriesSpent
  <2> QED BY <1>4, <2>1, <2>2
<1>6. Cardinality(taken) <= BatchSize
  <2>1. taken \in SUBSET InHand(w)
    BY <1>3
  <2> HIDE DEF taken
  <2> QED BY <2>1, SmallerHand DEF QueueInv, SizeInv
<1>7. \A e \in Ids : TriesSpent(e)' = IF e \in taken THEN TriesSpent(e) + 1 ELSE TriesSpent(e)
  BY <1>1, <1>2, <1>4 DEF TriesSpent
<1>8. \A e \in Ids : EventState(e)' = IF EventState(e) = "running" THEN "waiting" ELSE EventState(e)
  <2>1. ASSUME NEW e \in Ids, Running(w, e) PROVE EventState(e)' = "waiting" /\ EventState(e) = "running"
    <3>1. status[e] = "pending" /\ EventState(e) = "running"
      BY <2>1, OneWorker DEF QueueInv
    <3> QED BY <1>1, <1>2, <3>1 DEF EventState
  <2>2. ASSUME NEW e \in Ids, ~Running(w, e) PROVE EventState(e)' = EventState(e) /\ EventState(e) # "running"
    <3>1. EventState(e) # "running"
      BY <2>2, OneWorker DEF QueueInv
    <3>2. EventState(e)' = EventState(e)
      BY <1>1, <1>2, <2>2 DEF EventState
    <3> QED BY <3>1, <3>2
  <2> QED BY <2>1, <2>2
<1> HIDE DEF taken
<1>9. taken \subseteq Ids
  BY DEF taken
<1>10. [e \in Ids |-> TriesSpent(e)]'
       = [e \in Ids |-> IF e \in taken THEN [d \in Ids |-> TriesSpent(d)][e] + 1 ELSE [d \in Ids |-> TriesSpent(d)][e]]
  BY <1>7
<1>11. [e \in Ids |-> EventState(e)]'
       = [e \in Ids |-> IF [d \in Ids |-> EventState(d)][e] = "running" THEN "waiting" ELSE [d \in Ids |-> EventState(d)][e]]
  BY <1>8
<1>12. \A e \in taken : [d \in Ids |-> EventState(d)][e] = "waiting" /\ [d \in Ids |-> TriesSpent(d)][e] < MaxAttempts
  BY <1>5, <1>9
<1>13. Queue!Die(taken)
  BY <1>1, <1>10, <1>11, <1>12 DEF Queue!Die
<1> QED BY <1>6, <1>9, <1>13

LEMMA InitIsQueue == Init => Queue!Init
<1> SUFFICES ASSUME Init PROVE Queue!Init
  OBVIOUS
<1>1. \A e \in Ids : status[e] = "absent" /\ attempts[e] = 0 /\ ~Taken(e)
  BY DEF Init, Taken, Leased
<1>2. \A e \in Ids : EventState(e) = "absent" /\ TriesSpent(e) = 0
  BY <1>1 DEF EventState, TriesSpent
<1> QED BY <1>2 DEF Init, Queue!Init

\* What commands and handlers may count on with the one worker that is deployed, however slow
\* its batches and however often it dies: one event at a time, causes before effects, at most
\* MAX_ATTEMPTS runs, never again once it is processed or given up, and a death costs the
\* events of one batch an attempt each (claimBatch, drainOnce, releaseUnrun; EventQueue).
THEOREM OneWorkerIsAQueue ==
  ASSUME NEW w, Workers = {w}
  PROVE  Spec => Queue!Spec
<1>1. QueueInv /\ [Next]_vars => QueueInv'
  BY NextOrder, NextSpare, NextSize DEF QueueInv
<1>2. Init => QueueInv
  BY InitOrder, InitSpare, InitSize DEF QueueInv
<1>3. QueueInv /\ [Next]_vars => [Queue!Next]_Queue!queueVars
  <2> SUFFICES ASSUME QueueInv, [Next]_vars PROVE [Queue!Next]_Queue!queueVars
    OBVIOUS
  <2>1. CASE \E e \in Ids : Insert(e) \/ EndInsert(e)
    BY <2>1, InsertIsWrite, EndInsertIsPublish DEF Queue!Next
  <2>2. CASE (\E e \in Ids : Expire(e)) \/ UNCHANGED vars
    BY <2>2, ExpireUnseen
  <2>3. CASE ClaimLock(w) \/ ClaimCommit(w)
    BY <2>3, ClaimUnseen
  <2>4. CASE EndBatch(w) \/ \E e \in Ids : Defer(w, e)
    BY <2>4, HeldBackUnseen
  <2>5. CASE \E e \in Ids : Dispatch(w, e) \/ Outcome(w, e)
    BY <2>5, DispatchIsBegin, ProcessedIsSucceed, FailIsFail DEF Queue!Next, Outcome
  <2>6. CASE Crash(w)
    BY <2>6, CrashIsDie DEF Queue!Next
  <2> QED BY <2>1, <2>2, <2>3, <2>4, <2>5, <2>6 DEF Next, Work
<1> QED BY <1>1, <1>2, <1>3, InitIsQueue, PTL DEF Spec, Queue!Spec

LEMMA ResolvedIsAside ==
  ASSUME OrderInv, SpareInv, NEW w, Workers = {w}, NEW e \in Ids, Resolved(e)
  PROVE  e \notin InHand(w)
<1>1. CASE status[e] = "processed"
  BY <1>1 DEF OrderInv, HandTypes
<1>2. CASE Parked(e) /\ pc[w] # "claiming"
  BY <1>2 DEF Parked, InFlight
<1>3. CASE Parked(e) /\ pc[w] = "claiming"
  <2>1. attempts[e] >= MaxAttempts /\ attempts[e] \in Int /\ MaxAttempts \in Int
    BY <1>3, WholeNumbers DEF Parked, OrderInv, SpareInv
  <2> QED BY <1>3, <2>1 DEF SpareInv, InHand
<1> QED BY <1>1, <1>2, <1>3 DEF Resolved

\* An event that is processed or parked stays so and its handler is not entered again, with
\* the one worker that is deployed, whatever leases run out and whenever it dies: the half of
\* EventuallyResolved that needs no fairness.
THEOREM ResolvedForGood ==
  ASSUME NEW w, Workers = {w}
  PROVE  Spec => [][\A e \in Ids : Resolved(e) => Resolved(e)' /\ begun'[e] = begun[e]]_vars
<1>1. ASSUME OrderInv, SpareInv, Next, NEW e \in Ids, Resolved(e)
      PROVE  Resolved(e)' /\ begun'[e] = begun[e]
  <2>1. e \notin InHand(w) /\ status[e] \in {"pending", "processed"}
    BY <1>1, ResolvedIsAside DEF Resolved, Parked
  <2>2. status'[e] = status[e] /\ attempts'[e] = attempts[e] /\ begun'[e] = begun[e] /\ ~InFlight(e)'
    <3> DEFINE Same == status'[e] = status[e] /\ attempts'[e] = attempts[e] /\ begun'[e] = begun[e] /\ ~InFlight(e)'
    <3>1. ASSUME NEW d \in Ids, Insert(d) \/ EndInsert(d) \/ Expire(d) PROVE Same
      BY <1>1, <2>1, <3>1 DEF Insert, EndInsert, Expire, history, workerVars, InFlight, InHand, OrderInv, RowTypes
    <3>2. CASE ClaimLock(w)
      <4>1. pc'[w] = "claiming"
        BY <1>1, <3>2 DEF ClaimLock, Goto, OrderInv, HandTypes
      <4>2. UNCHANGED <<status, attempts, begun>>
        BY <3>2 DEF ClaimLock, rowVars, history
      <4> QED BY <4>1, <4>2 DEF InFlight
    <3>3. CASE ClaimCommit(w)
      BY <2>1, <3>3 DEF ClaimCommit, history, InFlight, InHand
    <3>4. CASE EndBatch(w) \/ Crash(w)
      BY <1>1, <2>1, <3>4 DEF EndBatch, Crash, Forget, rowVars, history, InFlight, InHand, OrderInv, HandTypes
    <3>5. ASSUME NEW d \in Ids, Defer(w, d) \/ Dispatch(w, d) PROVE Same
      <4>1. d # e /\ d \in InHand(w) /\ InHand(w)' = InHand(w)
        BY <1>1, <2>1, <3>5 DEF Defer, Dispatch, Current, InHand, OrderInv, HandTypes
      <4>2. begun' = begun \/ begun' = [begun EXCEPT ![d] = begun[d] + 1]
        BY <3>5 DEF Defer, Dispatch, history
      <4>3. begun'[e] = begun[e]
        BY <1>1, <4>1, <4>2 DEF SpareInv
      <4>4. UNCHANGED <<status, attempts>>
        BY <3>5 DEF Defer, Dispatch, rowVars
      <4> QED BY <2>1, <4>1, <4>3, <4>4 DEF InFlight
    <3>6. ASSUME NEW d \in Ids, Outcome(w, d) PROVE Same
      <4>1. d # e /\ InHand(w)' \subseteq InHand(w) /\ begun' = begun
        BY <1>1, <2>1, <3>6 DEF Outcome, Processed, Failed, FailedPermanently, Fail, Settle, Current, InHand,
                                OrderInv, HandTypes
      <4>2. CASE Processed(w, d)
        BY <1>1, <2>1, <4>1, <4>2 DEF Processed, InFlight, OrderInv, RowTypes
      <4>3. ASSUME NEW n, NEW b, Fail(w, d, n, b) PROVE Same
        BY <1>1, <2>1, <4>1, <4>3 DEF Fail, InFlight, OrderInv, RowTypes
      <4> QED BY <3>6, <4>2, <4>3 DEF Outcome, Failed, FailedPermanently
    <3> QED BY <1>1, <3>1, <3>2, <3>3, <3>4, <3>5, <3>6 DEF Next, Work
  <2> QED BY <1>1, <2>2 DEF Resolved, Parked
<1>2. OrderInv /\ SpareInv /\ [Next]_vars
      => [\A e \in Ids : Resolved(e) => Resolved(e)' /\ begun'[e] = begun[e]]_vars
  BY <1>1
<1> QED BY <1>2, AlwaysSpare, PTL DEF Spec
=============================================================================
