------------------------------ MODULE OutboxDrain ------------------------------
(***************************************************************************)
(* The outbox drain of packages/server/src/worker/drain.ts.  Commands write *)
(* rows of `outbox' in their own transactions; each worker repeats          *)
(* drainOnce: claim a batch under a lease, dispatch its rows in id order,   *)
(* write each outcome on its own, hand back what it held behind a failure.  *)
(*                                                                          *)
(* Time is one bit per row: `held[e]' is next_attempt_at > now(), and       *)
(* Expire lets it pass.  Rows of one claim share the instant of their       *)
(* lease; letting them expire one by one only adds behaviours.              *)
(***************************************************************************)
EXTENDS Integers, FiniteSets

CONSTANTS Workers,     \* machines of the worker role
          Partitions,  \* partition keys
          MaxId,       \* bound: outbox ids a behaviour may allocate
          MaxAttempts, \* MAX_ATTEMPTS
          BatchSize,   \* BATCH_SIZE
          MaxCrashes,  \* bound: deaths of workers, or failures of a whole tick
          SlowBatch    \* whether a lease may end while its holder still works

ASSUME OutboxAssumption == /\ MaxId \in Nat /\ MaxAttempts \in Nat \ {0}
                           /\ BatchSize \in Nat \ {0} /\ MaxCrashes \in Nat
                           /\ SlowBatch \in BOOLEAN

Ids == 1..MaxId

VARIABLES status,    \* per id: its row, as other connections see it
          part,      \* partition_key
          attempts, held,
          pc,        \* per worker: where drainOnce is
          batch,     \* per worker: rows locked by its claim, then still to do
          seen,      \* per worker: `attempts' as its claim returned it
          stalled, deferred,
          crashes,
          before,    \* history: rows of the partition committed when this was written
          begun,     \* history: dispatches begun
          alarmed    \* history: rows captured as worker.outbox.parked

rowVars == <<status, part, attempts, held>>
workerVars == <<pc, batch, seen, stalled, deferred>>
history == <<before, begun, alarmed>>
vars == <<rowVars, workerVars, crashes, history>>

Steps == {"idle", "claiming", "looping", "running"}

Init == /\ status = [e \in Ids |-> "absent"]
        /\ part \in [Ids -> Partitions]
        /\ attempts = [e \in Ids |-> 0]
        /\ held = [e \in Ids |-> FALSE]
        /\ pc = [w \in Workers |-> "idle"]
        /\ batch = [w \in Workers |-> {}]
        /\ seen = [w \in Workers |-> [e \in Ids |-> 0]]
        /\ stalled = [w \in Workers |-> {}]
        /\ deferred = [w \in Workers |-> {}]
        /\ crashes = 0
        /\ before = [e \in Ids |-> {}]
        /\ begun = [e \in Ids |-> 0]
        /\ alarmed = {}
-------------------------------------------------------------------------------
\* Commands.  An id comes from the bigserial when the row is inserted, the row
\* is visible when the command's transaction commits, if it does.
Insert(e) ==
    /\ status[e] = "absent" /\ \A d \in 1..(e - 1) : status[d] # "absent"
    /\ status' = [status EXCEPT ![e] = "inserted"]
    /\ before' = [before EXCEPT ![e] =
                    {d \in 1..(e - 1) : part[d] = part[e] /\ status[d] \in {"pending", "processed"}}]
    /\ UNCHANGED <<part, attempts, held, workerVars, crashes, begun, alarmed>>

EndInsert(e) ==
    /\ status[e] = "inserted"
    /\ \E s \in {"pending", "rolled back"} : status' = [status EXCEPT ![e] = s]
    /\ UNCHANGED <<part, attempts, held, workerVars, crashes, history>>
-------------------------------------------------------------------------------
InHand(w) == batch[w] \union deferred[w]

\* A row under somebody's uncommitted claim.
Locked(e) == \E w \in Workers : pc[w] = "claiming" /\ e \in batch[w]

\* Mutants: no ordering gate; parked rows block too.
ClaimableNoGate(e) == status[e] = "pending" /\ attempts[e] < MaxAttempts /\ ~held[e]
ClaimableParkedBlocks(e) ==
    /\ status[e] = "pending" /\ attempts[e] < MaxAttempts /\ ~held[e]
    /\ ~ \E d \in 1..(e - 1) : /\ part[d] = part[e] /\ status[d] = "pending"
                               /\ attempts[d] >= MaxAttempts \/ held[d]

\* The WHERE of the claim.  A parked row blocks nothing.
Claimable(e) ==
    /\ status[e] = "pending" /\ attempts[e] < MaxAttempts /\ ~held[e]
    /\ ~ \E d \in 1..(e - 1) : /\ part[d] = part[e] /\ status[d] = "pending"
                               /\ attempts[d] < MaxAttempts /\ held[d]

\* The first n of a set of ids.
Lowest(S, n) == {e \in S : Cardinality({d \in S : d < e}) < n}

Goto(w, at) == pc' = [pc EXCEPT ![w] = at]

\* drainOnce returns or dies, and its locals with it.
Forget(w) == /\ Goto(w, "idle")
             /\ batch' = [batch EXCEPT ![w] = {}]
             /\ seen' = [seen EXCEPT ![w] = [e \in Ids |-> 0]]
             /\ stalled' = [stalled EXCEPT ![w] = {}]
             /\ deferred' = [deferred EXCEPT ![w] = {}]

\* The sub-select locks its rows, past those another claim has locked ...
ClaimLock(w) ==
    /\ pc[w] = "idle"
    /\ LET rows == {e \in Ids : Claimable(e) /\ ~Locked(e)}
       IN  /\ rows # {}
           /\ batch' = [batch EXCEPT ![w] = Lowest(rows, BatchSize)]
    /\ Goto(w, "claiming")
    /\ UNCHANGED <<rowVars, seen, stalled, deferred, crashes, history>>

\* Mutant: the attempt is not counted by the claim.
ClaimCommitNoStamp(w) ==
    /\ pc[w] = "claiming"
    /\ held' = [e \in Ids |-> held[e] \/ e \in batch[w]]
    /\ seen' = [seen EXCEPT ![w] = [e \in Ids |-> IF e \in batch[w] THEN attempts[e] + 1 ELSE 0]]
    /\ Goto(w, "looping")
    /\ UNCHANGED <<status, part, attempts, batch, stalled, deferred, crashes, history>>

\* ... and the UPDATE of the same statement stamps attempt and lease.
ClaimCommit(w) ==
    /\ pc[w] = "claiming"
    /\ attempts' = [e \in Ids |-> IF e \in batch[w] THEN attempts[e] + 1 ELSE attempts[e]]
    /\ held' = [e \in Ids |-> held[e] \/ e \in batch[w]]
    /\ seen' = [seen EXCEPT ![w] = [e \in Ids |-> IF e \in batch[w] THEN attempts'[e] ELSE 0]]
    /\ Goto(w, "looping")
    /\ UNCHANGED <<status, part, batch, stalled, deferred, crashes, history>>

\* The next row of the loop: rows go in id order.
Current(w, e) == e \in batch[w] /\ \A d \in batch[w] : e <= d

\* A row whose partition failed earlier in this batch is not run.
Defer(w, e) ==
    /\ pc[w] = "looping" /\ Current(w, e)
    /\ part[e] \in stalled[w]
    /\ deferred' = [deferred EXCEPT ![w] = @ \union {e}]
    /\ batch' = [batch EXCEPT ![w] = @ \ {e}]
    /\ UNCHANGED <<rowVars, pc, seen, stalled, crashes, history>>

Dispatch(w, e) ==
    /\ pc[w] = "looping" /\ Current(w, e)
    /\ part[e] \notin stalled[w]
    /\ Goto(w, "running")
    /\ begun' = [begun EXCEPT ![e] = @ + 1]
    /\ UNCHANGED <<rowVars, batch, seen, stalled, deferred, crashes, before, alarmed>>

\* The handler came back and its outcome is written: the loop goes on.
Settle(w, e) ==
    /\ pc[w] = "running" /\ Current(w, e)
    /\ Goto(w, "looping")
    /\ batch' = [batch EXCEPT ![w] = @ \ {e}]
    /\ UNCHANGED <<part, seen, deferred, crashes, before, begun>>

Processed(w, e) ==
    /\ Settle(w, e)
    /\ status' = [status EXCEPT ![e] = "processed"]
    /\ held' = [held EXCEPT ![e] = FALSE]
    /\ UNCHANGED <<attempts, stalled, alarmed>>

\* The catch: the row waits out a delay, or is parked, and its partition stops.
Fail(w, e, n, delayed) ==
    /\ Settle(w, e)
    /\ attempts' = [attempts EXCEPT ![e] = n]
    /\ held' = [held EXCEPT ![e] = delayed]
    /\ stalled' = [stalled EXCEPT ![w] = @ \union {part[e]}]
    /\ alarmed' = IF n >= MaxAttempts THEN alarmed \union {e} ELSE alarmed
    /\ UNCHANGED status

Failed(w, e) == Fail(w, e, seen[w][e], TRUE)

\* PermanentEffectError: straight to the floor, no delay.
FailedPermanently(w, e) == Fail(w, e, MaxAttempts, FALSE)

\* releaseUnrun, and the tick is over.
EndBatch(w) ==
    /\ pc[w] = "looping" /\ batch[w] = {}
    /\ attempts' = [e \in Ids |-> IF e \in deferred[w] THEN attempts[e] - 1 ELSE attempts[e]]
    /\ held' = [e \in Ids |-> held[e] /\ e \notin deferred[w]]
    /\ Forget(w)
    /\ UNCHANGED <<status, part, crashes, history>>
-------------------------------------------------------------------------------
\* The process dies, or drainOnce throws because an outcome could not be
\* written: an open claim rolls back, a committed one stands.
Crash(w) ==
    /\ pc[w] # "idle" /\ crashes < MaxCrashes
    /\ crashes' = crashes + 1
    /\ Forget(w)
    /\ UNCHANGED <<rowVars, history>>

\* now() passes next_attempt_at.
Expire(e) ==
    /\ held[e]
    /\ SlowBatch \/ \A w \in Workers : e \notin InHand(w)
    /\ held' = [held EXCEPT ![e] = FALSE]
    /\ UNCHANGED <<status, part, attempts, workerVars, crashes, history>>

Outcome(w, e) == Processed(w, e) \/ Failed(w, e) \/ FailedPermanently(w, e)

Work(w) == \/ ClaimLock(w) \/ ClaimCommit(w) \/ EndBatch(w)
           \/ \E e \in Ids : Defer(w, e) \/ Dispatch(w, e) \/ Outcome(w, e)

Next == \/ \E e \in Ids : Insert(e) \/ EndInsert(e) \/ Expire(e)
        \/ \E w \in Workers : Work(w) \/ Crash(w)

Spec == Init /\ [][Next]_vars

\* startDrainLoop ticks for ever, a handler returns or throws, time passes.
FairSpec == /\ Spec
            /\ \A w \in Workers : WF_vars(Work(w))
            /\ \A e \in Ids : WF_vars(Expire(e))
-------------------------------------------------------------------------------
TypeOK ==
    /\ status \in [Ids -> {"absent", "inserted", "pending", "processed", "rolled back"}]
    /\ part \in [Ids -> Partitions]
    /\ attempts \in [Ids -> 0..MaxAttempts]
    /\ held \in [Ids -> BOOLEAN]
    /\ pc \in [Workers -> Steps]
    /\ batch \in [Workers -> SUBSET Ids]
    /\ seen \in [Workers -> [Ids -> 0..MaxAttempts]]
    /\ stalled \in [Workers -> SUBSET Partitions]
    /\ deferred \in [Workers -> SUBSET Ids]
    /\ crashes \in 0..MaxCrashes
    /\ before \in [Ids -> SUBSET Ids]
    /\ begun \in [Ids -> Nat]
    /\ alarmed \subseteq Ids

InFlight(e) == \E w \in Workers : pc[w] # "claiming" /\ e \in InHand(w)
Parked(e) == status[e] = "pending" /\ attempts[e] >= MaxAttempts /\ ~InFlight(e)
Resolved(e) == status[e] = "processed" \/ Parked(e)

\* A handler never runs while an event its partition already held when this one
\* was written is unresolved: no effect overtakes its cause.
InOrder ==
    \A w \in Workers, e \in Ids :
        pc[w] = "running" /\ Current(w, e) => \A d \in before[e] : Resolved(d)

\* However often the worker dies in the middle, no handler is entered more than
\* MAX_ATTEMPTS times for one event.
AttemptBudget == \A e \in Ids : begun[e] <= MaxAttempts

\* An event reported as parked is never run again.
ParkedNeverRuns ==
    [][\A e \in alarmed : begun'[e] = begun[e] /\ attempts'[e] = attempts[e]]_vars

\* Two workers with live leases never have the same row in hand.
OneRunner ==
    \A v, w \in Workers : v # w => InHand(v) \intersect InHand(w) = {}

\* `attempts' counts dispatches begun: a row held back behind a failure is
\* charged nothing for it.
AttemptsCountRuns ==
    \A e \in Ids : InFlight(e) \/ attempts[e] = begun[e] \/ e \in alarmed

\* Every committed event is processed or parked in the end, and stays so.
EventuallyResolved == \A e \in Ids : status[e] = "pending" ~> []Resolved(e)
===============================================================================
