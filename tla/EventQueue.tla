------------------------------- MODULE EventQueue -------------------------------
(***************************************************************************)
(* What the outbox promises to the commands that write events and to the   *)
(* handlers that take them, with no claim, lease, batch or clock in sight: *)
(* one event at a time, none before what its queue already held when it    *)
(* was written is settled, each a bounded number of times, and a settled   *)
(* one never again.  A death of the consumer may cost events that were     *)
(* waiting one of their tries, never more than it had taken.               *)
(* OutboxDrain implements it when one worker drains it.                    *)
(***************************************************************************)
EXTENDS Integers

CONSTANTS Events, Queues,
          Tries,  \* how often an event may be tried
          Hands   \* sets of events the consumer may have taken when it dies

VARIABLES state,  \* per event: absent, written, void or waiting; then running, done
          queue,  \* the partition it belongs to
          causes, \* what its queue held when it was written
          spent   \* tries begun, or lost in a death

queueVars == <<state, queue, causes, spent>>

Init == /\ state = [e \in Events |-> "absent"]
        /\ queue \in [Events -> Queues]
        /\ causes = [e \in Events |-> {}]
        /\ spent = [e \in Events |-> 0]

GivenUp(e) == state[e] = "waiting" /\ spent[e] >= Tries
Settled(e) == state[e] = "done" \/ GivenUp(e)

Goto(e, at) == state' = [state EXCEPT ![e] = at]

Write(e) ==
    /\ state[e] = "absent"
    /\ Goto(e, "written")
    /\ causes' = [causes EXCEPT ![e] = {d \in Events : /\ queue[d] = queue[e]
                                                       /\ state[d] \in {"waiting", "running", "done"}}]
    /\ UNCHANGED <<queue, spent>>

Publish(e) ==
    /\ state[e] = "written"
    /\ Goto(e, "waiting") \/ Goto(e, "void")
    /\ UNCHANGED <<queue, causes, spent>>

Begin(e) ==
    /\ state[e] = "waiting" /\ spent[e] < Tries
    /\ \A d \in Events : state[d] # "running"
    /\ \A d \in causes[e] : Settled(d)
    /\ Goto(e, "running")
    /\ spent' = [spent EXCEPT ![e] = @ + 1]
    /\ UNCHANGED <<queue, causes>>

Succeed(e) ==
    /\ state[e] = "running"
    /\ Goto(e, "done")
    /\ UNCHANGED <<queue, causes, spent>>

\* It waits for another try, when it has one left, or is given up for good.
Fail(e) ==
    /\ state[e] = "running"
    /\ Goto(e, "waiting")
    /\ \E n \in {spent[e], Tries} : spent' = [spent EXCEPT ![e] = n]
    /\ UNCHANGED <<queue, causes>>

\* The consumer dies with these events taken and not begun.
Die(taken) ==
    /\ \A e \in taken : state[e] = "waiting" /\ spent[e] < Tries
    /\ state' = [e \in Events |-> IF state[e] = "running" THEN "waiting" ELSE state[e]]
    /\ spent' = [e \in Events |-> IF e \in taken THEN spent[e] + 1 ELSE spent[e]]
    /\ UNCHANGED <<queue, causes>>

Next == \/ \E e \in Events : Write(e) \/ Publish(e) \/ Begin(e) \/ Succeed(e) \/ Fail(e)
        \/ \E taken \in Hands : Die(taken)

Spec == Init /\ [][Next]_queueVars
===============================================================================
