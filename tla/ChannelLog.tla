------------------------------ MODULE ChannelLog ------------------------------
(***************************************************************************)
(* What a channel's log promises to the rest of the system, with no        *)
(* transaction, lock or retry in sight: one entry per idempotency key,     *)
(* placed at the next seq, and a revision that every later change of an    *)
(* entry moves past everything a reader may already have seen.             *)
(* MessageLog implements it, and so do the server that ChatSync reads from *)
(* and the log that the sends of SendQueue leave behind.                   *)
(***************************************************************************)
EXTENDS Integers

CONSTANTS Users,    \* who may send
          Keys      \* client-generated message ids (or derived ones)

VARIABLES entries,  \* the log: [seq, sender, key, rev]
          top,      \* the highest seq given out
          rev,      \* the highest revision given out
          open      \* FALSE once the channel is deleted

logVars == <<entries, top, rev, open>>

Entry == [seq: Nat \ {0}, sender: Users, key: Keys, rev: Nat \ {0}]

Init == entries = {} /\ top = 0 /\ rev = 0 /\ open = TRUE

\* A message enters the log once, whatever the number of attempts to send it.
Append(u, k) ==
    /\ open
    /\ \A e \in entries : e.sender # u \/ e.key # k
    /\ entries' = entries \union
                    {[seq |-> top + 1, sender |-> u, key |-> k, rev |-> rev + 1]}
    /\ top' = top + 1
    /\ rev' = rev + 1
    /\ UNCHANGED open

\* An entry changes in place: it keeps its address and its author, and its
\* revision moves above every revision given out before.
Change(s) ==
    /\ open
    /\ entries' = {IF e.seq = s THEN [e EXCEPT !.rev = rev + 1] ELSE e : e \in entries}
    /\ rev' = rev + 1
    /\ UNCHANGED <<top, open>>

Close ==
    /\ open
    /\ open' = FALSE
    /\ entries' = {}
    /\ UNCHANGED <<top, rev>>

Next == \/ \E u \in Users, k \in Keys : Append(u, k)
        \/ \E s \in 1..top : Change(s)
        \/ Close

Spec == Init /\ [][Next]_logVars
===============================================================================
