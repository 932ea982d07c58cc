------------------------------ MODULE MCPolls ------------------------------
(* Small instances of Polls. *)
EXTENDS Polls, TLC

CONSTANTS u1, u2, o1, o2, p1, p2, w1, w2

MCUsers == {u1, u2}
MCOptions == {o1, o2}
MCProcs == {p1, p2}
MCWorkers == {w1, w2}
Symmetry == Permutations(MCUsers) \cup Permutations(MCOptions) \cup Permutations(MCProcs) \cup Permutations(MCWorkers)
=============================================================================
