---------------------------- MODULE MCMembership ----------------------------
EXTENDS Membership, TLC

CONSTANTS p1, p2

MCUsers == 1..3
MCRoster == (1 :> "owner") @@ (2 :> "admin") @@ (3 :> "none")
MCProcs == {p1, p2}
Symmetry == Permutations(MCProcs)
===============================================================================
