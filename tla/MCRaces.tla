------------------------------ MODULE MCRaces ------------------------------
(* Small instances of Races. *)
EXTENDS Races, TLC

CONSTANTS p1, p2, o, m

MCUsers == {o, m}
MCRole == (o :> "owner") @@ (m :> "member")
MCProcs == {p1, p2}
Symmetry == Permutations(MCProcs)
=============================================================================
