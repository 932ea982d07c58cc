-------------------------- MODULE MCNotifications --------------------------
(* Small instances of Notifications. *)
EXTENDS Notifications, TLC

CONSTANTS u1, u2, d1, d2

MCUsers == {u1,u2}
MCDevices == {d1, d2}

\* One each: that a member has both, or none, takes one move.
MCOwners == {f \in [MCDevices -> MCUsers] : f[d1] # f[d2]}
Symmetry == Permutations(MCUsers) \cup Permutations(MCDevices)
=============================================================================
