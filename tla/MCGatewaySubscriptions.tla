----------------------- MODULE MCGatewaySubscriptions -----------------------
EXTENDS GatewaySubscriptions

CONSTANTS u1, u2, s1, s2

MCUsers == {u1, u2}
MCSockets == {s1, s2}

\* Of one user, or of two: which of the users is no difference.
MCOwners == {[s \in MCSockets |-> u1], [s \in MCSockets |-> IF s = s1 THEN u1 ELSE u2]}
===============================================================================
