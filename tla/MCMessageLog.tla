---------------------------- MODULE MCMessageLog ----------------------------
EXTENDS MessageLog

CONSTANTS u1, k1, k2, p1, p2

MCUsers == {u1}
MCKeys == {k1, k2}
MCProcs == {p1, p2}
===============================================================================
