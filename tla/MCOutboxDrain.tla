---------------------------- MODULE MCOutboxDrain ----------------------------
EXTENDS OutboxDrain

CONSTANTS w, a

MCWorkers == {w}
MCPartitions == {a}
===============================================================================
