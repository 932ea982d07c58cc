----------------------------- MODULE MCReactions -----------------------------
EXTENDS Reactions

CONSTANTS u1, e1, e2, e3, p1, p2

MCUsers == {u1}
MCEmojis == {e1, e2, e3}
MCProcs == {p1, p2}
===============================================================================
