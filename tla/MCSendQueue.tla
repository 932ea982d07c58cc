----------------------------- MODULE MCSendQueue -----------------------------
EXTENDS SendQueue

CONSTANTS m1

MCMessages == {m1}
===============================================================================
