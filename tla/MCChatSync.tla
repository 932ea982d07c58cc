----------------------------- MODULE MCChatSync -----------------------------
EXTENDS ChatSync

CONSTANTS f1, f2

MCFetches == {f1, f2}
===============================================================================
