--------------------------- MODULE MCConversation ---------------------------
(* Two devices of the member, for TLC. *)
EXTENDS Conversation, TLC

CONSTANTS d1, d2

MCDevices == {d1, d2}
Symmetry == Permutations(MCDevices)
=============================================================================
