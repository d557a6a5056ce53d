-------------------------- MODULE MCConversations ---------------------------
(* Instances of Conversations for TLC.                                      *)
EXTENDS Conversations
CONSTANTS a1, a2
MCApp == {a1, a2}
=============================================================================
