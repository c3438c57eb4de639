--------------------------- MODULE MCConversation ---------------------------
(***************************************************************************)
(* TLC instance of Conversation.                                           *)
(***************************************************************************)
EXTENDS Conversation
=============================================================================
