--------------------------- MODULE MCConversation ---------------------------
(* Conversation with a cap and a compaction threshold a few rounds reach. *)
EXTENDS Conversation
=============================================================================
