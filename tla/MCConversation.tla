--------------------------- MODULE MCConversation ---------------------------
(* Conversation with channels of capacity one, so that every process of a   *)
(* turn also waits for the next one.                                        *)
EXTENDS Conversation

\* The first of two replies has more chunks than its channels hold.
MCMaxChunks == <<3, 1>>
MCOneReply == <<3>>
=============================================================================
