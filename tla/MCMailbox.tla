------------------------------ MODULE MCMailbox ------------------------------
(***************************************************************************)
(* Instances of ConversationMailbox for TLC: a few messages and one action *)
(* of one conversation.                                                    *)
(***************************************************************************)
EXTENDS ConversationMailbox

=============================================================================
