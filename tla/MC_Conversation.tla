--------------------------- MODULE MC_Conversation ---------------------------
(***************************************************************************)
(* Small instances of Conversation: two questions, one tool task.          *)
(***************************************************************************)
EXTENDS Conversation

CONSTANTS n1

TextOrNone == {<<"Completed", 1>>, <<"Completed", 0>>}
TextOnly == {<<"Completed", 1>>}

=============================================================================
