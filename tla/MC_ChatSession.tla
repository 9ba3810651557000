--------------------------- MODULE MC_ChatSession ---------------------------
(***************************************************************************)
(* Small instances of ChatSession: two call ids, up to two steps with      *)
(* tool calls, a channel of a few events.                                  *)
(***************************************************************************)
EXTENDS ChatSession

CONSTANTS a, b

OneOrBoth == {{a}, {a, b}}

=============================================================================
