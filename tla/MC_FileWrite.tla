---------------------------- MODULE MC_FileWrite ----------------------------
(***************************************************************************)
(* Small instances of FileWrite: batch x edits one file twice, y edits it  *)
(* once, and another one if there is one.                                  *)
(***************************************************************************)
EXTENDS FileWrite

CONSTANTS x, y, fa, fb, save, undo

TwiceOrTwoFiles == [b \in Batches |-> IF b = x THEN <<fa, fa>> ELSE <<fb, fa>>]
OneEach == [b \in Batches |-> <<fa>>]
ACommentSaved == {save}
SecondOfX == {<<x, 2>>, save}

=============================================================================
