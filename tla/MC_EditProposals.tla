-------------------------- MODULE MC_EditProposals --------------------------
(***************************************************************************)
(* Small instances of EditProposals.  Call c1 edits the files fa and fb,   *)
(* c2 overlaps it in fa, c3 edits fa elsewhere.                            *)
(***************************************************************************)
EXTENDS EditProposals, TLC

CONSTANTS c1, c2, c3, fa, fb

Edit(f, l, h) == [file |-> f, lo |-> l, hi |-> h]

\* Byte spans; the edit of c2 is an empty span.
Edits1 == (c1 :> <<Edit(fa, 0, 4)>>) @@ (c2 :> <<Edit(fa, 3, 3)>>) @@ (c3 :> <<Edit(fa, 4, 8)>>)
Edits2 == (c1 :> <<Edit(fa, 0, 4), Edit(fb, 2, 6)>>) @@ (c2 :> <<Edit(fa, 3, 3)>>)

OneFile == [c \in Calls |-> Edits1[c]]
TwoFiles == [c \in Calls |-> Edits2[c]]

\* The second edit of c1 changes a comment.
SecondEdit == {<<c1, 2>>}

\* Each call in a chat step of its own, or all of them in one step.
OwnRequest == [c \in Calls |-> IF c = c1 THEN 1 ELSE IF c = c2 THEN 2 ELSE 3]
OneStep == [c \in Calls |-> 1]

=============================================================================
