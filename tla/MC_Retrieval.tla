---------------------------- MODULE MC_Retrieval ----------------------------
(***************************************************************************)
(* A small instance of Retrieval: version 2 of the file is version 1 with  *)
(* other comments, in version 3 it has lost node 2; node 1 has no vector   *)
(* at first; the query matches all three nodes and is near to 2 and 1.     *)
(***************************************************************************)
EXTENDS Retrieval

CONSTANTS f1, m, question, tool

File == [n \in Nodes |-> f1]
Kind == 1 :> 1 @@ 2 :> 1 @@ 3 :> 2
Present == 1 :> {1, 2, 3} @@ 2 :> {1, 2} @@ 3 :> {1, 2, 3}
Hashes == 0 :> 0 @@ 1 :> 1 @@ 2 :> 1 @@ 3 :> 3
Length == m :> 1
Nearest == <<2, 1>>
Matching == <<1, 3, 2>>

=============================================================================
