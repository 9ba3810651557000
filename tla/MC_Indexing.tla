----------------------------- MODULE MC_Indexing -----------------------------
(***************************************************************************)
(* Small instances of Indexing: functions 1 and 2, constants 3 and 4.      *)
(* Version 2 of a file is version 1 with other comments; in version 3 file *)
(* f1 has lost node 1 and gained node 4.                                   *)
(***************************************************************************)
EXTENDS Indexing, TLC

CONSTANTS f1, f2, ma, mb, mc

File == 1 :> f1 @@ 2 :> f2 @@ 3 :> f1 @@ 4 :> f1
Kind == 1 :> 1 @@ 2 :> 1 @@ 3 :> 2 @@ 4 :> 2
\* An edit that changes what the items say and leaves them all.
Steady == [n \in Nodes |-> {1, 2}]
Distinct == [v \in 0 .. Versions |-> v]

Present == 1 :> {1, 2} @@ 2 :> {1, 2, 3} @@ 3 :> {1, 2, 3} @@ 4 :> {3}
Hashes == 0 :> 0 @@ 1 :> 1 @@ 2 :> 1 @@ 3 :> 3

\* mc, where there is one, has longer vectors.
Lengths == [m \in Models |-> IF m = mc THEN 2 ELSE 1]

=============================================================================
