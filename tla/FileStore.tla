------------------------------ MODULE FileStore ------------------------------
(***************************************************************************)
(* What ploke-io promises of its writes: a write is one step that applies  *)
(* its edit to a content with the expected hash, and that is never undone  *)
(* by another write.  The writes do not see one another half done.  The    *)
(* promise does not cover other programs: a write may start from a content *)
(* that one of them has replaced since the last write of ploke-io.         *)
(*                                                                         *)
(* A content is the sequence of the changes that led to it: writes, and    *)
(* saves by other programs.  What its hash sees of it is left open.        *)
(***************************************************************************)
EXTENDS Naturals, Sequences

CONSTANTS
  Writes,     \* the write requests
  FileOf,     \* the file of each
  Files,
  Saves,      \* what other programs save
  Hash(_)     \* TrackingHash::generate: what a request knows of a content

VARIABLES
  file,       \* the content of each file
  since,      \* the contents it has had since the last write of ploke-io to it
  wanted,     \* the hash that each request expects
  outcome     \* of each request

storeVars == <<file, since, wanted, outcome>>

StoreInit ==
  /\ file = [f \in Files |-> <<>>]
  /\ since = [f \in Files |-> {<<>>}]
  /\ wanted = [w \in Writes |-> Hash(<<>>)]
  /\ outcome = [w \in Writes |-> "unsent"]

\* The request is made with the hash of the content as it is.
Ask(w) ==
  /\ outcome[w] = "unsent"
  /\ outcome' = [outcome EXCEPT ![w] = "open"]
  /\ wanted' = [wanted EXCEPT ![w] = Hash(file[FileOf[w]])]
  /\ UNCHANGED <<file, since>>

Apply(w) ==
  /\ outcome[w] = "open"
  /\ outcome' = [outcome EXCEPT ![w] = "written"]
  /\ \E content \in since[FileOf[w]] :
       /\ Hash(content) = wanted[w]
       /\ file' = [file EXCEPT ![FileOf[w]] = Append(content, w)]
       /\ since' = [since EXCEPT ![FileOf[w]] = {Append(content, w)}]
  /\ UNCHANGED wanted

\* The caller is told that the request failed, and it has no effect.
Refuse(w) ==
  /\ outcome[w] = "open"
  /\ outcome' = [outcome EXCEPT ![w] = "refused"]
  /\ UNCHANGED <<file, since, wanted>>

\* Another program saves the file, with one change more or from scratch.
SaveOutside(f, s) ==
  /\ \E content \in {file[f], <<>>} :
       /\ file' = [file EXCEPT ![f] = Append(content, s)]
       /\ since' = [since EXCEPT ![f] = @ \cup {Append(content, s)}]
  /\ UNCHANGED <<wanted, outcome>>

StoreNext ==
  \/ \E w \in Writes : Ask(w) \/ Apply(w) \/ Refuse(w)
  \/ \E f \in Files, s \in Saves : SaveOutside(f, s)

StoreSpec == StoreInit /\ [][StoreNext]_storeVars

=============================================================================
