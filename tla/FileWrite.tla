------------------------------ MODULE FileWrite ------------------------------
(***************************************************************************)
(* The write path of ploke-io: the I/O manager spawns a task for each      *)
(* batch, the task runs process_one_write for one request after the other, *)
(* and a lock for each path keeps the writes of different batches apart.   *)
(* Other programs save the same files without regard for the lock.         *)
(*                                                                         *)
(* The writes implement FileStore, where each of them is a single step.    *)
(***************************************************************************)
EXTENDS Naturals, Sequences

CONSTANTS
  Batches,     \* the tasks, one for each batch
  Requests,    \* the requests of each batch: the sequence of the files they are for
  Files,
  Saves,       \* what other programs save, each at most once
  Reverts,     \* the saves that begin from the original content of the file again
  Cosmetic,    \* the changes, <<b, i>> or saves, to comments and white space only
  MaxCrashes,  \* bound: restarts of the program
  None         \* no lock holder

ASSUME ConstantsAssumption ==
  /\ Requests \in [Batches -> Seq(Files)]
  /\ Reverts \subseteq Saves
  /\ MaxCrashes \in Nat
  /\ None \notin Batches

\* <<b, i>> is request i of batch b.
Writes == UNION { {b} \X DOMAIN Requests[b] : b \in Batches }
FileOf == [w \in Writes |-> Requests[w[1]][w[2]]]

VARIABLES
  file,        \* the content of each file, by the changes that led to it
  lock,        \* FILE_LOCKS
  pc,          \* where the task of each batch is
  pos,         \* the request it works on
  seen,        \* the content it has read
  madeFor,     \* the content each request was made for; the request has its hash
  outcome,     \* the result of each request
  saved,       \* the saves that other programs have made
  since,       \* history: the contents of each file since the last rename
  crashes

vars == <<file, lock, pc, pos, seen, madeFor, outcome, saved, since, crashes>>

\* TrackingHash::generate is of the tokens: it does not see the cosmetic changes.
IsVisible(x) == x \notin Cosmetic
Tokens(content) ==
  LET upTo[n \in 0 .. Len(content)] ==
        IF n = 0 THEN <<>>
        ELSE IF IsVisible(content[n]) THEN Append(upTo[n - 1], content[n])
        ELSE upTo[n - 1]
  IN  upTo
Hash(content) == Tokens(content)[Len(content)]

Store == INSTANCE FileStore WITH wanted <- [w \in Writes |-> Hash(madeFor[w])]

Current(b) == <<b, pos[b]>>
Path(b) == Requests[b][pos[b]]
MoreRequests(b) == pos[b] <= Len(Requests[b])

\* The result of the request, and on to the next one of the batch.
Result(b, how) ==
  /\ outcome' = [outcome EXCEPT ![Current(b)] = how]
  /\ pc' = [pc EXCEPT ![b] = "lock"]
  /\ pos' = [pos EXCEPT ![b] = @ + 1]
  /\ seen' = [seen EXCEPT ![b] = <<>>]

(***************************************************************************)
(* The caller: its requests are resolved one by one, and sent as a batch.  *)
(***************************************************************************)

MakeRequest(b) ==
  /\ pc[b] = "make" /\ MoreRequests(b)
  /\ madeFor' = [madeFor EXCEPT ![Current(b)] = file[Path(b)]]
  /\ outcome' = [outcome EXCEPT ![Current(b)] = "open"]
  /\ pos' = [pos EXCEPT ![b] = @ + 1]
  /\ UNCHANGED <<file, lock, pc, seen, saved, since, crashes>>

WriteSnippetBatch(b) ==
  /\ pc[b] = "make" /\ ~MoreRequests(b)
  /\ pc' = [pc EXCEPT ![b] = "lock"]
  /\ pos' = [pos EXCEPT ![b] = 1]
  /\ UNCHANGED <<file, lock, seen, madeFor, outcome, saved, since, crashes>>

(***************************************************************************)
(* process_one_write.                                                      *)
(***************************************************************************)

\* The path is not absolute, or not below the roots.
RefusePath(b) ==
  /\ pc[b] = "lock" /\ MoreRequests(b)
  /\ Result(b, "refused")
  /\ UNCHANGED <<file, lock, madeFor, saved, since, crashes>>

\* A slip StoreSpec notices: the lock is not waited for.
LockShared(b) ==
  /\ pc[b] = "lock" /\ MoreRequests(b)
  /\ lock' = [lock EXCEPT ![Path(b)] = b]
  /\ pc' = [pc EXCEPT ![b] = "read"]
  /\ UNCHANGED <<file, pos, seen, madeFor, outcome, saved, since, crashes>>

Lock(b) ==
  /\ pc[b] = "lock" /\ MoreRequests(b)
  /\ lock[Path(b)] = None
  /\ lock' = [lock EXCEPT ![Path(b)] = b]
  /\ pc' = [pc EXCEPT ![b] = "read"]
  /\ UNCHANGED <<file, pos, seen, madeFor, outcome, saved, since, crashes>>

Read(b) ==
  /\ pc[b] = "read"
  /\ seen' = [seen EXCEPT ![b] = file[Path(b)]]
  /\ pc' = [pc EXCEPT ![b] = "check"]
  /\ UNCHANGED <<file, lock, pos, madeFor, outcome, saved, since, crashes>>

\* A slip OnePerVersion notices: the hashes are not compared.
StageUnchecked(b) ==
  /\ pc[b] = "check"
  /\ pc' = [pc EXCEPT ![b] = "rename"]
  /\ UNCHANGED <<file, lock, pos, seen, madeFor, outcome, saved, since, crashes>>

\* The hash is the expected one; the spliced content is in the temporary file.
StageTmp(b) ==
  /\ pc[b] = "check"
  /\ Hash(seen[b]) = Hash(madeFor[Current(b)])
  /\ pc' = [pc EXCEPT ![b] = "rename"]
  /\ UNCHANGED <<file, lock, pos, seen, madeFor, outcome, saved, since, crashes>>

\* A slip TypeOK and BatchEnds notice: an error keeps the lock.
RefuseLocked(b) ==
  /\ pc[b] \in {"read", "check", "rename"}
  /\ Result(b, "refused")
  /\ UNCHANGED <<file, lock, madeFor, saved, since, crashes>>

\* The file cannot be read or parsed, the hash is another one, the range does not
\* fit, the temporary file cannot be written or renamed: the early return drops
\* the lock.
Refuse(b) ==
  /\ pc[b] \in {"read", "check", "rename"}
  /\ Result(b, "refused")
  /\ lock' = [lock EXCEPT ![Path(b)] = None]
  /\ UNCHANGED <<file, madeFor, saved, since, crashes>>

\* The new content is that of the temporary file, whatever the file holds by now.
Rename(b) ==
  LET new == Append(seen[b], Current(b)) IN
  /\ pc[b] = "rename"
  /\ file' = [file EXCEPT ![Path(b)] = new]
  /\ since' = [since EXCEPT ![Path(b)] = {new}]
  /\ outcome' = [outcome EXCEPT ![Current(b)] = "written"]
  /\ pc' = [pc EXCEPT ![b] = "sync"]
  /\ UNCHANGED <<lock, pos, seen, madeFor, saved, crashes>>

\* The directory is synced, whether that works or not, and the lock dropped.
SyncParent(b) ==
  /\ pc[b] = "sync"
  /\ Result(b, "written")
  /\ lock' = [lock EXCEPT ![Path(b)] = None]
  /\ UNCHANGED <<file, madeFor, saved, since, crashes>>

EndBatch(b) ==
  /\ pc[b] = "lock" /\ ~MoreRequests(b)
  /\ pc' = [pc EXCEPT ![b] = "done"]
  /\ UNCHANGED <<file, lock, pos, seen, madeFor, outcome, saved, since, crashes>>

(***************************************************************************)
(* The environment.                                                        *)
(***************************************************************************)

\* Another program saves the file, from a copy of its present or of its original
\* content.
SaveOutside(f, s) ==
  /\ s \notin saved
  /\ saved' = saved \cup {s}
  /\ LET new == Append(IF s \in Reverts THEN <<>> ELSE file[f], s) IN
     /\ file' = [file EXCEPT ![f] = new]
     /\ since' = [since EXCEPT ![f] = @ \cup {new}]
  /\ UNCHANGED <<lock, pc, pos, seen, madeFor, outcome, crashes>>

\* The tasks are gone, and so are the locks; temporary files stay behind.
Crash ==
  /\ crashes < MaxCrashes
  /\ crashes' = crashes + 1
  /\ pc' = [b \in Batches |-> IF pc[b] = "make" THEN "make" ELSE "done"]
  /\ lock' = [f \in Files |-> None]
  /\ UNCHANGED <<file, pos, seen, madeFor, outcome, saved, since>>

Init ==
  /\ file = [f \in Files |-> <<>>]
  /\ lock = [f \in Files |-> None]
  /\ pc = [b \in Batches |-> "make"]
  /\ pos = [b \in Batches |-> 1]
  /\ seen = [b \in Batches |-> <<>>]
  /\ madeFor = [w \in Writes |-> <<>>]
  /\ outcome = [w \in Writes |-> "unsent"]
  /\ saved = {}
  /\ since = [f \in Files |-> {<<>>}]
  /\ crashes = 0

ProcessOneWrite(b) ==
  \/ RefusePath(b) \/ Lock(b) \/ Read(b) \/ StageTmp(b) \/ Refuse(b) \/ Rename(b)
  \/ SyncParent(b)

Next ==
  \/ \E b \in Batches :
       MakeRequest(b) \/ WriteSnippetBatch(b) \/ ProcessOneWrite(b) \/ EndBatch(b)
  \/ \E f \in Files, s \in Saves : SaveOutside(f, s)
  \/ Crash

Spec == Init /\ [][Next]_vars

\* tokio runs each task that can go on, and its mutex is fair.
Fairness ==
  \A b \in Batches :
    /\ SF_vars(Lock(b))
    /\ WF_vars(Read(b) \/ StageTmp(b) \/ Refuse(b) \/ Rename(b) \/ SyncParent(b))
    /\ WF_vars(EndBatch(b))

FairSpec == Spec /\ Fairness

(***************************************************************************)
(* Properties.                                                             *)
(***************************************************************************)

Holding == {"read", "check", "rename", "sync"}

\* The shape of the state; a lock is held by the task that is inside
\* process_one_write for that path, and by nobody else.
TypeOK ==
  /\ \A f \in Files : \A b \in Batches :
       lock[f] = b <=> pc[b] \in Holding /\ Path(b) = f
  /\ lock \in [Files -> Batches \cup {None}]
  /\ \A f \in Files : file[f] \in since[f]
  /\ pc \in [Batches -> {"make", "lock", "done"} \cup Holding]
  /\ pos \in [Batches -> Nat]
  /\ \A b \in Batches : pos[b] \in 1 .. Len(Requests[b]) + 1
  /\ outcome \in [Writes -> {"unsent", "open", "written", "refused"}]
  /\ saved \subseteq Saves /\ crashes \in Nat

\* Of the requests that were made for one version of a file at most one is
\* written, whether they are in one batch or in several: the spans of the others
\* are off by then.  Only an edit that the hash does not see lets another one
\* through, or a program that puts the file back.
OnePerVersion ==
  saved \cap Reverts = {} =>
    \A v, w \in Writes :
      /\ v # w /\ FileOf[v] = FileOf[w]
      /\ outcome[v] = "written" /\ outcome[w] = "written"
      /\ Hash(madeFor[v]) = Hash(madeFor[w])
      => v \in Cosmetic \/ w \in Cosmetic

\* The write path implements FileStore: each write that reports success was one
\* atomic step, none undoes another one or is left half done by an error or a
\* crash, and those that report an error have changed nothing.
StoreSpec == Store!StoreSpec

\* A batch that was sent is answered: no error path keeps a lock that another
\* request, of this batch or of another one, waits for.
BatchEnds == \A b \in Batches : pc[b] = "lock" ~> pc[b] = "done"

\* The content that a write puts its splice into is the one that its byte span was
\* made for.
SplicesWhatItWasMadeFor ==
  \A b \in Batches : pc[b] = "rename" => seen[b] = madeFor[Current(b)]

=============================================================================
