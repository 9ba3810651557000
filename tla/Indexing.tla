------------------------------- MODULE Indexing -------------------------------
(***************************************************************************)
(* How the code graph gets its vectors and keeps them true while files     *)
(* change and the embedding model is switched.                             *)
(*                                                                         *)
(* Actors.  Whoever edits files; the state manager, which scans for        *)
(* changes, switches the model and starts runs; the runs, all on the one   *)
(* IndexerTask and its cursors; for each run the wrapper index_workspace,  *)
(* which follows the statuses that all runs broadcast; and the wrapper's   *)
(* callback thread.                                                        *)
(*                                                                         *)
(* Left out: the keyword index, which is fed here and searched elsewhere;  *)
(* the control channel of a run, whose sender is dropped at once; the HNSW *)
(* index, and the failure to create it after the loop; lag in the          *)
(* broadcast channel; a file that cannot be read, which is refused as one  *)
(* that has changed is.                                                    *)
(***************************************************************************)
EXTENDS CodeGraph, Sequences

CONSTANTS
  Runs,        \* bound: the runs there can be, each started once
  BatchSize,   \* effective_batch_size
  MaxUpsets,   \* bound: edits, switches of the model, failures of a run and starts of one
               \* beside another one, taken together
  FirstModel,
  Edited,      \* the files that are edited
  Commands     \* what the user does: "index", "scan", "update", "switch"

ASSUME IndexingAssumption ==
  /\ BatchSize \in Nat \ {0} /\ MaxUpsets \in Nat
  /\ FirstModel \in Models /\ Edited \subseteq Files
  /\ Commands \subseteq {"index", "scan", "update", "switch"}

VARIABLES
  disk,       \* the version of each file
  graph,
  active,     \* the embedding set the runtime and the database share
  processor,  \* the runtime's embedder
  cursors, totalProcessed,  \* IndexerTask
  run,
  wrapper,
  manager,    \* where the state manager is in the command it handles
  reindex,    \* how many ReIndex events are on their way
  upsets,
  excused,    \* history: vectors known to be of another text than their nodes
  swapped     \* history: the model was switched while a run was at work

envVars == <<upsets, excused, swapped>>
taskVars == <<cursors, totalProcessed>>
modelVars == <<active, processor>>
vars == <<disk, graph, modelVars, taskVars, run, wrapper, manager, reindex, envVars>>

NoBatch == [n \in {} |-> 0]
Idle == [step |-> "idle"]

\* alone, set, behind, skipped, crowded and switched are history: whether another run
\* was there at the same time, the active set and the counted nodes behind the cursor at
\* the count, the nodes without a snippet, whether a node was fetched that was not
\* counted, and whether the model was switched since the count.
NewRun ==
  [pc |-> "free", counted |-> {}, recent |-> 0, kind |-> 1, cursor |-> 0, fetched |-> 0,
   batch |-> NoBatch, by |-> FirstModel, status |-> "Running",
   alone |-> TRUE, set |-> FirstModel, behind |-> {}, skipped |-> {},
   crowded |-> FALSE, switched |-> FALSE]

NewWrapper == [over |-> "no", inbox |-> <<>>, thread |-> "up"]

AtWork(r) == run[r].pc \notin {"free", "ended"}
Followed(r) == run[r].pc \notin {"free", "parse"} /\ wrapper[r].over = "no"

Init ==
  /\ disk = [f \in Files |-> 1] /\ graph = EmptyGraph
  /\ active = FirstModel /\ processor = FirstModel
  /\ cursors = [k \in 1 .. Kinds |-> 0] /\ totalProcessed = 0
  /\ run = [r \in Runs |-> NewRun] /\ wrapper = [r \in Runs |-> NewWrapper]
  /\ manager = Idle /\ reindex = 0
  /\ upsets = 0 /\ excused = {} /\ swapped = FALSE

(***************************************************************************)
(* The state manager and the world.                                        *)
(***************************************************************************)

Upset == upsets < MaxUpsets /\ upsets' = upsets + 1

Edit(f) ==
  /\ f \in Edited
  /\ Upset
  /\ \E v \in disk[f] + 1 .. Versions : disk' = [disk EXCEPT ![f] = v]
  /\ UNCHANGED <<graph, modelVars, taskVars, run, wrapper, manager, reindex, excused, swapped>>

\* A run starts in a task of its own, first with the parse if it needs one.
Spawn(r, pc) ==
  LET others == {q \in Runs : AtWork(q) \/ Followed(q)} IN
  /\ IF others = {} THEN UNCHANGED upsets ELSE Upset
  /\ UNCHANGED <<excused, swapped>>
  /\ run[r].pc = "free" /\ \A q \in Runs : q < r => run[q].pc # "free"
  /\ run' = [q \in Runs |->
       IF q = r THEN [run[r] EXCEPT !.pc = pc, !.alone = (others = {})]
       ELSE IF q \in others THEN [run[q] EXCEPT !.alone = FALSE] ELSE run[q]]

Index(r) ==
  /\ "index" \in Commands /\ manager = Idle
  /\ Spawn(r, "parse")
  /\ UNCHANGED <<disk, graph, modelVars, taskVars, wrapper, manager, reindex>>

\* The answer of the interface to a scan that found changes.
ReIndex(r) ==
  /\ reindex > 0 /\ manager = Idle
  /\ reindex' = reindex - 1
  /\ Spawn(r, "count")
  /\ UNCHANGED <<disk, graph, modelVars, taskVars, wrapper, manager>>

\* scan_changes_batch compares the hash of each file with the graph's.  A scan is only
\* made while there is a run left for it to start (a bound).
StartScan(then) ==
  LET changed == {f \in Files : graph.parsed[f] # 0 /\ HashOf[graph.parsed[f]] # HashOf[disk[f]]} IN
  /\ then \in Commands /\ manager = Idle
  /\ \E r \in Runs : run[r].pc = "free"
  /\ changed # {}
  /\ manager' = [step |-> "parse", changed |-> changed, then |-> then]
  /\ UNCHANGED <<disk, graph, modelVars, taskVars, run, wrapper, reindex, envVars>>

ScanParse ==
  /\ manager.step = "parse"
  /\ graph' = Transform(graph, manager.changed, disk)
  /\ manager' = [manager EXCEPT !.step = "retract"]
  /\ UNCHANGED <<disk, modelVars, taskVars, run, wrapper, reindex, envVars>>

\* Only the active set is looked after.
ScanRetract ==
  /\ manager.step = "retract"
  /\ graph' = RetractFiles(graph, active, manager.changed)
  /\ excused' = excused \cup
       {v \in (Models \ {active}) \X Nodes :
          IsLive(graph, v[1], v[2]) /\ FileOf[v[2]] \in manager.changed}
  /\ IF manager.then = "scan" THEN manager' = Idle /\ reindex' = reindex + 1
     ELSE manager' = [step |-> "update"] /\ UNCHANGED reindex
  /\ UNCHANGED <<disk, modelVars, taskVars, run, wrapper, upsets, swapped>>

\* workspace_update runs the indexer itself and waits for it.
UpdateIndex(r) ==
  /\ manager = [step |-> "update"]
  /\ Spawn(r, "count")
  /\ manager' = [step |-> "wait", for |-> r]
  /\ UNCHANGED <<disk, graph, modelVars, taskVars, wrapper, reindex>>

\* A slip UpdateEnds notices: the index is waited for, not the run.
UpdateReturnsOnCompleted ==
  /\ manager.step = "wait" /\ run[manager.for].status = "Completed"
  /\ manager' = Idle
  /\ UNCHANGED <<disk, graph, modelVars, taskVars, run, wrapper, reindex, envVars>>

UpdateReturns ==
  /\ manager.step = "wait" /\ wrapper[manager.for].over # "no"
  /\ manager' = Idle
  /\ UNCHANGED <<disk, graph, modelVars, taskVars, run, wrapper, reindex, envVars>>

\* A slip OwnModel notices: the embedder stays what it was.
SwitchSetOnly ==
  /\ manager.step = "switch"
  /\ manager' = Idle
  /\ UNCHANGED <<disk, graph, modelVars, taskVars, run, wrapper, reindex, envVars>>

\* EmbeddingRuntime::activate: first the set, then the embedder.
SwitchSet(m) ==
  /\ "switch" \in Commands /\ manager = Idle
  /\ m # active
  /\ Upset
  /\ active' = m
  /\ manager' = [step |-> "switch", to |-> m]
  /\ run' = [r \in Runs |-> [run[r] EXCEPT !.switched = @ \/ AtWork(r)]]
  /\ swapped' = (swapped \/ \E r \in Runs : AtWork(r))
  /\ UNCHANGED <<disk, graph, processor, taskVars, wrapper, reindex, excused>>

SwitchProcessor ==
  /\ manager.step = "switch"
  /\ processor' = manager.to
  /\ manager' = Idle
  /\ UNCHANGED <<disk, graph, active, taskVars, run, wrapper, reindex, envVars>>

(***************************************************************************)
(* A run of the IndexerTask.                                               *)
(***************************************************************************)

Step(r, changed) == run' = [run EXCEPT ![r] = changed]

\* Every wrapper that is still there hears of it.
Broadcast(status) ==
  wrapper' = [q \in Runs |-> IF Followed(q) THEN [wrapper[q] EXCEPT !.inbox = Append(@, status)]
                             ELSE wrapper[q]]

Over(r, status) ==
  Step(r, [NewRun EXCEPT !.pc = "ended", !.status = status, !.alone = run[r].alone])

End(r, status) == Over(r, status) /\ Broadcast(status)

\* run_parse_resolved on the whole target; the vectors stay as they are.
Parse(r) ==
  /\ run[r].pc = "parse"
  /\ graph' = Transform(graph, Files, disk)
  /\ excused' = excused \cup
       {v \in Models \X Nodes :
          IsLive(graph, v[1], v[2]) /\ HashOf[graph'.row[v[2]]] # HashOf[graph.row[v[2]]]}
  /\ Step(r, [run[r] EXCEPT !.pc = "count"])
  /\ UNCHANGED <<disk, modelVars, taskVars, wrapper, manager, reindex, upsets, swapped>>

Count(r) ==
  LET counted == CountUnembedded(graph, active) IN
  /\ run[r].pc = "count"
  /\ Step(r, [run[r] EXCEPT !.pc = "fetch", !.counted = counted, !.set = active,
                !.behind = {n \in counted : n <= cursors[KindOf[n]]}])
  /\ UNCHANGED <<disk, graph, modelVars, taskVars, wrapper, manager, reindex, envVars>>

NumNotProc(r) == Cardinality(run[r].counted)

\* A slip TypeOK notices: each node type fetches a batch of its own.
FetchSizeOfEach(r) == Min({BatchSize, NumNotProc(r)})

\* The part of the batch that the earlier node types have left.
FetchSize(r) == Max({0, Min({BatchSize, NumNotProc(r)}) - run[r].fetched})

\* The cursor of the next node type is read under the lock ...
ReadCursor(r) ==
  /\ run[r].pc = "fetch" /\ run[r].kind <= Kinds /\ FetchSize(r) > 0
  /\ Step(r, [run[r] EXCEPT !.pc = "query", !.cursor = cursors[run[r].kind]])
  /\ UNCHANGED <<disk, graph, modelVars, taskVars, wrapper, manager, reindex, envVars>>

\* ... and moved, under the lock again, past what the query returned.
FetchKind(r) ==
  LET kind == run[r].kind
      nodes == RelWithCursor(graph, active, kind, FetchSize(r), run[r].cursor)
  IN /\ run[r].pc = "query"
     /\ Step(r, [run[r] EXCEPT !.pc = "fetch", !.kind = @ + 1,
                   !.cursor = 0,
                   !.fetched = @ + Cardinality(nodes),
                   !.batch = [n \in DOMAIN @ \cup nodes |->
                                IF n \in nodes THEN EmbedData(graph, n) ELSE @[n]],
                   !.crowded = @ \/ nodes \ run[r].counted # {}])
     /\ cursors' = IF nodes = {} THEN cursors ELSE [cursors EXCEPT ![kind] = Max(nodes)]
     /\ UNCHANGED <<disk, graph, modelVars, totalProcessed, wrapper, manager, reindex, envVars>>

\* The count or a fetch is an error of the database, which ends the run without a status.
QueryFails(r) ==
  /\ run[r].pc \in {"count", "query"}
  /\ Upset
  /\ Over(r, "Failed")
  /\ UNCHANGED <<disk, graph, modelVars, taskVars, wrapper, manager, reindex, excused, swapped>>

\* What was fetched counts as processed.
EndBatch(r) ==
  /\ run[r].pc = "fetch" /\ (run[r].kind > Kinds \/ FetchSize(r) = 0)
  /\ totalProcessed' = totalProcessed + run[r].fetched
  /\ Step(r, [run[r] EXCEPT !.pc = IF run[r].fetched = 0 THEN "finish" ELSE "snippets"])
  /\ UNCHANGED <<disk, graph, modelVars, cursors, wrapper, manager, reindex, envVars>>

\* The nodes whose snippets are refused are dropped from the batch and no more is heard of
\* them.  own is history: whether the file was the one the span is for.
ReadSnippets(r) ==
  LET batch == run[r].batch IN
  /\ run[r].pc = "snippets"
  /\ \E read \in Readings(batch, disk) :
       LET valid == {n \in DOMAIN batch : read[n].ok}
           Own(n) == disk[FileOf[n]] = batch[n].span
       IN Step(r, [run[r] EXCEPT !.pc = "embed", !.by = processor,
                     !.batch = [n \in valid |-> [hash |-> batch[n].hash, text |-> read[n].text,
                                                 own |-> Own(n)]],
                     !.skipped = @ \cup (DOMAIN batch \ valid)])
  /\ UNCHANGED <<disk, graph, modelVars, taskVars, wrapper, manager, reindex, envVars>>

\* The answer of the model fits the embedder and the set there is by now, and is written.
WriteVectors(r) ==
  LET batch == run[r].batch
      recent == run[r].recent + run[r].fetched
  IN /\ run[r].pc = "embed"
     /\ batch # NoBatch => Dims[run[r].by] \in {Dims[processor]} \cap {Dims[active]}
     /\ graph' = PutVectors(graph, active, [n \in DOMAIN batch |-> batch[n].text], run[r].by)
     /\ excused' = excused \cup
          {<<active, n>> : n \in {m \in DOMAIN batch :
              HashOf[graph.parsed[FileOf[m]]] # batch[m].hash \/ ~batch[m].own}}
     /\ Step(r, [run[r] EXCEPT !.pc = IF recent >= NumNotProc(r) THEN "finish" ELSE "fetch",
                   !.recent = recent, !.kind = 1, !.fetched = 0, !.batch = NoBatch,
                   !.by = FirstModel])
     /\ UNCHANGED <<disk, modelVars, taskVars, wrapper, manager, reindex, upsets, swapped>>

\* The model does not answer, or with vectors of another length than the embedder's or
\* the set's: the run ends, the cursors stay behind the batch.
BatchFails(r) ==
  /\ run[r].pc = "embed"
  /\ \/ Upset
     \/ /\ run[r].batch # NoBatch
        /\ Dims[run[r].by] \notin {Dims[processor]} \cap {Dims[active]}
        /\ UNCHANGED upsets
  /\ End(r, "Failed")
  /\ UNCHANGED <<disk, graph, modelVars, taskVars, manager, reindex, excused, swapped>>

Finish(r) ==
  /\ run[r].pc = "finish"
  /\ IF totalProcessed >= NumNotProc(r)
     THEN Step(r, [run[r] EXCEPT !.pc = "complete"]) /\ UNCHANGED wrapper
     ELSE End(r, "Cancelled")
  /\ UNCHANGED <<disk, graph, modelVars, taskVars, manager, reindex, envVars>>

\* A slip CancelledIsHonest notices: the tally starts again, with another run under way.
CompleteResettingAll(r) ==
  /\ run[r].pc = "complete"
  /\ cursors' = [k \in 1 .. Kinds |-> 0] /\ totalProcessed' = 0
  /\ End(r, "Completed")
  /\ UNCHANGED <<disk, graph, modelVars, manager, reindex, envVars>>

\* After FinalizeSeed.
Complete(r) ==
  /\ run[r].pc = "complete"
  /\ cursors' = [k \in 1 .. Kinds |-> 0]
  /\ End(r, "Completed")
  /\ UNCHANGED <<disk, graph, modelVars, totalProcessed, manager, reindex, envVars>>

\* FinalizeSeed does not go through: the cursors stay where they are.
SeedFails(r) ==
  /\ run[r].pc = "complete"
  /\ Upset
  /\ End(r, "Failed")
  /\ UNCHANGED <<disk, graph, modelVars, taskVars, manager, reindex, excused, swapped>>

(***************************************************************************)
(* index_workspace around a run.  It is told of every run's statuses; the  *)
(* shutdown channel of its callback thread has room for one message.       *)
(***************************************************************************)

WrapperTo(r, w) ==
  /\ wrapper' = [wrapper EXCEPT ![r] = IF w.over = "no" THEN w ELSE [NewWrapper EXCEPT !.over = w.over]]
  /\ UNCHANGED <<disk, graph, modelVars, taskVars, run, manager, reindex, envVars>>

TellThread(thread) == IF thread = "up" THEN "told" ELSE thread

WrapperHears(r) ==
  LET status == Head(wrapper[r].inbox)
      w == [wrapper[r] EXCEPT !.inbox = Tail(@)]
  IN /\ Followed(r) /\ wrapper[r].inbox # <<>>
     /\ \/ status = "Failed" /\ WrapperTo(r, [w EXCEPT !.over = "panic"])
        \/ /\ status = "Cancelled" \/ (status = "Completed" /\ w.thread = "down")
           /\ WrapperTo(r, [w EXCEPT !.over = "ok"])
        \/ status = "Completed" /\ w.thread = "up" /\ WrapperTo(r, [w EXCEPT !.thread = "told"])
        \* The thread takes the first message and ends; the second one finds room or nobody.
        \/ /\ status = "Completed" /\ w.thread = "told"
           /\ \E over \in {"no", "panic"} : WrapperTo(r, [w EXCEPT !.thread = "down", !.over = over])

\* A slip VerdictIsOwn notices: the result of the run is not passed on.
WrapperJoinsOnly(r) ==
  /\ Followed(r) /\ run[r].pc = "ended"
  /\ WrapperTo(r, [wrapper[r] EXCEPT !.over = "ok", !.thread = TellThread(@)])

\* The handle of the run is ready; a status sent just before may go unread.
WrapperJoins(r) ==
  /\ Followed(r) /\ run[r].pc = "ended"
  /\ WrapperTo(r, [wrapper[r] EXCEPT
       !.over = IF run[r].status = "Failed" /\ wrapper[r].thread # "down" THEN "error" ELSE "ok",
       !.thread = TellThread(@)])

\* The callback channel is closed.
WrapperDisconnected(r) ==
  /\ Followed(r) /\ wrapper[r].thread = "down"
  /\ WrapperTo(r, [wrapper[r] EXCEPT !.over = "ok"])

ThreadEnds(r) ==
  /\ wrapper[r].thread = "told"
  /\ WrapperTo(r, [wrapper[r] EXCEPT !.thread = "down"])

Next ==
  \/ \E f \in Files : Edit(f)
  \/ \E r \in Runs : Index(r) \/ ReIndex(r) \/ UpdateIndex(r)
  \/ StartScan("scan") \/ StartScan("update") \/ ScanParse \/ ScanRetract
  \/ UpdateReturns \/ (\E m \in Models : SwitchSet(m)) \/ SwitchProcessor
  \/ \E r \in Runs :
       \/ Parse(r) \/ Count(r) \/ ReadCursor(r) \/ FetchKind(r) \/ EndBatch(r)
       \/ ReadSnippets(r) \/ WriteVectors(r) \/ BatchFails(r) \/ Finish(r) \/ Complete(r)
       \/ QueryFails(r) \/ SeedFails(r)
       \/ WrapperHears(r) \/ WrapperJoins(r) \/ WrapperDisconnected(r) \/ ThreadEnds(r)

Spec == Init /\ [][Next]_vars

\* The steps of the tasks, the threads and the manager happen, the user's need not.
Progress(r) ==
  \/ Parse(r) \/ Count(r) \/ ReadCursor(r) \/ FetchKind(r) \/ EndBatch(r)
  \/ ReadSnippets(r) \/ WriteVectors(r) \/ BatchFails(r) \/ Finish(r) \/ Complete(r)
  \/ QueryFails(r) \/ SeedFails(r)

Wrap(r) == WrapperHears(r) \/ WrapperJoins(r) \/ WrapperDisconnected(r)

FairSpec ==
  /\ Spec
  /\ \A r \in Runs : WF_vars(Progress(r)) /\ WF_vars(Wrap(r)) /\ WF_vars(ThreadEnds(r))
  /\ WF_vars(ScanParse \/ ScanRetract \/ UpdateReturns \/ SwitchProcessor)
  /\ WF_vars(\E r \in Runs : UpdateIndex(r))

(***************************************************************************)
(* Properties.                                                             *)
(***************************************************************************)

Texts == 0 .. Versions   \* the hashes of versions, and Garbage
Vectors == {NoVector, Retracted} \cup {LiveVector(t, m) : t \in Texts, m \in Models}

\* Every part of the state keeps its shape; cursors stay at nodes, a run never has more
\* of a batch than was fetched for it.
TypeOK ==
  /\ disk \in [Files -> 1 .. Versions]
  /\ graph.parsed \in [Files -> Texts] /\ graph.row \in [Nodes -> Texts]
  /\ graph.vec \in [Models -> [Nodes -> Vectors]]
  /\ active \in Models /\ processor \in Models
  /\ cursors \in [1 .. Kinds -> Nodes \cup {0}] /\ totalProcessed \in Nat
  /\ \A r \in Runs :
       /\ run[r].pc \in {"free", "parse", "count", "fetch", "query", "snippets", "embed",
                         "finish", "complete", "ended"}
       /\ run[r].status \in {"Running", "Completed", "Cancelled", "Failed"}
       /\ DOMAIN run[r].batch \subseteq Nodes /\ Cardinality(DOMAIN run[r].batch) <= run[r].fetched
       /\ run[r].fetched <= BatchSize
       /\ wrapper[r].over \in {"no", "ok", "error", "panic"}
       /\ wrapper[r].thread \in {"up", "told", "down"}
  /\ manager.step \in {"idle", "parse", "retract", "update", "wait", "switch"}

Ends(r, status) == run[r].pc # "ended" /\ run'[r].pc = "ended" /\ run'[r].status = status

Unembedded(r) == {n \in run[r].counted : graph.vec[run[r].set][n] = NoVector}

\* A run that reports Completed leaves a node it counted without a vector only if the
\* node was behind the cursor that an earlier run left, if its snippet was refused, if a
\* node that was not counted took its place, or if another run or a switch interfered.
CompletedAccounts ==
  [][\A r \in Runs :
       Ends(r, "Completed") /\ run[r].alone /\ ~run[r].crowded /\ ~run[r].switched =>
         Unembedded(r) \subseteq run[r].behind \cup run[r].skipped]_vars

\* A run reports Cancelled only if a node it counted has no vector: the tally, which
\* runs share and never reset, does not fall behind what was embedded.
CancelledIsHonest ==
  [][\A r \in Runs : Ends(r, "Cancelled") => Unembedded(r) # {}]_vars

\* A live vector is of the text of its node's row, up to what the hash does not see, but for
\* the known ways to another one: a parse without a scan, a set that was not active at the
\* scan, a batch that was on its way during it, an item that left its file, and a file that
\* had changed in comments or white space alone when the snippet was read, so that the check
\* of the hash let an old span pass.
LiveIsCurrent ==
  \A s \in Models, n \in Nodes :
    IsLive(graph, s, n) /\ graph.vec[s][n].text # HashOf[graph.row[n]] =>
      \/ <<s, n>> \in excused
      \/ manager.step = "retract" /\ FileOf[n] \in manager.changed

\* The vectors of a set are by its model, unless a switch met a run.
OwnModel ==
  ~swapped => \A s \in Models, n \in Nodes : IsLive(graph, s, n) => graph.vec[s][n].by = {s}

\* The wrapper of a run that had the task for itself ends after the run, and with an
\* error exactly when the run failed.
VerdictIsOwn ==
  \A r \in Runs : run[r].alone /\ wrapper[r].over # "no" =>
    /\ run[r].pc = "ended"
    /\ wrapper[r].over \in {"error", "panic"} <=> run[r].status = "Failed"

\* workspace_update comes back: the state manager is not held for ever.
UpdateEnds == manager.step = "parse" ~> manager = Idle

\* What the documents say of an update: when it is over, each run was by itself and
\* completed and the graph at the files' versions, each item that the files have is
\* embedded again.
Quiet == manager = Idle /\ reindex = 0 /\ \A r \in Runs : run[r].pc \in {"free", "ended"}

UpdateReEmbeds ==
  /\ Quiet /\ graph.parsed = disk
  /\ \A r \in Runs : run[r].pc = "ended" => run[r].alone /\ run[r].status = "Completed"
  => \A n \in Nodes : disk[FileOf[n]] \in PresentIn[n] => IsLive(graph, active, n)

=============================================================================
