# Verification of ploke in TLA+

ploke is a terminal program in Rust. It parses a workspace into a code graph,
embeds and indexes the graph, and lets a language model work on the code by
tool calls; edits of the model are staged as proposals that the user approves
or denies. This directory holds TLA+ models of the parts of ploke in which
several tasks share state, the TLC configurations that check them, and proofs
checked by TLAPS. Paths below are relative to `src/crates/` unless they begin
with another directory of the repository.

`PROJECT.json` maps each definition to the lines it models, and lists the
components, the runs, the slips (mutants) that show that a run would notice a
bug, the findings, the hazards and the theorems.

## The system

| Part | State | Operations | Hard because |
|---|---|---|---|
| Edit proposals (`ploke-tui/src/rag/{tools,editing}.rs`, `app_state/handlers/proposals.rs`) | `state.proposals` behind an RwLock, `proposals.json` | stage, approve, deny, approve all, deny all, save, load | each operation takes the lock several times and decides on clones; tool tasks and the state manager run at the same time; saves are not atomic; restarts |
| Chat session (`ploke-tui/src/llm/manager/session.rs`) | conversation, retry counters, placeholder message, waiters of a batch | ask, run a batch of tools, append, retry, cancel | answers on a lossy broadcast channel, late or twice; timeouts; cancellation at any await |
| File writes (`ploke-io/src/{actor,write}.rs`) | files, a lock for each path | write a batch of splices | other programs save the same files; errors at every step; crashes |
| File creation (`ploke-tui/src/tools/create_file.rs`, `ploke-io/src/create.rs`) | `state.create_proposals`, files | stage, approve, deny | as edit proposals |
| Chat history, state manager (`ploke-tui/src/chat_history.rs`, `app_state/dispatcher.rs`, `rag/context.rs`, `llm/manager/mod.rs`) | message tree, command queue, requests and prompts waiting for each other | one command after the other; tasks that add messages by themselves | some commands release the lock half way; commands are lost when the queue is full; branches and deletion |
| Event bus, interface (`event_bus/`, `app/`) | broadcast channels, overlays | send, receive, draw | slow receivers lose events |
| Indexer (`ingest/ploke-embed/src/indexer/mod.rs`, `ploke-tui/src/app_state/database.rs`) | cursors and tally shared by all runs, progress broadcast | index, update, scan for changes | files, graph and model change during a run; all runs share one broadcast |
| Embedding runtime (`ingest/ploke-embed/src/runtime.rs`) | active set, embedder | activate, embed | two locks for one switch |
| Graph database, BM25 (`ploke-db/`) | relations with their history, keyword index | query, retract, put vectors; search, rebuild, status | an actor with a bounded queue; a rebuild of many queries |
| Retrieval (`ploke-rag/`) | the locals of a request | search by keywords and vectors, fuse, assemble | timeouts, retries and fallback; graph and files change between the steps |
| Parser, transform (`ingest/syn_parser`, `ingest/ploke-transform`, `ingest/ploke-mbe`) | syntax trees to relations | parse, resolve, insert | data, not interleaving |
| Providers (`ploke-llm/`), MCP (`ploke-ty-mcp/`), shared types | formats | convert, call | input and output |

How they interact. A chat session sends `ToolCallRequested` on the realtime
channel; the LLM manager spawns a task for each; the task runs the tool and
sends `ToolCallCompleted` or `ToolCallFailed`, which the session's dispatcher
routes to the waiting call. An edit tool answers when its proposal is staged;
the proposal is applied later, by the user's command or by the approval that
auto-confirm spawns. An approval sends its edits as one batch to the I/O manager,
which checks for each the tracking hash the graph had. After it a rescan brings
the graph up to date with the files.

A question of the user is five commands to the state manager. One of them,
`EmbedMessage`, retrieves a context and announces the prompt; another announces the
request; the LLM manager pairs the two and starts the session, which sends commands
back for what it shows. The indexer reads nodes from the graph, their texts from the
files and writes vectors; a scan brings rows up to date and retracts the vectors of
what changed. A retrieval searches the vectors and, through the BM25 actor, the
keyword index, and cuts the snippets out of the files.

What makes each part correct:

- Edit proposals: a visible edit is made at most once; "applied" is said when each edit was
  tried; "applied" and "denied" are final, as long as no call approves itself; a bulk approval applies edits that do not overlap; each call is
  answered; no task waits for a lock for ever.
- Chat session: the conversation that goes back to the model has one answer for
  each call, and its own; a cancellation or a timeout ends the wait; the message
  on the screen is closed.
- File writes: each write is atomic for the others, is made on the version it was
  computed for, and reports what it did; no lock is kept.
- Chat history: the messages are one tree whose path is on display; the selected
  message is there; a question gets one session and its placeholder is closed.
- Indexing: what a run reports is true of the nodes it counted; a live vector is of
  the node's text, up to what the tracking hash sees, and by its set's model; `/update` gives the state manager back.
- Retrieval: a rebuild that was accepted is in later answers; a part shows its item as
  the file has it, up to what the hash sees, and is ranked by its own hit; each request ends.

## Modules

| Module | Models | Runs |
|---|---|---|
| `EditProposals` | the registry and everything that changes it | `EditCommands`, `EditRestart`, `EditNsPatch`, `EditOneStep` |
| `EditProposals_proofs` | its inductive invariant and theorems | |
| `ChatSession` | one session, its dispatcher, timers, tools and user | `ChatSession`, `ChatTimeout` |
| `ChatSession_proofs` | its inductive invariant and theorems | |
| `FileStore` | the promise of ploke-io: a write is one step | (abstract) |
| `FileWrite` | `write_snippets_batch` step by step; implements `FileStore` | `FileWrite`, `FileSpans` |
| `FileWrite_proofs` | its inductive invariant and the refinement | |
| `ChatHistory` | the message tree and its operations | (used by `Conversation`) |
| `Conversation` | from a question to its session, through the state manager | `Conversation` |
| `Conversation_proofs` | what each operation of `ChatHistory` does to kinds and statuses, and to the tree; the inductive invariants and theorems of `Conversation` | |
| `CodeGraph` | rows and vectors of the graph, and the queries of them | (used by `Indexing` and `Retrieval`) |
| `CodeGraph_proofs` | lemmas about those queries and about finite sets of numbers | |
| `Indexing` | runs, scans, updates, switches of the model | `Indexing`, `IndexAfterEdit` |
| `Indexing_proofs` | its inductive invariant and the theorems about vectors, verdicts and reports | |
| `Retrieval` | requests for a context, the BM25 actor | `Retrieval` |
| `Retrieval_proofs` | its inductive invariant and theorems | |
| `Induction` | lemmas: induction over the numbers up to one, and over a finite set; finite sets can be sorted | (used by the proofs) |
| `MC_*` | the small sets the runs use | |

### EditProposals

An actor is a tool call, from the request to its answer and on into the approval
that auto-confirm spawns, or `Commander`, the state manager task. `pc` names the
point between two critical sections or awaits where an actor is; `req`, `prop`,
`pos` and `snap` are its locals. A step takes the registry's lock, reads or writes,
and lets go of it; only the `ns_patch` tool keeps the write guard across an await,
which is why `guard` is a variable.

- `ToolCallRequested`, `CheckDuplicate`, `StagingFails`, `ResolveEdits`,
  `StageProposal`, `AnnounceStaged`: `apply_code_edit_tool`; a call in `NsCalls`
  skips the check, takes the hash of the file instead of the graph's, and keeps
  its guard, as `apply_ns_code_edit_tool` does.
- `ApproveRead`, `WriteEdit`/`SkipMismatch`/`WriteRefused`, `MarkApplied`/
  `MarkFailed`, `SpawnRescan`: `approve_edits` with `apply_semantic_edit`. The status
  is looked at in the clone, and the clone is inserted at the end.
- `SaveSnapshot`, `SaveTruncate`, `SaveFlush`: `save_proposals`; `fs::write` is two
  steps, and a flush into a file that another save has filled may leave a file
  that does not parse (`Torn`). Every operation that saves in the code goes
  through these steps before it goes on (`then`).
- `DenyRead`, `MarkDenied`, `ApprovePendingEdits`, `MarkStale`, `DenyPendingEdits`,
  `BulkNext`, `BulkEnd`: the commands.
- `Rescan`, `ExternalEdit`, `CrashAndRestart`: the environment and
  `load_proposals`.

What is abstracted. A proposal's payload never changes after staging, so a
proposal is its call and a status. A file is the version that its tracking hash
stands for. The hash is taken of the token stream, so edits in `Cosmetic` change
the file and not the version. A version does not come back: a user who
restores the exact old tokens would let an edit be written again. One file
write is a step here; `FileWrite` has its parts. A write of an `ns_patch`
proposal is reduced to its hash check, and the fuzzy matching is left out. The path
in `PLOKE_PROPOSALS_PATH`, which loading honours and saving does not, is assumed
unset.

### ChatSession

`phase` is where `run_chat_session` is: the top of the loop, the HTTP request, the
collection of the calls, the join of the dispatcher, the finish policy. `waiters`,
`listening` and `inbox` are the dispatcher task and its receiver of the broadcast
channel, which loses its oldest event when it is full (`Send`). A tool task may
answer, answer twice (`process_tool` reports after the tool has reported; an
approval reports under the same call once more), answer after its timer, or stay
silent. The step's request id is its number, the call ids are reused from step
to step, as some providers do. `FinishContinues`, `FinishCompletes` and
`FinishExhausted` are `handle_finish_reasons` with its retry limits; the code
looks at all choices of a response, the model at one reason. A response with an
empty list of tool calls is left out of `Batches`: it hangs as `ChatTimeout` shows,
since its dispatcher waits for an event of its step and none comes. The calls of
one batch have different ids.

### FileStore and FileWrite

`FileStore` says what ploke-io promises: a request expects the hash of the content
it was made for; `Apply` puts the edit on a content with that hash in one step;
`Refuse` changes nothing. The promise is for writes of ploke-io. A write may start
from any content the file has had since the last of them, for another program
that saves between the read and the rename is overwritten: the code cannot
prevent that, and the specification says so in `since`.

`FileWrite` has a task for each batch, which locks the path, reads, checks the hash,
stages a temporary file, renames and syncs; errors leave at each point, and other
programs save at any time. A content is the sequence of changes that led to it,
and its hash leaves out the cosmetic ones; `FileStore` has the hash as a parameter,
since its promise is the same for any. The instance `Store` maps the detailed
state to the abstract one: the same files, history and outcomes, and as the wanted
hash that of the content the request was made for. The rename is the step that
implements `Apply`; the outcome is reported when the lock is dropped, which adds
nothing that another task could see. The crash after the rename, before the
answer, leaves a write that has happened and nobody was told of, which is what
`EditRestart` starts from.

### ChatHistory and Conversation

`ChatHistory` has no variables: a history is a record of messages, tail, selection
and cached path, and the operations of `chat_history.rs` are functions of it. A
message keeps what decides something: its parent, children and selected child, role,
status, length where the update rules look at it, and its lease. `AddChild`, `DeleteNode` (which
splices children up) and `DeleteSubtree`, `NavigateList`, `TryUpdate`, `DecrementTtl`
and the prompt with its lease cap (`Candidates`, `Kept`, `Prompt`, `AfterPrompt`) are
written with the order of the code's steps, since a later one sees what an earlier one
has left.

`Conversation` has the actors around it. The interface sends with `try_send` and goes
on (`Submit`, `SendNext`, `Key`): a command that finds the queue full is lost. The
state manager handles one command at a time, an action for each; `add_msg_immediate`
and `delete_message` take the lock twice, so that they are two actions with a step of the
manager in between (`manager.step`). The tasks of tools and approvals do the same
outside the manager (`TaskAdds`, `TaskSelects`), or add in one step
(`TaskAddsInBackground`). `Receive`, `HandleRequest`, `HandlePrompt` are the LLM manager
with `pending_requests` and `ready_contexts`. A session is the sequence of commands that
`ChatSession`'s steps send. `starts` and `raced` are history: the number of sessions of a
question, and what came between the two halves of an addition.

### CodeGraph and Indexing

`CodeGraph` keeps for each file the version that was parsed, for each node the version its
row is from, and for each model the vector: none, retracted, or live with the text it is of
and who made it. The distinction between none and retracted is CozoDB's history, which one
query looks at (`CountUnembedded`, an anti-join with every row there ever was) and another
does not (`RelWithCursor`). A transform puts rows and removes none.

Files are compared by their `TrackingHash`, which is made of the tokens and does not see
comments and white space (`ploke-core/src/lib.rs:460-504`). So a file has versions and `HashOf`
gives each its hash; two versions of one hash have the same items, at other places
(`CosmeticChange`). What a query says of a node (`EmbedData`) is the hash of its file and a span,
which is a place in the version its row is from. `Snippets` is `process_file`: a file of
another hash is refused, and of any other the bytes in the span are cut out (`Cut`). Where the
file is the version the span is for, that is the item; where it is another of the same
hash, or the item was not in the version the hash is of, it may be the item, anything
else (`Garbage`), or an error. A text is named by the hash of the file it is the item of, so two
texts that differ in comments and white space alone are not told apart. A scan compares
hashes too: a cosmetic edit alone is not found.

`Indexing`: `Index`, `StartScan`, `ScanParse`, `ScanRetract`, `UpdateIndex`, `UpdateReturns`,
`SwitchSet` and `SwitchProcessor` are the state manager; `Parse`, `Count`, `ReadCursor`,
`FetchKind`, `EndBatch`, `ReadSnippets`, `WriteVectors`, `Finish`, `Complete` are a run, cut at
its awaits and its locks; `Wrapper...` is `index_workspace`, which follows a broadcast that
all runs share, and `ThreadEnds` its callback thread. Cursors and tally are of the task
and not of the run. The history fields of a run say what it could not see: `alone`
(no other run at the same time), `behind` (nodes it counted behind an old cursor),
`skipped` (nodes whose snippet was refused), `crowded` (a node was fetched that was not
counted), `switched`. `own` says of a snippet that its file was the very version the span is for; one
that is not is excused when its vector is written. `excused` names the vectors that are known
to be of another text than their nodes, and `swapped` says that a switch met a run. A run ends without
a status by `QueryFails` (the count or a fetch is an error), with Failed by `BatchFails` or
`SeedFails` (`FinalizeSeed` is refused or the keyword actor gone). Left out: a file that cannot
be read or parsed, which is refused as one that has changed is, and what the wrapper does after its loop: it
reads the pending rows and creates the HNSW index (`indexer/mod.rs:417-456`), and an error there is
an error of the wrapper of a run that did not fail, which `VerdictIsOwn` does not see.

### Retrieval

`Begin` takes the strategy of the configuration; a hybrid request has its two searches as two
parts of one record, since `tokio::join!` runs them side by side. The keyword search is
`SendStatus`, `SendSearch` (each waits for room in the actor's channel), the two timeouts,
and for what came back `TakeHits`, `Retry`, `FallBack` or, if strict, `StrictRefuses`. The actor
(`Serve`, `BeginRebuild`, `RebuildKind`, `EndRebuild`) handles one command at a time; an answer to a
question that nobody waits for is dropped. `Join` fuses by reciprocal ranks, `FetchNodes` asks the
graph, `ReadSnippets` the files; an edit, a scan or an indexing batch may come between any two
of these. A user's question is served by the state manager, which then does not scan or
send a rebuild; tool calls are tasks and leave it free. Similarity and keyword scores are
two fixed orders of the nodes. The code sorts the parts again by score and then by id
(`ploke-rag/src/context/mod.rs:251-264`): fused hits are in that order already, and of the hits of
one search the model takes no two scores to be equal. An indexing batch (`IndexNodes`) is one
step here: that it is read, embedded and written at different times is in `Indexing`. `PartsOfTheFile`
has the exception that the code has: the file has other comments or white space than the
version the span is for. An error ends a request without a context; a question then goes
on with the conversation alone. `asked`, `failed` and `known` are history: the nodes there were
when a rebuild was asked for, whether one failed, and what a request may rely on.

## Runs

| Run | Shows | Instance |
|---|---|---|
| `EditCommands` | `BulkPlanSound`, `ResolvedIsFinal`, `DeniedStaysDiscarded` | 2 calls with overlapping spans (one empty), 2 commands of any kind |
| `EditRestart` | `TypeOK`, `AtMostOnce`, `AppliedIsSettled`; `EveryCallAnswered`, `CommandsEnd` under `FairSpec` | 1 auto-confirmed call with 2 files, one edit cosmetic; 1 command, an outside edit of each file, 1 crash |
| `ChatSession` | `TypeOK`, `ConversationComplete`, `NoForeignAnswer`, `SessionClosed`; `CancelEnds`, `EndsIfAnswered` under `FairSpec` | 2 call ids over 2 steps, channel of 2, no retry by finish reason, 1 foreign event, 1 cancellation |
| `FileWrite` | `TypeOK`, `OnePerVersion`, `StoreSpec`, `BatchEnds` | batches of 2 requests over 2 files, 2 saves, one of them a revert, 1 crash |
| `Conversation` | `TypeOK`, `TreeSound`, `SelectionSound`, `OneSessionPerQuestion`, `AnswersClosed`, `NoPromptStranded` | 2 questions, of which the first gets an answer, a tool and more text; queue of 1, lease cap 2, 1 task, 1 key (up, delete a message, delete a branch); 1.07 million states |
| `Indexing` | `TypeOK`, `CompletedAccounts`, `CancelledIsHonest`, `LiveIsCurrent`, `OwnModel`, `VerdictIsOwn`, `UpdateEnds` | 2 runs with batches of 2; 4 nodes of 2 kinds in 2 files, one lost and one gained by an edit; 3 versions of a file, 2 of them with one hash; 3 models, one with longer vectors; any 2 of edits, switches, failures and overlapping starts; 0.77 million states |
| `Retrieval` | `TypeOK`, `RebuildHeard`, `PartsOfTheFile`, `LabelsTrue`, `SearchEnds` | a question and a tool call, each strategy, 2 hits asked for, channel of 1, 1 retry, 1 rebuild of 2 kinds; 3 nodes in a file with 3 versions, one of them a cosmetic edit and one with a node less; 0.63 million states |
| `EditNsPatch`, `EditOneStep`, `ChatTimeout`, `FileSpans`, `IndexAfterEdit` | a violation each, see Findings | the smallest that has it |

Why the bounds are enough to be interesting. Every race on the registry is
between two actors (two approvals, an approval and a denial, two saves), so two
calls or a call and the commander reach it, and two commands let the second one
meet what the first has left. `MaxVersion`, `MaxCrashes` and `MaxCommands` count
what the environment does: one outside edit between a request and its write is
all a hash check can tell, and a second crash begins from a state the first could
have left. For the session two steps are what reuse of a call id needs, two
calls what a partly answered batch needs, and a channel no larger than what the
tools can send is what loss needs. For the writes two batches that meet in one
file, one of them twice, have each order of three requests. For the conversation two
questions are what a prompt for the wrong one needs, and a queue of one is full as soon
as a command waits. For indexing, a second run begins at the cursor and the tally the first
has left, or runs beside it; two upsets are what an edit between a scan and a batch, or a
failure followed by anything, takes. A scan starts in the model only while a run is left for
its index, so that each update can do all its steps. For retrieval two requests meet in the
channel of one, three nodes are one more than is asked for, and the file's edit takes a hit away. For both,
three versions are the least that has an edit the hash sees and one it does not.

`UpdateReEmbeds`, the promise that `IndexAfterEdit` refutes, is about the run by itself: no
failure, no other run, all items still in the file.

Deadlock checking is off where the system may stop: all calls answered and the
commands used up, the session over, the batches done. That nothing is stuck before
that is what the liveness properties say.

What the runs leave out. `ResolvedIsFinal` and `DeniedStaysDiscarded` are checked without
auto-confirm, where one state manager handles the commands one after the other. With it the
approval is a task of its own, and a denial that comes between its check of the status
(`editing.rs:37`) and its write is overtaken: the denied edit is written and the proposal ends as
Applied; likewise a stale mark. `RebuildHeard` speaks of requests that begin after the rebuild was
accepted and while no rebuild has failed. `OwnModel` holds until a switch meets a run, so it does not catch the race between
`activate`'s two locks and a run; it says that nothing else mixes the models. `LiveIsCurrent`
names the ways to a vector of another text than its node's (`excused`): a parse without a scan, a set
that was not active at the scan, a batch on its way during it, an item that left its file, and a
snippet read while the file had other comments or white space than its row. `CompletedAccounts`
excuses the nodes behind an old cursor and the runs that fetched what they had not
counted, so it does not catch these two. `AppliedIsSettled` says that each edit was tried: that one
refused for a passing error counts as tried, and is not tried again, is what the code does
(`editing.rs:243`). The retry limits of `ChatSession` are 0 in its run: retries by finish reason are
covered by the proof of its `TypeOK`, not by `EndsIfAnswered`.

## Fairness

`EditProposals`: weak fairness for the steps of each call up to its answer, of each
approval, of each save and of the commander. tokio polls each task that is ready,
its RwLock is fair (a queue), and no step of a task is disabled by another task's
progress except through the lock, which is always given back but for `ns_patch`.
No fairness for requests, commands, rescans, outside edits and crashes.

`ChatSession`: weak fairness for the session, the handling of a cancellation,
the dispatcher, each timer and each tool that is not silent. The HTTP client has a
timeout, so a request ends. No fairness for the user and for other traffic.

`FileWrite`: strong fairness for taking a lock, since tokio's mutex is a queue and
another batch may take it in between; weak fairness for the steps inside and for
the end of a batch.

`Conversation` states no fairness: its properties are invariants.

`Indexing`: weak fairness for each run's next step, for its wrapper and callback thread, for
the steps of the state manager once it has begun, and for the index step of an update. They are
tasks and threads that nothing but the awaited message stops. None for edits, switches, `/index`
and `/update`.

`Retrieval`: weak fairness for each request under way, which includes its timers, for the actor,
and for the second steps of the state manager. None for edits, scans, indexing, rebuilds
and new requests.

## Proofs

The library states induction over an operator, which none of the provers can instantiate.
`Induction` gets round this with sets: a set of naturals that is not empty has a least
element (`LeastNumber`, from the well-foundedness of `<` on the naturals, which is about a relation
and not an operator), so a set that holds 0, and with each number the next one, holds all
(`UpTo`, and `SetsUpTo` for the subsets of a finite set). What a recursive function computes is
proved by putting the arguments for which it is true into a set. The greedy pass of a bulk
approval, the hash of a content and the path to a message are proved about in this way.

`EditProposals_proofs` proves, for any finite set of calls, any requests
and files, any sequences of edits and any bounds, from `ConstantsAssumption` and
`NoneAssumption`:

- `TypeCorrect`: `Spec => []TypeOK`.
- `EditsLandOnce`: `Spec => []AtMostOnce`.
- `AppliedMeansSettled`: `Spec => []AppliedIsSettled`.
- `BulkPlansSound`: `Spec => []BulkPlanSound`.
- `StagedStays`: `Spec => []StagedSurvives`, if `Distinct`.
- `ResolvedForGood`, `DeniedForGood`: `Spec => ResolvedIsFinal /\ DeniedStaysDiscarded`, if
  `Distinct` and `Manual`.

`Distinct` says that no two calls share a request id, `Manual` that auto-confirm is off (its
default). Both are needed: without the first there is finding 3, without the second the denial
that is overtaken (see above). `EditCommands` has both, and `EditOneStep`, where `StagedSurvives`
fails, has not the first.

`AtMostOnce` and `AppliedIsSettled` are not inductive. The second write of an edit
must be ruled out where it would happen, and that needs the version at which the
first one was made; and a proposal is Applied in copies that `AppliedIsSettled`
does not see, in a task's snapshot or in a file a restart will read. `IInv` adds:

- `RequestKnown`, `BulkKnown`: an actor that reads a local has set it.
- `Fresh`: before a call stages its proposal nobody has a copy of it and none of
  its edits has landed, so that `ResolveEdits` may still choose the hashes.
- `HashesPast`: no expected hash and no hash of the graph is ahead of its file.
- `LandedAtExpected`: an edit that landed replaced the version it expected, and if
  the hash sees it that version is gone. With the guard of `WriteEdit` this gives
  `AtMostOnce`.
- `TriedSettled`: an approval has settled each edit before its position.
- `CopiesSettled`: a proposal that is Applied in any copy is settled.

Being settled is stable, since versions only grow and histories only gain
members; the lemmas of the module say so once, and each action that changes a
registry, a file or a copy has a lemma of its own. `Invariance` puts them
together. TLC checks what the theorems say in `EditRestart` and `EditCommands`.

The other theorems have each an invariant of their own on top of `IInv`. For the plans, the
lemmas about `GreedyPass` say, turn by turn, that what is picked does not overlap and that what
is not picked so far overlaps something picked before it in the order of `Sorted`, which exists
because the calls are finitely many and no two are equally new; `PlannedStaged` keeps the times of what is
planned from changing. `KInv` says that a task's request is the one of its call. For
`StagedStays`, `Registered` counts also the calls that are about to be told. For `ResolvedForGood`,
`CallsOnlyStage` says that the commander alone approves and denies, so that from the look at the
status to the late insert the clone is what the registry holds (`CloneCurrent`), and what a bulk
approval is about to mark stale is still pending (`StalePending`).

`FileWrite_proofs` proves, for any batches, requests, files, saves, sets of cosmetic
changes and number of crashes, from the assumptions of `FileWrite`:

- `IInvAlways`: `Spec => []IInv`.
- `LocksHeldInside`: `Spec => []TypeOK`, which says that the lock of a path is held exactly by the
  task that is inside `process_one_write` for it.
- `WritesAreAtomic`: `Spec => StoreSpec`, the refinement of `FileStore`.
- `WritesOncePerVersion`: `Spec => []OnePerVersion`.

The refinement is not visible from one step: the rename must find in `since` the content that
was read some steps before, with the hash that was compared, and an outcome that is open. `IInv`
says so. `ContentsKnown` types the contents; `InHand` and `InOrder`
say which requests of a batch are open at each point; `SeenSince` that what was read under
the lock is still a content since the last write, which is where the lock is needed; `HashChecked`
that its hash is the wanted one. Then each action maps to a step of the store or to a
stutter, one lemma each.

For `OnePerVersion` it must be ruled out that a file comes back to a content it had. A write
that the hash sees makes the sequence of tokens longer, and nothing but a save in `Reverts` makes
it shorter. So, by `Outdated`, what a written request was made for has fewer tokens than each
content since the last write, and a second request for the same version does not
find its hash there.

`ChatSession_proofs` proves, for any sets of calls, any number of models' responses, any
capacity of the channel and any limits, from `ConstantsAssumption` of `ChatSession`:

- `TypeCorrect`: `Spec => []TypeOK`.
- `EachCallAnsweredOnce`: `Spec => []ConversationComplete`.
- `AnswersAreOwn`: `Spec => []NoForeignAnswer`.
- `SessionsClose`: `Spec => []SessionClosed`.

That the conversation is complete before a request is a fact about all the steps that are over,
and it holds because of what is true between two batches. `IInv` says it: there are then no
results and no dispatcher (`BatchOver`), a result that came from a tool is of the present step
(`OwnResults`), nothing is known of the calls of a step that has not been asked (`AskedSoFar`),
and once the batch is joined each of its calls has a result (`Collected`). Then the messages of a
batch are of its own calls (`RepliesAsked`), one for each (`RepliedOnce`), and come after those of
the earlier ones (`StepsInOrder`). That one message is appended for each call is a lemma about
`SetToSeq`, which rests on the pigeonhole principle of the library (`FS_Injection`).

`Conversation_proofs` proves, for any number of questions and tasks, any capacity of the
command channel and any keys, from `HistoryAssumption` and `ConversationAssumption`:

- `OneSession`: `Spec => []OneSessionPerQuestion`.
- `PromptsFindRequests`: `Spec => []NoPromptStranded`.
- `PlaceholdersClose`: `Spec => []AnswersClosed`.
- `HistoryIsATree`: `Spec => []TreeSound`.
- `SelectionHolds`: `Spec => []SelectionSound`.
- `TypesKept`: `Spec => []TypeOK`.

The first three follow from `Inv`, which follows a question on its way. It is at one place at a time
(`OnePlace`): not submitted, in a command not sent, in the channel, being added, in a request,
pending, or with its session; so the request is taken out once. A prompt is made of the last
user message on the path, which was announced before, because a message of the user is in the
history only if it was, or is just being selected (`UsersAnnounced`); and the events keep their
order (`PromptsAnnounced`). `SessionSound` says where the session is while its placeholder is
open: it is running, or the command that closes it is in the channel. Most commands change none
of this (`Plain`, `PlainKeeps`); the first part of the module has what they do to the messages.

The other three follow from `WholeInv`, which adds three parts. `TreeInv` says that the history
is `Sound`, that is `Tree`, with the path cached, and that each message comes in once: while
something is still to bring it in, it is not there (`Waits`; the ids are those of
`IdsAssumption`). `Tree` says what `TreeSound` says of parents and lists of children in a way
that can be carried over a step: there is a way down from the root to each message, a number for
each that grows from a parent to its children. From it the shape of `Paths` is proved by
induction along the tree (`Downwards`: a set that holds the root, and with a parent its
children, holds all), and each of `AddChild`, `AddInBackground`, `DeleteSubtree`, `DeleteNode`,
`NavigateList` and `TryUpdate` is shown to keep a history sound, the two deletions by what
`Splice` does to a list without repetitions. `SelectInv` says of the messages that somebody is
about to select (`Due`: after the first lock of an `add_msg_immediate`, or at the end of a
`delete_message`) what `SelectionSound` says of the selection. `TypeInv` has the lengths of the
channels, and that prompts are made of messages.

`Indexing_proofs` proves every safety property that the run
`Indexing` checks, for any files, models and node types, any finite set of nodes and any
number of runs, from `GraphAssumption` and `IndexingAssumption`:

- `TypeCorrect`: `Spec => []TypeOK`.
- `VectorsAreCurrent`: `Spec => []LiveIsCurrent`.
- `VectorsAreOwn`: `Spec => []OwnModel`.
- `VerdictsAreOwn`: `Spec => []VerdictIsOwn`.
- `CompletedRunsAccount`: `Spec => CompletedAccounts`.
- `CancelledRunsAreHonest`: `Spec => CancelledIsHonest`.

The first four follow from `IInv`. A vector is of a batch that was fetched some steps before:
`BatchesSound` says of what was fetched (`FetchedSound`) that the span is from a version that
has the item, and that it and the hash that came with it are of one version, up to comments, if the item is
still there; and of what was then read from the very version the span is for (`FoundSound`), that it
is the item. `GraphOK` says that a row which is not of the version the graph knows is of an item which that
version lost. So a vector that is of another text when it is written is one that is excused there.
That two versions of one hash have the same items, an assumption of `CodeGraph`, comes in by
`HashFacts`.
`ModelsAgree` says that while no run is at work the embedder may lag behind the set, and else
not, so that the embedder of a batch is the model of the set it is written to. `StillAlone` and
`HeardOwn` say that nobody else joins a run that is alone, and what its wrapper, which listens
to all runs, can have heard.

The reports need an account of the run. `Books` keeps two. `Tally`: for each set, the rows of
vectors there and the nodes pending in the runs, together, are no more than `totalProcessed`;
writing moves a pending node to a row and makes no new one, which is an injection. Were a run
cancelled with every node it counted embedded, there would be more rows than the tally.
`Accounts`, for a run that is alone and undisturbed: the nodes the cursors have passed since the
count are written, pending or skipped, and are as many as `recent` and `fetched` say; those the
cursors have not reached are without a vector, so that a query still finds them, and
`RelWithCursorFirst` says that it passes over none. When `recent` reaches the count there is
then no node left, and when a round over the node types fetches nothing there is none either
(`Round`).

`CodeGraph_proofs` has what this takes of finite sets of numbers: members have ranks of their own,
so that a query with a limit returns no more than the limit (`RelWithCursorBounded`), and a set
that is not empty has a largest member, where the cursor goes (`LargestMember`, by a minimal
counterexample).

`Retrieval_proofs` proves every safety property that the run `Retrieval` checks, for any finite set
of nodes, any files, requests, strategies and lists of hits, any `TopK`, capacity of the channel,
retries and rebuilds, from `GraphAssumption` and `RetrievalAssumption`:

- `TypeCorrect`: `Spec => []TypeOK`.
- `RebuildsAreHeard`: `Spec => RebuildHeard`.
- `PartsShowTheFile`: `Spec => PartsOfTheFile`.
- `LabelsAreTrue`: `Spec => LabelsTrue`.

What the nodes of a rebuild have to go through is said by `Promised`: they are in the index, or the
rebuild under way has found them or has their kind still before it (`Covered`), or a rebuild is
among the first commands in the channel. That no step takes such a promise back is
`Carried`, with one lemma for sending, one for serving and one for each step of a rebuild; a failed
rebuild does take it back, and the history variable `failed` excuses it. `Known` holds each request
to it: before its search is sent, the promise is for all that is in the channel, and then for what is in
front of the search of the present attempt. A channel may also have searches of
earlier attempts that timed out; `Numbered` says that they have smaller numbers, so that their
answers are dropped and the search that is heard is the one the promise is for. When it
is served nothing is in front of it and no rebuild is under way, so the nodes are in the index.

`InHitOrder` carries the order of the hits, and of what was fetched that it is sound
(`FetchedSound`), from the fetch to the read. What is then cut out of a file that passes the check
is the item, or the file has the item no more, or it is a cosmetic edit away from the span
(`SnippetsSound`), which is `PartsOfTheFile`. Of the labels, the i-th of some distinct hits in their order cannot be better than the i-th hit,
and is that hit if there are as many (`PlacesAre`). The lemmas about lists say what `Among` and
`Truncate` return (`Among` is a recursive function: `AmongPicks`) and that a fusion by ranks
exists and repeats nothing, since scores with ties by id order any finite set (`FuseList`, from `CanBeSorted`).

What only TLC checks is what is out of the prover's reach: the liveness properties
(`EveryCallAnswered`, `CommandsEnd`, `CancelEnds`, `EndsIfAnswered`, `BatchEnds`, `UpdateEnds`,
`SearchEnds`), for they need ENABLED. No safety property of a passing run is left without a theorem.

## Findings

1. `EditNsPatch`: the `ns_patch` tool keeps the write guard of the registry
   (`rag/tools.rs:889`) while `save_proposals` waits for the read guard (917,
   `proposals.rs:18`). The call is never answered and the registry stays locked.
2. `ChatTimeout`: after a timeout the session joins the dispatcher, which still
   waits for the answer (`session.rs:1438`). A tool that never answers stops the
   session for good, unless the user cancels.
3. `EditOneStep`: two edit calls of one chat step have one request id; the
   duplicate check (`rag/tools.rs:206`) and the insert are not one critical section,
   and the second proposal replaces the first after both were told "staged".
4. `FileSpans`: the hash that guards a write does not see comments and white space,
   so that the byte span may be applied to a text it was not made for.
5. `IndexAfterEdit`: `count_unembedded_nonfiles` takes a retracted vector for a vector
   (`ploke-db/src/multi_embedding/db_ext.rs:266-291`). After an edit and a scan the count
   is too small, and an update ends as Completed with nothing embedded.

## Known behaviour

What the models have and no property forbids, since the code does not promise otherwise:

- A denial can be overtaken by an automatic approval (see above).
- The lease cap orders leased messages by the turn they were last in a prompt, with
  new ones last: with the cap full a question is not in its own prompt (`chat_history.rs:732`).
- `EmbedMessage` takes the last question of the path on display, not the one that sent it; a
  request whose prompt was made for another question stays in `pending_requests`.
- An edit that was refused for a passing error (a read, the disk, the rename) counts like one that
  was refused for its hash: the proposal is Applied (`editing.rs:243`), and approving it again is
  turned away.
- A cosmetic edit is not found by a scan and passes the check of the hash: until the file is
  parsed again, snippets are cut out of the new file at the old places
  (`ploke-io/src/actor.rs:652-691`), shown in contexts and, if a run embeds them, kept as
  vectors.
- A batch that failed is behind the cursor and skipped by the next run. `/index` after an edit keeps
  the old vectors. A scan retracts in the active set only. An item that left its file can get a
  vector of whatever is at its old place. The flag "vectors may mix providers" is never set.
- The parts of a context carry the ids of the hits by position, and are off by those that have no
  live vector any more. `max_total` of a budget is compared with single parts only.
- The BM25 actor that the indexer feeds (`ploke-tui/src/lib.rs:183`) is searched by nobody; the one of the
  RagService is filled by `bm25 rebuild` and `bm25 load` only. A keyword search that waits longer than 250 ms,
  behind a rebuild for instance, fails a hybrid request as a whole.

## Not modelled

- Sequential translation of data: parser, transform but for the rows it puts, query building, providers. Their correctness is
  about trees, relations and texts; a model would repeat the program.
- Display and input; external services: CozoDB, MCP servers, the mpatch library.
- The proposals of `create_file`: the protocol of `EditProposals` over a second registry, down to the
  function bodies, with a save file of its own. Its write looks for the target and renames over it, with no
  lock: two creations of one path overwrite one another. The `ns_patch` write takes no lock either, but its tool
  never gets an answer (finding 1).
- Of the indexer: pause, resume and cancel, whose sender is dropped where it is made; the limit
  of 1200 s around a run; the seeding of the unused keyword index, but for its failure at
  the end of a run.
- Of retrieval: the token budgets, which only leave parts out; the reranker and MMR, which are
  off; scopes other than the workspace; saving the index, which writes its size.
- Of the session: the duration of backoffs; two calls with one id in a response; a response
  with an empty list of calls, which hangs as `ChatTimeout` shows.
