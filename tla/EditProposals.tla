---------------------------- MODULE EditProposals ----------------------------
(***************************************************************************)
(* The edit proposal registry of ploke-tui: LLM tool calls stage edits as  *)
(* proposals, the user approves or denies them, an approval writes the     *)
(* files, and every change of the registry is persisted to proposals.json. *)
(*                                                                         *)
(* Actors.  A tool call c is a task spawned by the LLM manager; it stages  *)
(* one proposal and, with auto-confirm on, goes on as the spawned approver *)
(* of that proposal.  Commander is the state manager task, which handles   *)
(* the user's commands one after the other.  The actors share the registry *)
(* only through a tokio RwLock that each of them takes and releases again  *)
(* several times in one operation, so their steps interleave.              *)
(*                                                                         *)
(* A file is the version its tracking hash stands for: a number that grows *)
(* with every change of the file's tokens.  The hash is taken of the       *)
(* tokens, so an edit of comments or white space leaves the version as it  *)
(* is.  One file write (hash check, splice, rename) is one step here; its  *)
(* parts, and the other programs that may come between, are in FileWrite.  *)
(***************************************************************************)
EXTENDS Naturals, FiniteSets, Sequences

CONSTANTS
  Calls,        \* tool calls
  NsCalls,      \* the calls of the ns_patch tool; the others are apply_code_edit
  Reqs,         \* request ids, naturals: their order is the order of the uuids
  ReqOf,        \* the request id of each call: all calls of one chat step share it
  Files,
  EditsOf,      \* the edits of each call, a sequence of [file, lo, hi] byte spans
  Cosmetic,     \* <<c, i>>: edit i of c changes only comments and white space
  AutoCalls,    \* the calls that find config.editing.auto_confirm_edits on
  UsizeMax,     \* usize::MAX
  MaxVersion,   \* bound: the user stops editing a file at this version
  MaxCommands,  \* bound: commands the user gives
  MaxCrashes,   \* bound: restarts of the program
  Commander,    \* the state manager task
  None,         \* no proposal, no request, no lock holder
  Torn          \* a proposals.json that does not parse

Span == [file : Files, lo : Nat, hi : Nat]

Status == {"Pending", "Approved", "Denied", "Applied", "Failed", "Stale"}

\* The payload of a proposal never changes once its call has built it, so a
\* clone of a proposal is the call it came from and its status.
Proposal == [call : Calls, status : Status]

ASSUME ConstantsAssumption ==
  /\ IsFiniteSet(Calls) /\ NsCalls \subseteq Calls
  /\ Reqs \subseteq Nat
  /\ ReqOf \in [Calls -> Reqs]
  /\ EditsOf \in [Calls -> Seq(Span)]
  /\ Cosmetic \subseteq (Calls \ NsCalls) \X Nat
  /\ AutoCalls \subseteq Calls
  /\ UsizeMax \in Nat /\ MaxVersion \in Nat /\ MaxCommands \in Nat /\ MaxCrashes \in Nat
  /\ Commander \notin Calls
  /\ None \notin Calls /\ None \notin Reqs

ASSUME NoneAssumption == None \notin Proposal

Workers == Calls \cup {Commander}

Registry == [Reqs -> Proposal \cup {None}]

NoProposal(p) == p = None
EmptyRegistry == [r \in Reqs |-> None]

VARIABLES
  proposals,   \* state.proposals
  guard,       \* the task that keeps the write guard across an await, or None
  pc,          \* where each task is
  req,         \* the request a task is working on
  prop,        \* the task's clone of the proposal
  pos,         \* the next edit of the batch to be written
  snap,        \* the task's copy of the registry, taken by save_proposals
  then,        \* where the task goes on after save_proposals
  bulk,        \* "approve" or "deny" while the commander runs a bulk command
  todo,        \* the proposals (by call) the bulk command still has to handle
  toStale,     \* the proposals (by call) it is about to mark stale
  disk,        \* proposals.json
  ver,         \* the version of each file
  dbVer,       \* the version of each file that the code graph was built from
  expected,    \* expected_file_hash of each call's edits, by file
  stamp,       \* proposed_at_ms of each call's proposal
  clock,
  rescan,      \* a scan_for_change task is outstanding
  answer,      \* what the first ToolCallCompleted/Failed told the chat loop
  landed,      \* history: <<c, i, v>>, edit i of call c replaced version v
  twice,       \* history: <<c, i>>, edit i of call c was written once more
  refused,     \* history: <<c, i>>, the write failed for a reason other than the hash
  commands,    \* the number of commands the user has given
  crashes

taskVars == <<pc, req, prop, pos, snap, then>>
bulkVars == <<bulk, todo, toStale>>
fileVars == <<ver, landed, twice, refused>>
callVars == <<expected, stamp, clock>>
vars == <<proposals, guard, taskVars, bulkVars, disk, fileVars, dbVer, callVars,
          rescan, answer, commands, crashes>>

(***************************************************************************)
(* Locks and small helpers.                                                *)
(***************************************************************************)

\* A task that does not hold the write guard itself waits for it; the task
\* that holds it waits too, because tokio's RwLock is not reentrant.
LockFree == guard = None

Goto(w, l) == pc' = [pc EXCEPT ![w] = l]

\* approve_edits, deny_edits or the tool call returns: its locals are gone.
Return(w) ==
  /\ Goto(w, IF w # Commander THEN "done" ELSE IF bulk = "none" THEN "idle" ELSE "bulk")
  /\ req' = [req EXCEPT ![w] = None]
  /\ prop' = [prop EXCEPT ![w] = None]
  /\ pos' = [pos EXCEPT ![w] = 1]

\* Begin save_proposals and continue at l afterwards.
Save(w, l) == Goto(w, "snapshot") /\ then' = [then EXCEPT ![w] = l]

\* realtime_tx.send(ToolCallCompleted / ToolCallFailed): the chat loop keeps the
\* first event of a call and ignores the later ones.
Answer(c, what) == answer' = [answer EXCEPT ![c] = IF @ = "none" THEN what ELSE @]

Insert(r, p, s) == proposals' = [proposals EXCEPT ![r] = [p EXCEPT !.status = s]]

EditAt(c, i) == EditsOf[c][i]
Landed(c, i) == \E x \in landed : x[1] = c /\ x[2] = i
NoMoreEdits(w) == pos[w] > Len(EditsOf[prop[w].call])

(***************************************************************************)
(* Overlap handling of approve_pending_edits.                              *)
(***************************************************************************)

\* normalize_range: an ordered, non-empty interval (saturating_add).
NormalizeRange(lo, hi) ==
  LET min == IF lo <= hi THEN lo ELSE hi
      max == IF lo <= hi THEN hi ELSE lo
  IN  [lo |-> min, hi |-> IF min = max /\ max < UsizeMax THEN min + 1 ELSE max]

\* proposal_ranges of a semantic proposal.
Ranges(c) == { LET n == NormalizeRange(EditAt(c, i).lo, EditAt(c, i).hi)
               IN  [file |-> EditAt(c, i).file, lo |-> n.lo, hi |-> n.hi] :
               i \in DOMAIN EditsOf[c] }

\* A non-semantic proposal touches the whole of its files.
Touches(c) ==
  IF c \in NsCalls
  THEN { [file |-> EditAt(c, i).file, lo |-> 0, hi |-> UsizeMax] : i \in DOMAIN EditsOf[c] }
  ELSE Ranges(c)

\* overlaps_existing, for the ranges of two proposals.
OverlapsExisting(occupied, ranges) ==
  \E x \in occupied, y \in ranges :
    x.file = y.file /\ y.lo < x.hi /\ x.lo < y.hi

\* Newest first, then by request id.
Newer(c, d) == stamp[c] > stamp[d] \/ (stamp[c] = stamp[d] /\ ReqOf[c] > ReqOf[d])

\* The pending proposals, by their calls.
Pending == { c \in Calls : proposals[ReqOf[c]] = [call |-> c, status |-> "Pending"] }

\* A slip BulkPlanSound notices: mark_occupied is forgotten.
PickUnmarked(pending) == pending

\* The pending proposals in the order in which the commander looks at them.
Sorted(pending) ==
  CHOOSE s \in [1 .. Cardinality(pending) -> pending] :
    /\ \A c \in pending : \E i \in DOMAIN s : s[i] = c
    /\ \A i, j \in DOMAIN s : i < j => Newer(s[i], s[j])

NothingPicked == [occupied |-> {}, picked |-> {}]

\* One turn of the loop: a proposal that overlaps nothing occupied is picked, and
\* what it touches is marked as occupied.
Visit(acc, c) ==
  IF OverlapsExisting(acc.occupied, Touches(c))
  THEN acc
  ELSE [occupied |-> acc.occupied \cup Touches(c), picked |-> acc.picked \cup {c}]

\* What the loop has picked and occupied after each of its turns.
GreedyPass(order) ==
  LET after[n \in 0 .. Len(order)] ==
        IF n = 0 THEN NothingPicked ELSE Visit(after[n - 1], order[n])
  IN  after

\* The proposals that are to be applied.
PickNonOverlapping(pending) == GreedyPass(Sorted(pending))[Cardinality(pending)].picked

(***************************************************************************)
(* Staging: process_tool, apply_code_edit_tool, apply_ns_code_edit_tool.   *)
(***************************************************************************)

ToolCallRequested(c) ==
  /\ pc[c] = "idle"
  /\ Goto(c, IF c \in NsCalls THEN "resolve" ELSE "check")
  /\ req' = [req EXCEPT ![c] = ReqOf[c]]
  /\ UNCHANGED <<proposals, guard, prop, pos, snap, then, bulkVars, disk, fileVars,
                 dbVer, callVars, rescan, answer, commands, crashes>>

\* The guard against duplicate requests reads the registry and lets go of it.
CheckDuplicate(c) ==
  /\ pc[c] = "check"
  /\ LockFree
  /\ IF NoProposal(proposals[req[c]])
     THEN Goto(c, "resolve") /\ UNCHANGED <<answer, req, prop, pos>>
     ELSE Return(c) /\ Answer(c, "failed")
  /\ UNCHANGED <<proposals, guard, snap, then, bulkVars, disk, fileVars,
                 dbVer, callVars, rescan, commands, crashes>>

\* An earlier parse failure, an invalid path, no or several matching nodes, a
\* patch that does not parse: the call fails and stages nothing.
StagingFails(c) ==
  /\ pc[c] \in {"check", "resolve"}
  /\ Return(c)
  /\ Answer(c, "failed")
  /\ UNCHANGED <<proposals, guard, snap, then, bulkVars, disk, fileVars,
                 dbVer, callVars, rescan, commands, crashes>>

\* A semantic edit expects the hash its node has in the code graph, an ns patch
\* the hash of the file as it is now.
ResolveEdits(c) ==
  /\ pc[c] = "resolve"
  /\ expected' = [expected EXCEPT ![c] = IF c \in NsCalls THEN ver ELSE dbVer]
  /\ Goto(c, "insert")
  /\ UNCHANGED <<proposals, guard, req, prop, pos, snap, then, bulkVars, disk, fileVars,
                 dbVer, stamp, clock, rescan, answer, commands, crashes>>

\* A slip EveryCallAnswered notices: the guard is dropped after the save only.
StageHoldingGuard(c) ==
  /\ pc[c] = "insert"
  /\ LockFree
  /\ \E now \in {clock, clock + 1} :
       clock' = now /\ stamp' = [stamp EXCEPT ![c] = now]
  /\ proposals' = [proposals EXCEPT ![req[c]] = [call |-> c, status |-> "Pending"]]
  /\ guard' = c
  /\ Save(c, "announce")
  /\ UNCHANGED <<req, prop, pos, snap, bulkVars, disk, fileVars, dbVer, expected,
                 rescan, answer, commands, crashes>>

\* reg.insert overwrites whatever the registry holds for this request id.  The
\* ns tool does not drop its write guard before it calls save_proposals.
StageProposal(c) ==
  /\ pc[c] = "insert"
  /\ LockFree
  /\ \E now \in {clock, clock + 1} :
       clock' = now /\ stamp' = [stamp EXCEPT ![c] = now]
  /\ proposals' = [proposals EXCEPT ![req[c]] = [call |-> c, status |-> "Pending"]]
  /\ guard' = IF c \in NsCalls THEN c ELSE None
  /\ Save(c, "announce")
  /\ UNCHANGED <<req, prop, pos, snap, bulkVars, disk, fileVars, dbVer, expected,
                 rescan, answer, commands, crashes>>

\* Tell the chat loop; with auto-confirm on, spawn the approval.
AnnounceStaged(c) ==
  /\ pc[c] = "announce"
  /\ Answer(c, "staged")
  /\ guard' = IF guard = c THEN None ELSE guard
  /\ IF c \in AutoCalls \ NsCalls
     THEN Goto(c, "approve") /\ UNCHANGED <<req, prop, pos>>
     ELSE Return(c)
  /\ UNCHANGED <<proposals, snap, then, bulkVars, disk, fileVars,
                 dbVer, callVars, rescan, commands, crashes>>

(***************************************************************************)
(* approve_edits, with apply_semantic_edit.                                *)
(***************************************************************************)

\* A slip ResolvedIsFinal and DeniedStaysDiscarded notice: the early return for
\* denied proposals is missing.
ApproveDeniedToo(w) ==
  /\ pc[w] = "approve"
  /\ LockFree
  /\ LET p == proposals[req[w]] IN
     IF NoProposal(p) \/ p.status = "Applied"
     THEN Return(w)
     ELSE /\ prop' = [prop EXCEPT ![w] = p]
          /\ pos' = [pos EXCEPT ![w] = 1]
          /\ Goto(w, "write")
          /\ UNCHANGED req
  /\ UNCHANGED <<proposals, guard, snap, then, bulkVars, disk, fileVars, dbVer,
                 callVars, rescan, answer, commands, crashes>>

\* Clone the proposal, let go of the lock, and look at the clone's status.
ApproveRead(w) ==
  /\ pc[w] = "approve"
  /\ LockFree
  /\ LET p == proposals[req[w]] IN
     IF NoProposal(p) \/ p.status \in {"Applied", "Denied"}
     THEN Return(w)
     ELSE /\ prop' = [prop EXCEPT ![w] = p]
          /\ pos' = [pos EXCEPT ![w] = 1]
          /\ Goto(w, "write")
          /\ UNCHANGED req
  /\ UNCHANGED <<proposals, guard, snap, then, bulkVars, disk, fileVars, dbVer,
                 callVars, rescan, answer, commands, crashes>>

\* A slip AtMostOnce notices: the expected hash is not compared.
WriteUnchecked(w) ==
  LET c == prop[w].call
      f == EditAt(c, pos[w]).file
  IN
  /\ pc[w] = "write" /\ ~NoMoreEdits(w)
  /\ ver' = [ver EXCEPT ![f] = IF <<c, pos[w]>> \in Cosmetic THEN @ ELSE @ + 1]
  /\ landed' = landed \cup {<<c, pos[w], ver[f]>>}
  /\ twice' = IF Landed(c, pos[w]) THEN twice \cup {<<c, pos[w]>>} ELSE twice
  /\ pos' = [pos EXCEPT ![w] = @ + 1]
  /\ UNCHANGED <<proposals, guard, pc, req, prop, snap, then, bulkVars, disk, refused,
                 dbVer, callVars, rescan, answer, commands, crashes>>

\* The I/O manager writes the next edit if the file still has the expected hash.
WriteEdit(w) ==
  LET c == prop[w].call
      f == EditAt(c, pos[w]).file
  IN
  /\ pc[w] = "write" /\ ~NoMoreEdits(w)
  /\ ver[f] = expected[c][f]
  /\ ver' = [ver EXCEPT ![f] = IF <<c, pos[w]>> \in Cosmetic THEN @ ELSE @ + 1]
  /\ landed' = landed \cup {<<c, pos[w], ver[f]>>}
  /\ twice' = IF Landed(c, pos[w]) THEN twice \cup {<<c, pos[w]>>} ELSE twice
  /\ pos' = [pos EXCEPT ![w] = @ + 1]
  /\ UNCHANGED <<proposals, guard, pc, req, prop, snap, then, bulkVars, disk, refused,
                 dbVer, callVars, rescan, answer, commands, crashes>>

\* ContentMismatch: the batch goes on with the next edit.
SkipMismatch(w) ==
  LET c == prop[w].call
      f == EditAt(c, pos[w]).file
  IN
  /\ pc[w] = "write" /\ ~NoMoreEdits(w)
  /\ ver[f] # expected[c][f]
  /\ pos' = [pos EXCEPT ![w] = @ + 1]
  /\ UNCHANGED <<proposals, guard, pc, req, prop, snap, then, bulkVars, disk, fileVars,
                 dbVer, callVars, rescan, answer, commands, crashes>>

\* Any other error of one write (range, encoding, parse, disk): on to the next.
WriteRefused(w) ==
  /\ pc[w] = "write" /\ ~NoMoreEdits(w)
  /\ refused' = refused \cup {<<prop[w].call, pos[w]>>}
  /\ pos' = [pos EXCEPT ![w] = @ + 1]
  /\ UNCHANGED <<proposals, guard, pc, req, prop, snap, then, bulkVars, disk, ver, landed, twice,
                 dbVer, callVars, rescan, answer, commands, crashes>>

\* A slip AppliedIsSettled notices: the status is set before the batch is done.
MarkAppliedEarly(w) ==
  /\ pc[w] = "write"
  /\ LockFree
  /\ Insert(req[w], prop[w], "Applied")
  /\ Answer(prop[w].call, "applied")
  /\ Save(w, IF prop[w].call \in NsCalls THEN "return" ELSE "rescan")
  /\ UNCHANGED <<guard, req, prop, pos, snap, bulkVars, disk, fileVars, dbVer, callVars,
                 rescan, commands, crashes>>

\* Ok(results): Applied, whatever the results were.  Only apply_semantic_edit
\* schedules a rescan.
MarkApplied(w) ==
  /\ pc[w] = "write" /\ NoMoreEdits(w)
  /\ LockFree
  /\ Insert(req[w], prop[w], "Applied")
  /\ Answer(prop[w].call, "applied")
  /\ Save(w, IF prop[w].call \in NsCalls THEN "return" ELSE "rescan")
  /\ UNCHANGED <<guard, req, prop, pos, snap, bulkVars, disk, fileVars, dbVer, callVars,
                 rescan, commands, crashes>>

\* Err(e): the I/O manager or the task of this batch is gone.
MarkFailed(w) ==
  /\ pc[w] = "write"
  /\ LockFree
  /\ Insert(req[w], prop[w], "Failed")
  /\ Answer(prop[w].call, "failed")
  /\ Save(w, "return")
  /\ UNCHANGED <<guard, req, prop, pos, snap, bulkVars, disk, fileVars, dbVer, callVars,
                 rescan, commands, crashes>>

\* rescan_for_changes spawns the scan and returns.
SpawnRescan(w) ==
  /\ pc[w] = "rescan"
  /\ rescan' = TRUE
  /\ Return(w)
  /\ UNCHANGED <<proposals, guard, snap, then, bulkVars, disk, fileVars,
                 dbVer, callVars, answer, commands, crashes>>

(***************************************************************************)
(* save_proposals: clone the registry under the read lock, then truncate   *)
(* and write proposals.json without any lock.                              *)
(***************************************************************************)

SaveSnapshot(w) ==
  /\ pc[w] = "snapshot"
  /\ LockFree
  /\ snap' = [snap EXCEPT ![w] = proposals]
  /\ Goto(w, "truncate")
  /\ UNCHANGED <<proposals, guard, req, prop, pos, then, bulkVars, disk, fileVars,
                 dbVer, callVars, rescan, answer, commands, crashes>>

SaveTruncate(w) ==
  /\ pc[w] = "truncate"
  /\ disk' = Torn
  /\ Goto(w, "flush")
  /\ UNCHANGED <<proposals, guard, req, prop, pos, snap, then, bulkVars, fileVars,
                 dbVer, callVars, rescan, answer, commands, crashes>>

\* A file that another save has filled meanwhile may keep that save's tail.
SaveFlush(w) ==
  /\ pc[w] = "flush"
  /\ \/ disk' = snap[w]
     \/ disk # Torn /\ disk' = Torn
  /\ snap' = [snap EXCEPT ![w] = EmptyRegistry]
  /\ then' = [then EXCEPT ![w] = "return"]
  /\ IF then[w] = "return" THEN Return(w)
     ELSE Goto(w, then[w]) /\ UNCHANGED <<req, prop, pos>>
  /\ UNCHANGED <<proposals, guard, bulkVars, fileVars, dbVer, callVars, rescan, answer,
                 commands, crashes>>

(***************************************************************************)
(* The user's commands, handled by the state manager.                      *)
(***************************************************************************)

\* The state manager takes the next command.
UserCommand ==
  /\ pc[Commander] = "idle"
  /\ commands < MaxCommands
  /\ commands' = commands + 1

ApproveEdits(r) ==
  /\ UserCommand
  /\ req' = [req EXCEPT ![Commander] = r]
  /\ Goto(Commander, "approve")
  /\ UNCHANGED <<proposals, guard, prop, pos, snap, then, bulkVars, disk, fileVars,
                 dbVer, callVars, rescan, answer, crashes>>

DenyEdits(r) ==
  /\ UserCommand
  /\ req' = [req EXCEPT ![Commander] = r]
  /\ Goto(Commander, "deny")
  /\ UNCHANGED <<proposals, guard, prop, pos, snap, then, bulkVars, disk, fileVars,
                 dbVer, callVars, rescan, answer, crashes>>

DenyRead ==
  /\ pc[Commander] = "deny"
  /\ LockFree
  /\ LET p == proposals[req[Commander]] IN
     IF NoProposal(p) \/ p.status \in {"Applied", "Denied"}
     THEN Return(Commander)
     ELSE /\ prop' = [prop EXCEPT ![Commander] = p]
          /\ Goto(Commander, "denied")
          /\ UNCHANGED <<req, pos>>
  /\ UNCHANGED <<proposals, guard, snap, then, bulkVars, disk, fileVars,
                 dbVer, callVars, rescan, answer, commands, crashes>>

MarkDenied ==
  /\ pc[Commander] = "denied"
  /\ LockFree
  /\ Insert(req[Commander], prop[Commander], "Denied")
  /\ Answer(prop[Commander].call, "failed")
  /\ Save(Commander, "return")
  /\ UNCHANGED <<guard, req, prop, pos, snap, bulkVars, disk, fileVars, dbVer, callVars,
                 rescan, commands, crashes>>

\* approve_pending_edits: the snapshot of the pending proposals and the plan.
ApprovePendingEdits ==
  /\ UserCommand
  /\ LockFree
  /\ Pending # {}
  /\ LET picked == PickNonOverlapping(Pending) IN
     todo' = picked /\ toStale' = Pending \ picked
  /\ bulk' = "approve"
  /\ Goto(Commander, "stale")
  /\ UNCHANGED <<proposals, guard, req, prop, pos, snap, then, disk, fileVars, dbVer,
                 callVars, rescan, answer, crashes>>

\* get_mut on what the registry holds now, without a look at its status.
MarkStale ==
  /\ pc[Commander] = "stale"
  /\ LockFree \/ toStale = {}
  /\ proposals' = [r \in Reqs |->
                     IF (\E c \in toStale : ReqOf[c] = r) /\ ~NoProposal(proposals[r])
                     THEN [proposals[r] EXCEPT !.status = "Stale"] ELSE proposals[r]]
  /\ toStale' = {}
  /\ Goto(Commander, "bulk")
  /\ UNCHANGED <<guard, req, prop, pos, snap, then, bulk, todo, disk, fileVars, dbVer,
                 callVars, rescan, answer, commands, crashes>>

DenyPendingEdits ==
  /\ UserCommand
  /\ LockFree
  /\ Pending # {}
  /\ todo' = Pending
  /\ bulk' = "deny"
  /\ Goto(Commander, "bulk")
  /\ UNCHANGED <<proposals, guard, req, prop, pos, snap, then, toStale, disk, fileVars,
                 dbVer, callVars, rescan, answer, crashes>>

\* A slip CommandsEnd notices: the handled proposal stays on the list.
BulkNextAgain(c) ==
  /\ pc[Commander] = "bulk"
  /\ c \in todo
  /\ req' = [req EXCEPT ![Commander] = ReqOf[c]]
  /\ Goto(Commander, bulk)
  /\ UNCHANGED <<proposals, guard, prop, pos, snap, then, bulk, todo, toStale, disk,
                 fileVars, dbVer, callVars, rescan, answer, commands, crashes>>

\* The next proposal of a bulk command: newest first for an approval, in any
\* order (that of the hash map) for a denial.
BulkNext(c) ==
  /\ pc[Commander] = "bulk"
  /\ c \in todo
  /\ bulk = "approve" => \A d \in todo : ~Newer(d, c)
  /\ todo' = todo \ {c}
  /\ req' = [req EXCEPT ![Commander] = ReqOf[c]]
  /\ Goto(Commander, bulk)
  /\ UNCHANGED <<proposals, guard, prop, pos, snap, then, bulk, toStale, disk, fileVars,
                 dbVer, callVars, rescan, answer, commands, crashes>>

\* approve_pending_edits saves once more at its end, deny_pending_edits does not.
BulkEnd ==
  /\ pc[Commander] = "bulk"
  /\ todo = {}
  /\ bulk' = "none"
  /\ IF bulk = "approve" THEN Save(Commander, "return")
     ELSE Goto(Commander, "idle") /\ UNCHANGED then
  /\ UNCHANGED <<proposals, guard, req, prop, pos, snap, todo, toStale, disk, fileVars,
                 dbVer, callVars, rescan, answer, commands, crashes>>

(***************************************************************************)
(* The environment: rescans, the user's editor, restarts.                  *)
(***************************************************************************)

\* scan_for_change re-parses the changed files into the code graph, or fails.
Rescan ==
  /\ rescan
  /\ rescan' = FALSE
  /\ dbVer' \in {dbVer, ver}
  /\ UNCHANGED <<proposals, guard, taskVars, bulkVars, disk, fileVars, callVars, answer,
                 commands, crashes>>

ExternalEdit(f) ==
  /\ ver[f] < MaxVersion
  /\ ver' = [ver EXCEPT ![f] = @ + 1]
  /\ UNCHANGED <<proposals, guard, taskVars, bulkVars, disk, landed, twice, refused, dbVer,
                 callVars, rescan, answer, commands, crashes>>

\* A slip TypeOK notices: what proposals.json holds is taken without a check.
RestartUnchecked ==
  /\ crashes < MaxCrashes
  /\ crashes' = crashes + 1
  /\ proposals' = disk
  /\ guard' = None
  /\ pc' = [w \in Workers |-> IF w = Commander \/ pc[w] = "idle" THEN "idle" ELSE "done"]
  /\ req' = [w \in Workers |-> None]
  /\ prop' = [w \in Workers |-> None]
  /\ pos' = [w \in Workers |-> 1]
  /\ snap' = [w \in Workers |-> EmptyRegistry]
  /\ then' = [w \in Workers |-> "return"]
  /\ bulk' = "none" /\ todo' = {} /\ toStale' = {}
  /\ rescan' = FALSE
  /\ UNCHANGED <<disk, fileVars, dbVer, callVars, answer, commands>>

\* All tasks are gone; load_proposals reads the file, and keeps the empty
\* registry if it does not parse.
CrashAndRestart ==
  /\ crashes < MaxCrashes
  /\ crashes' = crashes + 1
  /\ proposals' = IF disk = Torn THEN EmptyRegistry ELSE disk
  /\ guard' = None
  /\ pc' = [w \in Workers |->
              IF w = Commander THEN "idle" ELSE IF pc[w] = "idle" THEN "idle" ELSE "done"]
  /\ req' = [w \in Workers |-> None]
  /\ prop' = [w \in Workers |-> None]
  /\ pos' = [w \in Workers |-> 1]
  /\ snap' = [w \in Workers |-> EmptyRegistry]
  /\ then' = [w \in Workers |-> "return"]
  /\ bulk' = "none" /\ todo' = {} /\ toStale' = {}
  /\ rescan' = FALSE
  /\ UNCHANGED <<disk, fileVars, dbVer, callVars, answer, commands>>

(***************************************************************************)
(* The specification.                                                      *)
(***************************************************************************)

Init ==
  /\ proposals = EmptyRegistry
  /\ guard = None
  /\ pc = [w \in Workers |-> "idle"]
  /\ req = [w \in Workers |-> None]
  /\ prop = [w \in Workers |-> None]
  /\ pos = [w \in Workers |-> 1]
  /\ snap = [w \in Workers |-> EmptyRegistry]
  /\ then = [w \in Workers |-> "return"]
  /\ bulk = "none" /\ todo = {} /\ toStale = {}
  /\ disk = EmptyRegistry
  /\ ver = [f \in Files |-> 0]
  /\ dbVer = [f \in Files |-> 0]
  /\ expected = [c \in Calls |-> [f \in Files |-> 0]]
  /\ stamp = [c \in Calls |-> 0]
  /\ clock = 0
  /\ rescan = FALSE
  /\ answer = [c \in Calls |-> "none"]
  /\ landed = {} /\ twice = {} /\ refused = {}
  /\ commands = 0 /\ crashes = 0

\* The steps of a tool call up to its answer, of an approval, of a save.
Stage(c) ==
  \/ CheckDuplicate(c) \/ StagingFails(c) \/ ResolveEdits(c) \/ StageProposal(c)
  \/ AnnounceStaged(c)

Approve(w) ==
  \/ ApproveRead(w) \/ WriteEdit(w) \/ SkipMismatch(w) \/ WriteRefused(w)
  \/ MarkApplied(w) \/ MarkFailed(w) \/ SpawnRescan(w)

SaveProposals(w) == SaveSnapshot(w) \/ SaveTruncate(w) \/ SaveFlush(w)

Command ==
  \/ \E r \in Reqs : ApproveEdits(r) \/ DenyEdits(r)
  \/ ApprovePendingEdits \/ DenyPendingEdits

Handle == DenyRead \/ MarkDenied \/ MarkStale \/ (\E c \in Calls : BulkNext(c)) \/ BulkEnd

Next ==
  \/ \E c \in Calls : ToolCallRequested(c) \/ Stage(c)
  \/ \E w \in Workers : Approve(w) \/ SaveProposals(w)
  \/ Command \/ Handle
  \/ Rescan
  \/ \E f \in Files : ExternalEdit(f)
  \/ CrashAndRestart

Spec == Init /\ [][Next]_vars

\* tokio runs every task that can make progress; its RwLock is fair, and a step
\* below that is enabled stays enabled unless the lock is never released.
Fairness ==
  /\ \A c \in Calls : WF_vars(Stage(c))
  /\ \A w \in Workers : WF_vars(Approve(w)) /\ WF_vars(SaveProposals(w))
  /\ WF_vars(Handle)

FairSpec == Spec /\ Fairness

(***************************************************************************)
(* Properties.                                                             *)
(***************************************************************************)

PC == {"idle", "check", "resolve", "insert", "announce", "approve", "write", "rescan",
       "snapshot", "truncate", "flush", "deny", "denied", "stale", "bulk", "done"}

\* The shape of the state: what each field of AppState, each task's local and
\* proposals.json can hold.
TypeOK ==
  /\ proposals \in Registry
  /\ guard \in Calls \cup {None}
  /\ pc \in [Workers -> PC]
  /\ req \in [Workers -> Reqs \cup {None}]
  /\ prop \in [Workers -> Proposal \cup {None}]
  /\ pos \in [Workers -> Nat \ {0}]
  /\ snap \in [Workers -> Registry]
  /\ then \in [Workers -> {"return", "announce", "rescan"}]
  /\ bulk \in {"none", "approve", "deny"}
  /\ todo \subseteq Calls /\ toStale \subseteq Calls
  /\ disk \in Registry \cup {Torn}
  /\ ver \in [Files -> Nat] /\ dbVer \in [Files -> Nat]
  /\ expected \in [Calls -> [Files -> Nat]]
  /\ stamp \in [Calls -> Nat] /\ clock \in Nat
  /\ rescan \in BOOLEAN
  /\ answer \in [Calls -> {"none", "staged", "applied", "failed"}]
  /\ landed \subseteq Calls \X Nat \X Nat
  /\ twice \subseteq Calls \X Nat
  /\ refused \subseteq Calls \X Nat
  /\ commands \in Nat /\ crashes \in Nat

\* An edit that changes the tokens of its file is written at most once, whatever
\* approvals of its proposal run at the same time, however often a failed, stale
\* or reloaded proposal is retried, and although a restart may offer an applied
\* proposal as pending again: the expected hash of process_one_write is what
\* stands in the way, and nothing does for an edit the hash does not see.
AtMostOnce == twice \subseteq Cosmetic

\* Nothing is left to be applied of edit i of call c: it has landed, its file has
\* moved past the version it was made for, or the write itself was refused.
EditSettled(c, i) ==
  \/ Landed(c, i)
  \/ expected[c][EditAt(c, i).file] < ver[EditAt(c, i).file]
  \/ <<c, i>> \in refused

Settled(c) == \A i \in DOMAIN EditsOf[c] : EditSettled(c, i)

SettledIfApplied(p) == p # None /\ p.status = "Applied" => Settled(p.call)

\* A proposal is called Applied only after every one of its edits was tried, in
\* the registry and in the file a restart reads: each is written, or was refused,
\* for its hash or for an error that a second try might not meet (write.rs:267-350).
\* Applied does not say that an edit was made, and a retry is turned away.
AppliedIsSettled ==
  \A r \in Reqs : /\ SettledIfApplied(proposals[r])
                  /\ disk # Torn => SettledIfApplied(disk[r])

\* A call that was told its proposal is staged finds it in the registry for as
\* long as the program runs: no other call of the same or another step, and no
\* approver's late insert, replaces it.
StagedSurvives ==
  crashes = 0 =>
    \A c \in Calls : answer[c] = "staged" =>
       ~NoProposal(proposals[ReqOf[c]]) /\ proposals[ReqOf[c]].call = c

HasStatus(r, s) == ~NoProposal(proposals[r]) /\ proposals[r].status = s

\* Applied and Denied are final while the program runs: neither a late insert of
\* a clone nor the stale marks of a bulk approval take a resolved proposal back.
ResolvedIsFinal ==
  [][\A r \in Reqs, s \in {"Applied", "Denied"} :
       HasStatus(r, s) /\ crashes' = crashes => HasStatus(r, s)']_vars

\* Once a proposal is denied none of its edits reaches a file.
DeniedStaysDiscarded ==
  [][\A r \in Reqs : HasStatus(r, "Denied") =>
       ~ \E x \in landed' \ landed : x[1] = proposals[r].call]_vars

Overlap(c, d) == OverlapsExisting(Touches(c), Touches(d))

\* The plan of a bulk approval: no two proposals it applies overlap, and each one
\* it marks stale overlaps a newer one that it applies.
BulkPlanSound ==
  pc[Commander] = "stale" =>
    /\ \A c, d \in todo : c # d => ~Overlap(c, d)
    /\ \A c \in toStale : \E d \in todo : Newer(d, c) /\ Overlap(c, d)

\* Every tool call that is dispatched is answered, or the program restarts.
EveryCallAnswered ==
  \A c \in Calls : (pc[c] # "idle") ~> (answer[c] # "none" \/ crashes > 0)

\* Every command comes to its end: the state manager, which handles one command
\* at a time, is never stuck in one.
CommandsEnd == (pc[Commander] # "idle") ~> (pc[Commander] = "idle")

=============================================================================
