------------------------------ MODULE Retrieval ------------------------------
(***************************************************************************)
(* How a context of code is retrieved (ploke-rag) from a code graph that   *)
(* changes meanwhile, with the keyword index kept by the BM25 actor of     *)
(* ploke-db.                                                               *)
(*                                                                         *)
(* Actors.  The requests: a user's question, which the state manager       *)
(* serves, and the calls of request_code_context and the context window,   *)
(* which are tasks; the BM25 actor with its channel; the state manager;    *)
(* whoever edits files; an indexing run, here of one batch.                *)
(*                                                                         *)
(* Left out: the token budgets, which only leave parts out; the reranker   *)
(* and MMR, which are off; scopes narrower than the workspace, which       *)
(* nobody asks for; the BM25 actor that the indexer feeds, which nobody    *)
(* searches; saving the index, which writes only its size, and loading it, *)
(* which is a rebuild; the searches the user types, which are a request    *)
(* without the context.                                                    *)
(***************************************************************************)
EXTENDS CodeGraph, SequencesExt

CONSTANTS
  Requests,
  Questions,    \* the requests the state manager serves itself
  Strategies,   \* those the configuration may name
  FirstLive,    \* the nodes that have a vector when the graph is loaded
  Near, Match,  \* the nodes as the query has them near, and those it matches by keyword
  TopK,
  Retries,      \* the length of bm25_retry_backoff_ms
  ChannelCap,
  Edited,       \* bound: the files that are edited
  MaxRebuilds   \* bound

ASSUME RetrievalAssumption ==
  /\ Questions \subseteq Requests /\ FirstLive \subseteq Nodes
  /\ Strategies \subseteq {"dense", "sparse", "strict", "hybrid"}
  /\ Near \in Seq(Nodes) /\ Match \in Seq(Nodes)
  /\ IsInjective(Near) /\ IsInjective(Match)
  /\ TopK \in Nat /\ Retries \in Nat /\ ChannelCap \in Nat \ {0} /\ MaxRebuilds \in Nat
  /\ Edited \subseteq Files /\ Cardinality(Models) = 1

VARIABLES
  disk, graph,
  manager,  \* what the state manager is doing
  inbox,    \* the channel to the BM25 actor
  actor,    \* what the BM25 actor is doing
  index,    \* the nodes in the keyword index
  status,
  strategy, \* config.rag.strategy
  request,
  rebuilds,
  asked,    \* history: the nodes there were when a rebuild was last asked for
  failed    \* history: a rebuild has failed

worldVars == <<disk, graph, strategy>>
actorVars == <<actor, index, status>>
historyVars == <<rebuilds, asked, failed>>
vars == <<worldVars, manager, inbox, actorVars, request, historyVars>>

Set == CHOOSE m \in Models : TRUE   \* the active embedding set
Idle == [step |-> "idle"]

\* sparse and dense are where the two searches of a request are, or what they found;
\* known is history: the matching nodes of which a rebuild was asked before the request.
NewRequest ==
  [pc |-> "new", attempts |-> 0, heard |-> "Uninitialized",
   sparse |-> "none", bm25 |-> <<>>, dense |-> "none", near |-> <<>>,
   hits |-> <<>>, nodes |-> <<>>, known |-> {}]

Rows == {n \in Nodes : graph.row[n] # 0}

Init ==
  /\ disk = [f \in Files |-> 1] /\ strategy \in Strategies
  /\ graph = PutVectors(Transform(EmptyGraph, Files, disk), Set, [n \in FirstLive |-> HashOf[1]], Set)
  /\ manager = Idle
  /\ inbox = <<>> /\ actor = Idle /\ index = {} /\ status = "Uninitialized"
  /\ request = [r \in Requests |-> NewRequest]
  /\ rebuilds = 0 /\ asked = {} /\ failed = FALSE

(***************************************************************************)
(* The files, the indexing and the state manager.                          *)
(***************************************************************************)

Edit(f) ==
  /\ f \in Edited
  /\ \E v \in disk[f] + 1 .. Versions : disk' = [disk EXCEPT ![f] = v]
  /\ UNCHANGED <<graph, strategy, manager, inbox, actorVars, request, historyVars>>

\* Vectors for the nodes without one whose snippets can be read.  The whole of a batch is
\* one step: Indexing has the steps and what comes in between.
IndexNodes ==
  LET left == [n \in {n \in Rows : ~IsLive(graph, Set, n)} |-> EmbedData(graph, n)] IN
  \E read \in Readings(left, disk) :
    LET valid == {n \in DOMAIN left : read[n].ok} IN
    /\ valid # {}
    /\ graph' = PutVectors(graph, Set, [n \in valid |-> read[n].text], Set)
    /\ UNCHANGED <<disk, strategy, manager, inbox, actorVars, request, historyVars>>

ScanParse ==
  LET changed == {f \in Files : HashOf[graph.parsed[f]] # HashOf[disk[f]]} IN
  /\ manager = Idle /\ changed # {}
  /\ graph' = Transform(graph, changed, disk)
  /\ manager' = [step |-> "retract", changed |-> changed]
  /\ UNCHANGED <<disk, strategy, inbox, actorVars, request, historyVars>>

ScanRetract ==
  /\ manager.step = "retract"
  /\ graph' = RetractFiles(graph, Set, manager.changed)
  /\ manager' = Idle
  /\ UNCHANGED <<disk, strategy, inbox, actorVars, request, historyVars>>

HasRoom == Len(inbox) < ChannelCap

\* bm25_rebuild only waits until the channel takes the command.
AskRebuild ==
  /\ manager = Idle /\ rebuilds < MaxRebuilds
  /\ rebuilds' = rebuilds + 1
  /\ manager' = [step |-> "rebuild"]
  /\ UNCHANGED <<worldVars, inbox, actorVars, request, asked, failed>>

\* A slip RebuildHeard notices: as the indexer sends its batches, if there is room.
TrySendRebuild ==
  /\ manager.step = "rebuild"
  /\ inbox' = IF HasRoom THEN Append(inbox, [cmd |-> "rebuild"]) ELSE inbox
  /\ manager' = Idle /\ asked' = Rows
  /\ UNCHANGED <<worldVars, actorVars, request, rebuilds, failed>>

SendRebuild ==
  /\ manager.step = "rebuild" /\ HasRoom
  /\ inbox' = Append(inbox, [cmd |-> "rebuild"])
  /\ manager' = Idle /\ asked' = Rows
  /\ UNCHANGED <<worldVars, actorVars, request, rebuilds, failed>>

(***************************************************************************)
(* The BM25 actor: one command after the other.                            *)
(***************************************************************************)

\* The members of s that are in S, in the order they have there.
Among(s, S) ==
  LET upTo[i \in 0 .. Len(s)] ==
        IF i = 0 THEN <<>>
        ELSE IF s[i] \in S THEN Append(upTo[i - 1], s[i]) ELSE upTo[i - 1]
  IN  upTo[Len(s)]

Truncate(s) == SubSeq(s, 1, Min({TopK, Len(s)}))

\* A slip TypeOK notices: all that matches is the answer.
SearchAll == Among(Match, index)

Search == Truncate(Among(Match, index))

\* An answer to somebody who has given up waiting is dropped.
Answers(command) ==
  LET r == command.by IN
  IF request[r].sparse # command.cmd \/ request[r].attempts # command.attempt
  THEN UNCHANGED request
  ELSE request' = [request EXCEPT ![r] =
         IF command.cmd = "status" THEN [@ EXCEPT !.sparse = "search to send", !.heard = status]
         ELSE [@ EXCEPT !.sparse = "answered", !.bm25 = Search, !.known = {}]]

Serve ==
  /\ actor = Idle /\ inbox # <<>> /\ Head(inbox).cmd # "rebuild"
  /\ Answers(Head(inbox))
  /\ inbox' = Tail(inbox)
  /\ UNCHANGED <<worldVars, manager, actorVars, historyVars>>

BeginRebuild ==
  /\ actor = Idle /\ inbox # <<>> /\ Head(inbox).cmd = "rebuild"
  /\ actor' = [step |-> "rebuild", kind |-> 1, found |-> {}]
  /\ inbox' = Tail(inbox)
  /\ UNCHANGED <<worldVars, manager, index, status, request, historyVars>>

\* rebuild_from_db queries one node type after the other.
RebuildKind ==
  /\ actor.step = "rebuild" /\ actor.kind <= Kinds
  /\ actor' = [actor EXCEPT !.kind = @ + 1,
                            !.found = @ \cup {n \in Rows : KindOf[n] = actor.kind}]
  /\ UNCHANGED <<worldVars, manager, inbox, index, status, request, historyVars>>

\* It fails as a whole; the index is what it was.
RebuildFails ==
  /\ actor.step = "rebuild" /\ actor.kind <= Kinds
  /\ actor' = Idle /\ status' = "Error" /\ failed' = TRUE
  /\ UNCHANGED <<worldVars, manager, inbox, index, request, rebuilds, asked>>

EndRebuild ==
  /\ actor.step = "rebuild" /\ actor.kind > Kinds
  /\ index' = actor.found
  /\ status' = IF actor.found = {} THEN "Empty" ELSE "Ready"
  /\ actor' = Idle
  /\ UNCHANGED <<worldVars, manager, inbox, request, historyVars>>

(***************************************************************************)
(* A request: get_context.                                                 *)
(***************************************************************************)

To(r, changed) ==
  /\ request' = [request EXCEPT ![r] = changed]
  /\ UNCHANGED <<worldVars, inbox, actorVars, historyVars>>

On(r, changed) == To(r, changed) /\ UNCHANGED manager

\* With the parts or with an error, which a chat goes on without.
End(r) ==
  /\ To(r, [NewRequest EXCEPT !.pc = "ended"])
  /\ manager' = IF manager = [step |-> "question", for |-> r] THEN Idle ELSE manager

Begin(r) ==
  /\ request[r].pc = "new"
  /\ IF r \in Questions THEN manager = Idle /\ manager' = [step |-> "question", for |-> r]
     ELSE UNCHANGED manager
  /\ To(r, [NewRequest EXCEPT
              !.pc = "search", !.known = asked \cap ToSet(Match),
              !.sparse = IF strategy = "dense" THEN "none" ELSE "status to send",
              !.dense = IF strategy \in {"dense", "hybrid"} THEN "embedding" ELSE "none"])

Send(r, from, to) ==
  /\ request[r].sparse = from /\ HasRoom
  /\ inbox' = Append(inbox, [cmd |-> to, by |-> r, attempt |-> request[r].attempts])
  /\ request' = [request EXCEPT ![r].sparse = to]
  /\ UNCHANGED <<worldVars, manager, actorVars, historyVars>>

SendStatus(r) == Send(r, "status to send", "status")
SendSearch(r) == Send(r, "search to send", "search")

\* The keyword search is over, and so are its locals.
Settled(q, how) ==
  [q EXCEPT !.sparse = how, !.attempts = 0, !.heard = "Uninitialized", !.known = {},
            !.bm25 = IF how = "error" THEN <<>> ELSE @]

\* After 250 ms.  Strict is an error at once, lenient asks for hits all the same.
StatusTimesOut(r) ==
  /\ request[r].sparse = "status"
  /\ On(r, IF strategy = "strict" THEN Settled(request[r], "error")
           ELSE [request[r] EXCEPT !.heard = "unknown", !.sparse = "search to send"])

SearchTimesOut(r) ==
  /\ request[r].sparse = "search"
  /\ On(r, Settled(request[r], "error"))

Hits(r) == request[r].sparse = "answered" /\ request[r].bm25 # <<>>
NoHits(r) == request[r].sparse = "answered" /\ request[r].bm25 = <<>>
Lenient == strategy # "strict"
MayRetry(r) == request[r].heard = "Uninitialized" /\ request[r].attempts < Retries

TakeHits(r) ==
  /\ Hits(r) \/ (NoHits(r) /\ request[r].heard = "Ready")
  /\ On(r, Settled(request[r], "done"))

StrictRefuses(r) ==
  /\ NoHits(r) /\ ~Lenient /\ request[r].heard # "Ready"
  /\ On(r, Settled(request[r], "error"))

\* A slip SearchEnds notices: the attempts are not counted.
RetryForEver(r) ==
  /\ NoHits(r) /\ Lenient /\ MayRetry(r)
  /\ On(r, [request[r] EXCEPT !.sparse = "status to send"])

\* After the backoff.
Retry(r) ==
  /\ NoHits(r) /\ Lenient /\ MayRetry(r)
  /\ On(r, [request[r] EXCEPT !.sparse = "status to send", !.attempts = @ + 1])

FallBack(r) ==
  /\ NoHits(r) /\ Lenient /\ request[r].heard # "Ready" /\ ~MayRetry(r)
  /\ On(r, [request[r] EXCEPT !.sparse = "embedding"])

\* The nearest nodes of the vector index, which may still have what was retracted.
NearestOf(old) ==
  Truncate(Among(Near, {n \in Nodes : IsLive(graph, Set, n)} \cup old))
RetractedNodes == {n \in Nodes : graph.vec[Set][n] = Retracted}

DenseSearch(r) ==
  \E old \in SUBSET RetractedNodes :
    \/ /\ request[r].dense = "embedding"
       /\ On(r, [request[r] EXCEPT !.dense = "done", !.near = NearestOf(old)])
    \/ /\ request[r].sparse = "embedding"
       /\ On(r, Settled([request[r] EXCEPT !.bm25 = NearestOf(old)], "done"))

\* The query does not get a vector.
EmbedFails(r) ==
  \/ request[r].dense = "embedding" /\ On(r, [request[r] EXCEPT !.dense = "error"])
  \/ request[r].sparse = "embedding" /\ On(r, Settled(request[r], "error"))

Place(s, n) == CHOOSE i \in DOMAIN s : s[i] = n

Weight(s, n) == IF n \in ToSet(s) THEN 1000000 \div (60 + Place(s, n)) ELSE 0

\* Weighted reciprocal ranks, here to six decimals; ties by id.
RrfFuse(bm25, dense) ==
  LET all == ToSet(bm25) \cup ToSet(dense)
      Score(n) == Weight(bm25, n) + Weight(dense, n)
  IN CHOOSE s \in [1 .. Cardinality(all) -> all] :
       \A i, j \in DOMAIN s : i < j =>
         \/ Score(s[i]) > Score(s[j])
         \/ Score(s[i]) = Score(s[j]) /\ s[i] < s[j]

\* Both searches are waited for, whatever becomes of the other.
Join(r) ==
  LET q == request[r] IN
  /\ q.pc = "search"
  /\ q.sparse \in {"none", "done", "error"} /\ q.dense \in {"none", "done", "error"}
  /\ IF "error" \in {q.sparse, q.dense} THEN End(r)
     ELSE On(r, [NewRequest EXCEPT !.pc = "fetch",
                   !.hits = CASE q.dense = "none" -> q.bm25
                              [] q.sparse = "none" -> q.near
                              [] OTHER -> Truncate(RrfFuse(q.bm25, q.near))])

\* A slip LabelsTrue notices: the rows come by id, not in the order asked for.
NodesById(ids) ==
  SortSeq(Among(ids, {n \in Nodes : IsLive(graph, Set, n)}), <)

\* get_nodes_ordered: of those that have a live vector, in the order asked for.
NodesOrdered(ids) == Among(ids, {n \in Nodes : IsLive(graph, Set, n)})

FetchNodes(r) ==
  LET found == NodesOrdered(request[r].hits) IN
  /\ request[r].pc = "fetch"
  /\ On(r, [request[r] EXCEPT !.pc = "snippets",
              !.nodes = [i \in DOMAIN found |-> EmbedData(graph, found[i])]])

\* One of the queries fails, and the request with it.
FetchFails(r) == request[r].pc = "fetch" /\ End(r)

\* The part for the i-th node is said to be of the i-th hit, whose score it gets.  Then parts
\* are sorted by score and, where scores are equal, by id.  Fused hits are in that order
\* already and stay in it; of the hits of one search no two scores are taken to be equal.
Parts(q, read) ==
  LET found == Among([i \in DOMAIN q.nodes |-> i], {i \in DOMAIN q.nodes : read[i].ok})
      Part(i) == [id |-> q.hits[i], node |-> q.nodes[i].node, text |-> read[i].text]
  IN [k \in DOMAIN found |-> Part(found[k])]

\* Parts(request[r], read), for what is read, is returned.
ReadSnippets(r) == request[r].pc = "snippets" /\ End(r)

Next ==
  \/ \E f \in Files : Edit(f)
  \/ IndexNodes \/ ScanParse \/ ScanRetract \/ AskRebuild \/ SendRebuild
  \/ Serve \/ BeginRebuild \/ RebuildKind \/ RebuildFails \/ EndRebuild
  \/ \E r \in Requests :
       \/ Begin(r) \/ SendStatus(r) \/ SendSearch(r) \/ StatusTimesOut(r) \/ SearchTimesOut(r)
       \/ TakeHits(r) \/ StrictRefuses(r) \/ Retry(r) \/ FallBack(r)
       \/ DenseSearch(r) \/ EmbedFails(r) \/ Join(r) \/ FetchNodes(r) \/ FetchFails(r) \/ ReadSnippets(r)

Spec == Init /\ [][Next]_vars

\* The tasks, the actor, the timers and the state manager go on; the user need not.
Progress(r) ==
  \/ SendStatus(r) \/ SendSearch(r) \/ StatusTimesOut(r) \/ SearchTimesOut(r)
  \/ TakeHits(r) \/ StrictRefuses(r) \/ Retry(r) \/ FallBack(r)
  \/ DenseSearch(r) \/ EmbedFails(r) \/ Join(r) \/ FetchNodes(r) \/ FetchFails(r) \/ ReadSnippets(r)

FairSpec ==
  /\ Spec
  /\ \A r \in Requests : WF_vars(Progress(r))
  /\ WF_vars(Serve \/ BeginRebuild \/ RebuildKind \/ EndRebuild)
  /\ WF_vars(ScanRetract \/ SendRebuild)

(***************************************************************************)
(* Properties.                                                             *)
(***************************************************************************)

Lists == {s \in UNION {[1 .. k -> Nodes] : k \in 0 .. TopK} : IsInjective(s)}

\* Every part of the state keeps its shape: no list is longer than was asked for or names a
\* node twice, the channel holds no more than it can, and only a rebuild that went through
\* makes the index ready.
TypeOK ==
  /\ disk \in [Files -> 1 .. Versions]
  /\ graph.parsed \in [Files -> 0 .. Versions] /\ graph.row \in [Nodes -> 0 .. Versions]
  /\ manager.step \in {"idle", "retract", "rebuild", "question"}
  /\ Len(inbox) <= ChannelCap
  /\ index \subseteq Nodes /\ (status = "Ready" => index # {})
  /\ \A r \in Requests :
       /\ request[r].bm25 \in Lists /\ request[r].near \in Lists /\ request[r].hits \in Lists
       /\ Len(request[r].nodes) <= Len(request[r].hits)
       /\ request[r].attempts <= Retries

\* A request that begins after a rebuild was asked for has its keyword hits from an index
\* with all the nodes there were then, whatever stood before the rebuild in the channel; it
\* falls back on vectors only if none of them matches.
RebuildHeard ==
  [][\A r \in Requests :
       LET found == request'[r].bm25
       IN request[r].sparse = "search" /\ request'[r].sparse = "answered" /\ ~failed =>
            request[r].known \subseteq ToSet(found) \/ Len(found) = TopK]_vars

\* What request r may return in this step.
Returned(r) ==
  IF request[r].pc = "snippets" /\ request'[r].pc = "ended"
  THEN {Parts(request[r], read) : read \in Readings(request[r].nodes, disk)}
  ELSE {}

\* A part shows its item as the file has it when it is read, up to what the hash does not
\* see and however the graph changed during the request, unless the file has the item no
\* more, or has other comments or white space than the version the graph gave the item's
\* place in.
PartsOfTheFile ==
  [][\A r \in Requests : \A parts \in Returned(r) : \A i \in DOMAIN parts :
       LET p == parts[i]
           version == disk[FileOf[p.node]]
       IN \/ p.text = HashOf[version]
          \/ version \notin PresentIn[p.node]
          \/ \E k \in DOMAIN request[r].nodes :
               /\ request[r].nodes[k].node = p.node
               /\ CosmeticChange(request[r].nodes[k].span, version)]_vars

\* The parts of a context come best hit first, and are taken for no worse hit than they
\* are; they are taken for what they are if each hit had its vector still.
LabelsTrue ==
  [][\A r \in Requests : \A parts \in Returned(r) :
       LET q == request[r]
           At(n) == Place(q.hits, n)
       IN /\ \A i, j \in DOMAIN parts : i < j => At(parts[i].node) < At(parts[j].node)
          /\ \A i \in DOMAIN parts : At(parts[i].id) <= At(parts[i].node)
          /\ Len(q.nodes) = Len(q.hits) => \A i \in DOMAIN parts : parts[i].id = parts[i].node]_vars

\* Each request comes to an end, and since each is made once there is a time from which on
\* none is under way: no wait is for ever, not for the channel, the actor, a retry or the
\* other search.
SearchEnds == <>[](\A r \in Requests : request[r].pc \in {"new", "ended"})

=============================================================================
