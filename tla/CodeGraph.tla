------------------------------ MODULE CodeGraph ------------------------------
(***************************************************************************)
(* The part of the code graph (ploke-db) that indexing reads and writes.   *)
(* A graph is a record: the version of each file that was last parsed      *)
(* into it, for each node the version its row was written from (0 when the *)
(* node has no row), and for each embedding set the vectors.  The          *)
(* operators are the queries.                                              *)
(*                                                                         *)
(* A node is a number, its place in the order of ids; ids are derived from *)
(* file, path, kind and name, so that an edit keeps the ids of what it     *)
(* does not rename.  A vector has a history in the database: no row at     *)
(* all, a retracted one, a live one.  Of a live one the model keeps what   *)
(* was embedded and who embedded it.                                       *)
(*                                                                         *)
(* Files are compared by their TrackingHash, which does not see comments   *)
(* and white space: several versions of a file may have one hash, while    *)
(* the items are at other places in each.  The text of an item is named by *)
(* the hash of the file it is the item of: a text is the right one up to   *)
(* what the hash does not see.                                             *)
(***************************************************************************)
EXTENDS Integers, FiniteSetsExt, Functions

CONSTANTS
  Nodes, Files, Models,
  Kinds,      \* how many node types have vectors, in the order of primary_nodes
  FileOf, KindOf,
  PresentIn,  \* the versions of its file that contain a node
  Versions,   \* bound: a file has the versions 1 .. Versions
  HashOf,     \* the tracking hash of each version, 0 for that of no version
  Dims        \* the length of a model's vectors

ASSUME GraphAssumption ==
  /\ Nodes \subseteq Nat \ {0} /\ IsFiniteSet(Nodes) /\ Kinds \in Nat /\ Versions \in Nat \ {0}
  /\ FileOf \in [Nodes -> Files] /\ KindOf \in [Nodes -> 1 .. Kinds]
  /\ PresentIn \in [Nodes -> SUBSET (1 .. Versions)] /\ Dims \in [Models -> Nat]
  /\ HashOf \in [0 .. Versions -> 0 .. Versions]
  /\ \A v \in 0 .. Versions : HashOf[v] = 0 <=> v = 0
  /\ \A n \in Nodes, v, w \in 1 .. Versions :   \* an item is more than comments
       HashOf[v] = HashOf[w] => (v \in PresentIn[n] <=> w \in PresentIn[n])

Garbage == 0   \* what is at the place of an item where the item is not

\* An edit that only the bytes show.
CosmeticChange(v, w) == v # w /\ HashOf[v] = HashOf[w]

NoVector == [is |-> "none", text |-> Garbage, by |-> {}]
Retracted == [NoVector EXCEPT !.is = "retracted"]
LiveVector(text, model) == [is |-> "live", text |-> text, by |-> {model}]

EmptyGraph ==
  [parsed |-> [f \in Files |-> 0], row |-> [n \in Nodes |-> 0],
   vec |-> [s \in Models |-> [n \in Nodes |-> NoVector]]]

IsLive(g, s, n) == g.vec[s][n].is = "live"

\* count_unembedded_nonfiles: the anti-join is with every row there ever was.
CountUnembedded(g, s) == {n \in Nodes : g.row[n] # 0 /\ g.vec[s][n] = NoVector}

\* get_rel_with_cursor: the first of those without a live vector.
RelWithCursor(g, s, kind, limit, cursor) ==
  LET left == {n \in Nodes : /\ g.row[n] # 0 /\ ~IsLive(g, s, n)
                             /\ KindOf[n] = kind /\ n > cursor}
  IN {n \in left : Cardinality({m \in left : m < n}) < limit}

\* What a query says of a node: the hash of its file as the graph has it, and its span,
\* that is its place in the version its row was written from.
EmbedData(g, n) == [node |-> n, hash |-> HashOf[g.parsed[FileOf[n]]], span |-> g.row[n]]

Snippet(text) == [ok |-> TRUE, text |-> text]
Refused == [ok |-> FALSE, text |-> Garbage]
Outcomes == {Refused} \cup {Snippet(text) : text \in 0 .. Versions}

\* What the span may be cut to in a version of the file: the item, where it has not moved;
\* anything, or an error, where it has.
Cut(span, version) ==
  (IF HashOf[version] = HashOf[span] THEN {Snippet(HashOf[span])} ELSE {})
  \cup (IF version = span THEN {} ELSE {Refused, Snippet(Garbage)})

\* A slip PartsOfTheFile notices: the span is cut out of whatever the file is by now.
SnippetsUnchecked(data, disk) == Cut(data.span, disk[FileOf[data.node]])

\* process_file: a file whose hash is not the one the graph had is refused; of any other the
\* bytes in the span are taken.
Snippets(data, disk) ==
  LET version == disk[FileOf[data.node]]
  IN IF HashOf[version] = data.hash THEN Cut(data.span, version) ELSE {Refused}

\* get_snippets_batch: an outcome for each of what was fetched.
Readings(fetched, disk) ==
  {read \in [DOMAIN fetched -> Outcomes] :
     \A i \in DOMAIN fetched : read[i] \in Snippets(fetched[i], disk)}

\* transform_parsed_graph on some files: rows are put, none is removed.
Transform(g, files, disk) ==
  [g EXCEPT
     !.parsed = [f \in Files |-> IF f \in files THEN disk[f] ELSE @[f]],
     !.row = [n \in Nodes |->
                IF FileOf[n] \in files /\ disk[FileOf[n]] \in PresentIn[n]
                THEN disk[FileOf[n]] ELSE @[n]]]

\* A slip LiveIsCurrent notices: only the first node type is retracted.
RetractFirstKind(g, s, files) ==
  [g EXCEPT !.vec[s] = [n \in Nodes |->
     IF FileOf[n] \in files /\ KindOf[n] = 1 /\ @[n].is = "live" THEN Retracted ELSE @[n]]]

\* retract_embedded_files for each of the files and each node type.
RetractFiles(g, s, files) ==
  [g EXCEPT !.vec[s] = [n \in Nodes |->
     IF FileOf[n] \in files /\ @[n].is = "live" THEN Retracted ELSE @[n]]]

\* A slip CompletedAccounts notices: of a batch only the first node type is written.
PutFirstKind(g, s, texts, model) ==
  [g EXCEPT !.vec[s] = [n \in Nodes |->
     IF n \in DOMAIN texts /\ \A m \in DOMAIN texts : KindOf[n] <= KindOf[m]
     THEN LiveVector(texts[n], model) ELSE @[n]]]

\* update_embeddings_batch: texts are by node.
PutVectors(g, s, texts, model) ==
  [g EXCEPT !.vec[s] = [n \in Nodes |->
     IF n \in DOMAIN texts THEN LiveVector(texts[n], model) ELSE @[n]]]

=============================================================================
