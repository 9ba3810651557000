--------------------------- MODULE CodeGraph_proofs ---------------------------
(***************************************************************************)
(* Lemmas about the queries of CodeGraph, for the proofs about Indexing    *)
(* and Retrieval.                                                          *)
(***************************************************************************)
EXTENDS CodeGraph, FiniteSetTheorems, WellFoundedInduction, TLAPS

(***************************************************************************)
(* Finite sets of numbers.                                                 *)
(***************************************************************************)

Rank(S, n) == Cardinality({m \in S : m < n})

\* Each member of a finite set of numbers has a rank of its own, and the ranks are the
\* numbers below its size.
LEMMA RanksDiffer ==
  ASSUME NEW S \in SUBSET Nat, IsFiniteSet(S)
  PROVE  /\ [n \in S |-> Rank(S, n)] \in Injection(S, 0 .. Cardinality(S) - 1)
         /\ [n \in S |-> Rank(S, n)] \in Surjection(S, 0 .. Cardinality(S) - 1)
<1> DEFINE Below(n) == {m \in S : m < n}
           T == 0 .. Cardinality(S) - 1
           f == [n \in S |-> Rank(S, n)]
<1>1. Cardinality(S) \in Nat
  BY FS_CardinalityType
<1>2. \A n \in S : IsFiniteSet(Below(n)) /\ Cardinality(Below(n)) \in Nat
  BY FS_Subset, FS_CardinalityType
<1>3. ASSUME NEW n \in S
      PROVE  Cardinality(Below(n)) < Cardinality(S)
  <2>1. n \notin Below(n)
    OBVIOUS
  <2>2. Cardinality(Below(n)) <= Cardinality(S) /\ Cardinality(Below(n)) # Cardinality(S)
    <3>1. Below(n) \in SUBSET S /\ Below(n) # S
      BY <2>1
    <3> QED BY <3>1, FS_Subset
  <2> QED BY <2>2, <1>1, <1>2
<1>4. ASSUME NEW m \in S, NEW n \in S, m < n
      PROVE  Cardinality(Below(m)) < Cardinality(Below(n))
  <2>1. Below(m) \in SUBSET Below(n) /\ Below(m) # Below(n)
    <3>1. m \in Below(n) /\ m \notin Below(m)
      BY <1>4
    <3>2. \A k \in Below(m) : k \in Below(n)
      BY <1>4
    <3> QED BY <3>1, <3>2
  <2>2. /\ Cardinality(Below(m)) <= Cardinality(Below(n))
        /\ Cardinality(Below(m)) # Cardinality(Below(n))
    BY <2>1, <1>2, FS_Subset
  <2> QED BY <2>2, <1>2
<1> HIDE DEF Below
<1>5. f \in [S -> T]
  <2>1. \A n \in S : Rank(S, n) \in T
    BY <1>1, <1>2, <1>3 DEF Rank, Below
  <2> QED BY <2>1
<1>6. \A m, n \in S : f[m] = f[n] => m = n
  <2> SUFFICES ASSUME NEW m \in S, NEW n \in S, m # n PROVE f[m] # f[n]
    OBVIOUS
  <2>1. f[m] = Cardinality(Below(m)) /\ f[n] = Cardinality(Below(n))
    BY DEF Rank, Below
  <2>2. m < n \/ n < m
    OBVIOUS
  <2> QED BY <2>1, <2>2, <1>4, <1>2
<1>7. f \in Injection(S, T)
  BY <1>5, <1>6 DEF Injection, IsInjective
<1>8. IsFiniteSet(T) /\ Cardinality(T) = Cardinality(S)
  <2> DEFINE c == Cardinality(S)
  <2>1. c \in Nat /\ 0 \in Int /\ c - 1 \in Int
    BY <1>1
  <2> HIDE DEF c
  <2>2. IsFiniteSet(0 .. c - 1) /\ Cardinality(0 .. c - 1) = c
    BY <2>1, FS_Interval
  <2> QED BY <2>2 DEF c
<1>9. f \in Surjection(S, T)
  BY <1>7, <1>8, FS_Injection
<1> QED BY <1>7, <1>9

\* No more members than that have a rank below a limit.
LEMMA FewOfLowRank ==
  ASSUME NEW S \in SUBSET Nat, IsFiniteSet(S), NEW limit \in Nat
  PROVE  LET low == {n \in S : Rank(S, n) < limit}
         IN IsFiniteSet(low) /\ Cardinality(low) <= limit
<1> DEFINE low == {n \in S : Rank(S, n) < limit}
           f == [n \in S |-> Rank(S, n)]
           g == [n \in low |-> Rank(S, n)]
           T == 0 .. limit - 1
<1>1. f \in Injection(S, 0 .. Cardinality(S) - 1)
  BY RanksDiffer
<1>2. \A n \in S : Rank(S, n) \in Nat
  BY <1>1, FS_CardinalityType DEF Injection
<1>3. \A m, n \in S : Rank(S, m) = Rank(S, n) => m = n
  BY <1>1 DEF Injection, IsInjective
<1>4. g \in [low -> T]
  <2>1. \A n \in low : Rank(S, n) \in T
    BY <1>2
  <2> QED BY <2>1
<1>5. g \in Injection(low, T)
  BY <1>3, <1>4 DEF Injection, IsInjective
<1>6. IsFiniteSet(T) /\ Cardinality(T) = limit
  BY FS_Interval
<1> QED BY <1>5, <1>6, FS_Injection

\* A finite set of numbers has a largest member.  By induction over its subsets: of those
\* that are not empty and have none, take a minimal one, and a member out of it.
LEMMA LargestMember ==
  ASSUME NEW S \in SUBSET Nat, IsFiniteSet(S), S # {}
  PROVE  Max(S) \in S /\ \A n \in S : n <= Max(S)
<1> DEFINE HasLargest(U) == \E x \in U : \A y \in U : x >= y
           Bad == {U \in SUBSET S : U # {} /\ ~HasLargest(U)}
           R == StrictSubsetOrdering(S)
<1>1. IsWellFoundedOn(R, SUBSET S)
  BY FS_StrictSubsetOrderingWellFounded, FS_FiniteSubsetsOfFinite
<1>2. Bad = {}
  <2> SUFFICES ASSUME Bad # {} PROVE FALSE
    OBVIOUS
  <2>1. PICK U \in Bad : \A V \in Bad : <<V, U>> \notin R
    <3> HIDE DEF R, HasLargest
    <3>1. Bad \subseteq SUBSET S
      OBVIOUS
    <3> HIDE DEF Bad
    <3> QED BY <1>1, <3>1, WFMin
  <2>2. U \in SUBSET S /\ U # {} /\ ~HasLargest(U)
    BY <2>1
  <2>3. PICK x \in U : TRUE
    BY <2>2
  <2> DEFINE V == U \ {x}
  <2>4. V \in SUBSET S /\ <<V, U>> \in R
    BY <2>2, <2>3 DEF StrictSubsetOrdering
  <2>5. V \notin Bad
    BY <2>1, <2>4
  <2>6. CASE V = {}
    <3>1. \A y \in U : y = x
      BY <2>6
    <3> QED BY <3>1, <2>2, <2>3
  <2>7. CASE V # {}
    <3>1. PICK y \in V : \A z \in V : y >= z
      BY <2>4, <2>5, <2>7
    <3>2. x \in Nat /\ y \in Nat /\ \A z \in U : z = x \/ z \in V
      BY <2>2, <2>3
    <3>3. CASE x >= y
      <4>1. \A z \in U : x >= z
        <5> SUFFICES ASSUME NEW z \in V PROVE x >= z
          BY <3>2
        <5> QED BY <3>1, <3>2, <3>3, <2>2
      <4> QED BY <4>1, <2>2, <2>3
    <3>4. CASE y >= x
      <4>1. \A z \in U : y >= z
        BY <3>1, <3>2, <3>4
      <4> QED BY <4>1, <2>2, <3>1
    <3> QED BY <3>2, <3>3, <3>4
  <2> QED BY <2>6, <2>7
<1>3. \E x \in S : \A y \in S : x >= y
  BY <1>2
<1>4. Max(S) \in S /\ \A n \in S : Max(S) >= n
  BY <1>3 DEF Max
<1>5. \A n \in S : n \in Nat /\ Max(S) \in Nat
  BY <1>4
<1> QED BY <1>4, <1>5

(***************************************************************************)
(* What the operations on a graph keep.                                    *)
(***************************************************************************)

VersionsOrNone == 0 .. Versions
VectorRows ==
  {NoVector, Retracted} \cup {LiveVector(text, m) : text \in VersionsOrNone, m \in Models}

GraphShape(g) ==
  g \in [parsed : [Files -> VersionsOrNone], row : [Nodes -> VersionsOrNone],
         vec : [Models -> [Nodes -> VectorRows]]]

\* A row was written from a version of its file that has the item; and if that is not the
\* version the graph knows, the item is not in the one it knows.
RowsSound(g) ==
  \A n \in Nodes :
    /\ g.row[n] \in PresentIn[n] \cup {0}
    /\ g.row[n] = g.parsed[FileOf[n]] \/ g.parsed[FileOf[n]] \notin PresentIn[n]

GraphOK(g) == GraphShape(g) /\ RowsSound(g)

\* The hash of a version of a file that has the item.
HasItem(n, hash) == \E v \in PresentIn[n] : HashOf[v] = hash

\* What a query said of a node: the hash is that of a version, the span is from one that has
\* the item, if there was a row, and they are of one hash if the item is still there.
FetchedSound(n, data) ==
  /\ data.node = n /\ data.hash \in VersionsOrNone
  /\ data.span \in PresentIn[n] \cup {0}
  /\ HasItem(n, data.hash) => data.hash = HashOf[data.span]

\* The constants that say where a node is.
LEMMA NodePlaces ==
  /\ \A n \in Nodes : n \in Nat /\ FileOf[n] \in Files /\ PresentIn[n] \subseteq 1 .. Versions
  /\ Versions \in Nat /\ IsFiniteSet(Nodes) /\ Garbage \in VersionsOrNone
BY GraphAssumption DEF VersionsOrNone, Garbage

\* A hash is that of one version or several; all of them have the item or none.
LEMMA HashFacts ==
  /\ \A v \in VersionsOrNone : HashOf[v] \in VersionsOrNone /\ (HashOf[v] = 0 <=> v = 0)
  /\ \A n \in Nodes, v \in VersionsOrNone :
       HasItem(n, HashOf[v]) /\ v # 0 => v \in PresentIn[n]
<1>1. \A v \in VersionsOrNone : HashOf[v] \in VersionsOrNone /\ (HashOf[v] = 0 <=> v = 0)
  BY GraphAssumption DEF VersionsOrNone
<1>2. ASSUME NEW n \in Nodes, NEW v \in VersionsOrNone, HasItem(n, HashOf[v]), v # 0
      PROVE  v \in PresentIn[n]
  <2>1. PICK w \in PresentIn[n] : HashOf[w] = HashOf[v]
    BY <1>2 DEF HasItem
  <2>2. v \in 1 .. Versions /\ w \in 1 .. Versions
    BY <1>2, NodePlaces DEF VersionsOrNone
  <2> QED BY <2>1, <2>2, GraphAssumption
<1> QED BY <1>1, <1>2

\* The rows of vectors are well formed.
LEMMA VectorsAreRows ==
  /\ NoVector \in VectorRows /\ NoVector.is = "none"
  /\ Retracted \in VectorRows /\ Retracted.is = "retracted"
  /\ \A text \in VersionsOrNone, m \in Models :
       /\ LiveVector(text, m) \in VectorRows /\ LiveVector(text, m).is = "live"
       /\ LiveVector(text, m).text = text /\ LiveVector(text, m).by = {m}
<1>1. NoVector \in VectorRows /\ Retracted \in VectorRows
  BY DEF VectorRows
<1>2. \A text \in VersionsOrNone, m \in Models : LiveVector(text, m) \in VectorRows
  BY DEF VectorRows
<1>3. NoVector.is = "none" /\ Retracted.is = "retracted"
  BY DEF NoVector, Retracted
<1>4. ASSUME NEW text, NEW m
      PROVE  /\ LiveVector(text, m).is = "live"
             /\ LiveVector(text, m).text = text /\ LiveVector(text, m).by = {m}
  BY DEF LiveVector
<1> QED BY <1>1, <1>2, <1>3, <1>4

\* At the start nothing was parsed, and no row is there.
LEMMA EmptyGraphOK ==
  GraphOK(EmptyGraph) /\ \A s \in Models, n \in Nodes : ~IsLive(EmptyGraph, s, n)
<1>1. 0 \in VersionsOrNone
  BY NodePlaces DEF Garbage
<1>2. GraphShape(EmptyGraph)
  BY <1>1, VectorsAreRows DEF EmptyGraph, GraphShape
<1>3. RowsSound(EmptyGraph)
  BY NodePlaces DEF EmptyGraph, RowsSound
<1>4. ASSUME NEW s \in Models, NEW n \in Nodes PROVE ~IsLive(EmptyGraph, s, n)
  BY VectorsAreRows DEF EmptyGraph, IsLive
<1> QED BY <1>2, <1>3, <1>4 DEF GraphOK

\* What a query says of a node is sound.
LEMMA EmbedDataSound ==
  ASSUME NEW g, GraphOK(g), NEW n \in Nodes
  PROVE  /\ EmbedData(g, n) \in [node : Nodes, hash : VersionsOrNone, span : VersionsOrNone]
         /\ FetchedSound(n, EmbedData(g, n)) /\ EmbedData(g, n).span = g.row[n]
<1>1. g.parsed[FileOf[n]] \in VersionsOrNone /\ g.row[n] \in VersionsOrNone
  BY NodePlaces DEF GraphOK, GraphShape
<1>2. HashOf[g.parsed[FileOf[n]]] \in VersionsOrNone
  BY <1>1, HashFacts
<1>3. /\ g.row[n] \in PresentIn[n] \cup {0}
      /\ g.row[n] = g.parsed[FileOf[n]] \/ g.parsed[FileOf[n]] \notin PresentIn[n]
  BY DEF GraphOK, RowsSound
<1> DEFINE parsed == g.parsed[FileOf[n]]
<1>4. ASSUME HasItem(n, HashOf[parsed]) PROVE HashOf[parsed] = HashOf[g.row[n]]
  <2>1. PICK v \in PresentIn[n] : HashOf[v] = HashOf[parsed]
    BY <1>4 DEF HasItem
  <2>2. v \in VersionsOrNone /\ v # 0
    BY NodePlaces DEF VersionsOrNone
  <2>3. parsed # 0
    BY <1>1, <2>1, <2>2, HashFacts
  <2>4. parsed \in PresentIn[n]
    BY <1>1, <1>4, <2>3, HashFacts
  <2> QED BY <1>3, <2>4
<1> QED BY <1>1, <1>2, <1>3, <1>4 DEF EmbedData, FetchedSound

\* What is read for a node: the text of the file's hash, or garbage, and garbage only if the
\* file is not the one that the span is for.
LEMMA SnippetsSound ==
  ASSUME NEW data, NEW d, d[FileOf[data.node]] \in VersionsOrNone, data.span \in VersionsOrNone,
         NEW out \in Snippets(data, d), out.ok
  PROVE  LET version == d[FileOf[data.node]] IN
         /\ HashOf[version] = data.hash /\ out.text \in VersionsOrNone
         /\ out.text = data.hash \/ (out.text = Garbage /\ version # data.span)
<1> DEFINE version == d[FileOf[data.node]]
<1>0. ~Refused.ok
  BY DEF Refused
<1>1. HashOf[version] = data.hash /\ out \in Cut(data.span, version)
  BY <1>0 DEF Snippets
<1>2. HashOf[version] \in VersionsOrNone /\ Garbage \in VersionsOrNone
  BY HashFacts, NodePlaces
<1>3. \/ HashOf[version] = HashOf[data.span] /\ out = Snippet(HashOf[data.span])
      \/ version # data.span /\ out = Snippet(Garbage)
  BY <1>0, <1>1 DEF Cut
<1>4. \A t : Snippet(t).text = t
  BY DEF Snippet
<1> QED BY <1>1, <1>2, <1>3, <1>4

\* A parse touches the rows of its files only, and leaves the vectors alone.
LEMMA TransformOK ==
  ASSUME NEW g, GraphOK(g), NEW files, NEW d \in [Files -> 1 .. Versions]
  PROVE  /\ GraphOK(Transform(g, files, d))
         /\ Transform(g, files, d).vec = g.vec
         /\ \A n \in Nodes : FileOf[n] \notin files => Transform(g, files, d).row[n] = g.row[n]
<1> DEFINE t == Transform(g, files, d)
<1>1. \A f \in Files : d[f] \in VersionsOrNone
  BY NodePlaces DEF VersionsOrNone
<1>2. /\ t.parsed = [f \in Files |-> IF f \in files THEN d[f] ELSE g.parsed[f]]
      /\ t.row = [n \in Nodes |-> IF FileOf[n] \in files /\ d[FileOf[n]] \in PresentIn[n]
                                  THEN d[FileOf[n]] ELSE g.row[n]]
      /\ t.vec = g.vec
  BY DEF Transform, GraphOK, GraphShape
<1>3. GraphShape(t)
  BY <1>1, NodePlaces DEF Transform, GraphOK, GraphShape
<1>4. RowsSound(t)
  <2> SUFFICES ASSUME NEW n \in Nodes
               PROVE  /\ t.row[n] \in PresentIn[n] \cup {0}
                      /\ t.row[n] = t.parsed[FileOf[n]] \/ t.parsed[FileOf[n]] \notin PresentIn[n]
    BY DEF RowsSound
  <2>1. FileOf[n] \in Files
    BY NodePlaces
  <2>2. /\ g.row[n] \in PresentIn[n] \cup {0}
        /\ g.row[n] = g.parsed[FileOf[n]] \/ g.parsed[FileOf[n]] \notin PresentIn[n]
    BY DEF GraphOK, RowsSound
  <2> HIDE DEF t
  <2> QED BY <1>2, <2>1, <2>2
<1> QED BY <1>2, <1>3, <1>4 DEF GraphOK

\* A node that has a row keeps one: a parse puts rows and removes none.
LEMMA TransformKeepsRows ==
  ASSUME NEW g, GraphOK(g), NEW files, NEW d \in [Files -> 1 .. Versions],
         NEW n \in Nodes, g.row[n] # 0
  PROVE  Transform(g, files, d).row[n] # 0
<1>1. Transform(g, files, d).row[n] = IF FileOf[n] \in files /\ d[FileOf[n]] \in PresentIn[n]
                                      THEN d[FileOf[n]] ELSE g.row[n]
  BY DEF Transform, GraphOK, GraphShape
<1>2. d[FileOf[n]] \in 1 .. Versions /\ Versions \in Nat
  BY NodePlaces
<1> QED BY <1>1, <1>2

\* A retraction leaves nothing live in the files it is about, in its set.
LEMMA RetractFilesOK ==
  ASSUME NEW g, GraphOK(g), NEW a \in Models, NEW files
  PROVE  LET t == RetractFiles(g, a, files) IN
         /\ GraphOK(t) /\ t.row = g.row /\ t.parsed = g.parsed
         /\ \A s \in Models, n \in Nodes :
              /\ t.vec[s][n] = NoVector <=> g.vec[s][n] = NoVector
              /\ IsLive(t, s, n) => /\ IsLive(g, s, n) /\ t.vec[s][n] = g.vec[s][n]
                                    /\ s # a \/ FileOf[n] \notin files
<1> DEFINE t == RetractFiles(g, a, files)
<1>1. /\ t.row = g.row /\ t.parsed = g.parsed
      /\ t.vec = [g.vec EXCEPT ![a] = [n \in Nodes |->
           IF FileOf[n] \in files /\ g.vec[a][n].is = "live" THEN Retracted ELSE g.vec[a][n]]]
  BY DEF RetractFiles, GraphOK, GraphShape
<1>2. GraphShape(t)
  <2> DEFINE row == [n \in Nodes |-> IF FileOf[n] \in files /\ g.vec[a][n].is = "live"
                                   THEN Retracted ELSE g.vec[a][n]]
  <2>1. row \in [Nodes -> VectorRows]
    BY VectorsAreRows DEF GraphOK, GraphShape
  <2>2. t = [g EXCEPT !.vec = [g.vec EXCEPT ![a] = row]]
    BY DEF RetractFiles, GraphOK, GraphShape
  <2> HIDE DEF row, t
  <2>3. [g.vec EXCEPT ![a] = row] \in [Models -> [Nodes -> VectorRows]]
    BY <2>1 DEF GraphOK, GraphShape
  <2> QED BY <2>2, <2>3 DEF GraphOK, GraphShape
<1>3. RowsSound(t)
  BY <1>1 DEF RowsSound, GraphOK
<1>4. ASSUME NEW s \in Models, NEW n \in Nodes, IsLive(t, s, n)
      PROVE  /\ IsLive(g, s, n) /\ t.vec[s][n] = g.vec[s][n]
             /\ s # a \/ FileOf[n] \notin files
  BY <1>1, <1>4, VectorsAreRows DEF IsLive, GraphOK, GraphShape
<1>5. ASSUME NEW s \in Models, NEW n \in Nodes
      PROVE  t.vec[s][n] = NoVector <=> g.vec[s][n] = NoVector
  BY <1>1, VectorsAreRows DEF GraphOK, GraphShape
<1> QED BY <1>1, <1>2, <1>3, <1>4, <1>5 DEF GraphOK

\* Writing vectors touches those of its nodes, in its set.
LEMMA PutVectorsOK ==
  ASSUME NEW g, GraphOK(g), NEW a \in Models, NEW texts, NEW m \in Models,
         \A n \in DOMAIN texts : texts[n] \in VersionsOrNone
  PROVE  LET t == PutVectors(g, a, texts, m) IN
         /\ GraphOK(t) /\ t.row = g.row /\ t.parsed = g.parsed
         /\ \A s \in Models, n \in Nodes :
              t.vec[s][n] = IF s = a /\ n \in DOMAIN texts THEN LiveVector(texts[n], m)
                            ELSE g.vec[s][n]
<1> DEFINE t == PutVectors(g, a, texts, m)
<1>1. /\ t.row = g.row /\ t.parsed = g.parsed
      /\ t.vec = [g.vec EXCEPT ![a] = [n \in Nodes |->
           IF n \in DOMAIN texts THEN LiveVector(texts[n], m) ELSE g.vec[a][n]]]
  BY DEF PutVectors, GraphOK, GraphShape
<1>2. GraphShape(t)
  <2> DEFINE row == [n \in Nodes |-> IF n \in DOMAIN texts THEN LiveVector(texts[n], m)
                                   ELSE g.vec[a][n]]
  <2>1. row \in [Nodes -> VectorRows]
    BY VectorsAreRows DEF GraphOK, GraphShape
  <2>2. t = [g EXCEPT !.vec = [g.vec EXCEPT ![a] = row]]
    BY DEF PutVectors, GraphOK, GraphShape
  <2> HIDE DEF row, t
  <2>3. [g.vec EXCEPT ![a] = row] \in [Models -> [Nodes -> VectorRows]]
    BY <2>1 DEF GraphOK, GraphShape
  <2> QED BY <2>2, <2>3 DEF GraphOK, GraphShape
<1>3. RowsSound(t)
  BY <1>1 DEF RowsSound, GraphOK
<1>4. \A s \in Models, n \in Nodes :
        t.vec[s][n] = IF s = a /\ n \in DOMAIN texts THEN LiveVector(texts[n], m) ELSE g.vec[s][n]
  BY <1>1 DEF GraphOK, GraphShape
<1> QED BY <1>1, <1>2, <1>3, <1>4 DEF GraphOK

\* A query gives no more nodes than it was asked for.
LEMMA RelWithCursorBounded ==
  ASSUME NEW g, NEW s, NEW kind, NEW limit \in Nat, NEW cursor
  PROVE  LET nodes == RelWithCursor(g, s, kind, limit, cursor)
         IN nodes \subseteq Nodes /\ IsFiniteSet(nodes) /\ Cardinality(nodes) <= limit
<1> DEFINE left == {n \in Nodes : /\ g.row[n] # 0 /\ ~IsLive(g, s, n)
                                  /\ KindOf[n] = kind /\ n > cursor}
<1>1. left \in SUBSET Nat /\ IsFiniteSet(left) /\ left \subseteq Nodes
  BY NodePlaces, FS_Subset
<1>2. RelWithCursor(g, s, kind, limit, cursor) = {n \in left : Rank(left, n) < limit}
  BY DEF RelWithCursor, Rank
<1> HIDE DEF left
<1> QED BY <1>1, <1>2, FewOfLowRank

\* It gives the first ones: none that is left is passed over, and there are some if any is
\* left.
LEMMA RelWithCursorFirst ==
  ASSUME NEW g, NEW s, NEW kind, NEW limit \in Nat, NEW cursor
  PROVE  LET left == {n \in Nodes : /\ g.row[n] # 0 /\ ~IsLive(g, s, n)
                                    /\ KindOf[n] = kind /\ n > cursor}
             nodes == RelWithCursor(g, s, kind, limit, cursor)
         IN /\ nodes \subseteq left
            /\ \A m \in left, n \in nodes : m <= n => m \in nodes
            /\ limit > 0 /\ nodes = {} => left = {}
<1> DEFINE left == {n \in Nodes : /\ g.row[n] # 0 /\ ~IsLive(g, s, n)
                                  /\ KindOf[n] = kind /\ n > cursor}
           nodes == RelWithCursor(g, s, kind, limit, cursor)
<1>1. left \in SUBSET Nat /\ IsFiniteSet(left)
  BY NodePlaces, FS_Subset
<1>2. nodes = {n \in left : Rank(left, n) < limit}
  BY DEF RelWithCursor, Rank
<1> HIDE DEF left, nodes
<1>3. \A n \in left : IsFiniteSet({k \in left : k < n}) /\ Rank(left, n) \in Nat
  BY <1>1, FS_Subset, FS_CardinalityType DEF Rank
<1>4. ASSUME NEW m \in left, NEW n \in nodes, m <= n
      PROVE  m \in nodes
  <2>1. n \in left /\ Rank(left, n) < limit /\ m \in Nat /\ n \in Nat
    BY <1>1, <1>2
  <2>2. {k \in left : k < m} \in SUBSET {k \in left : k < n}
    <3>1. \A k \in left : k \in Nat /\ (k < m => k < n)
      BY <1>1, <1>4, <2>1
    <3> QED BY <3>1
  <2>3. Cardinality({k \in left : k < m}) <= Cardinality({k \in left : k < n})
    <3> DEFINE A == {k \in left : k < m}
               B == {k \in left : k < n}
    <3>1. IsFiniteSet(B) /\ A \in SUBSET B
      BY <2>1, <2>2, <1>3
    <3> HIDE DEF A, B
    <3>2. Cardinality(A) <= Cardinality(B)
      BY <3>1, FS_Subset
    <3> QED BY <3>2 DEF A, B
  <2>4. Rank(left, m) <= Rank(left, n)
    BY <2>3 DEF Rank
  <2>5. Rank(left, m) \in Nat /\ Rank(left, n) \in Nat
    BY <2>1, <1>3
  <2>6. Rank(left, m) < limit
    BY <2>1, <2>4, <2>5
  <2> QED BY <2>6, <1>2
<1>5. ASSUME limit > 0, left # {}
      PROVE  nodes # {}
  <2>1. Cardinality(left) \in Nat /\ Cardinality(left) # 0
    BY <1>1, <1>5, FS_CardinalityType, FS_EmptySet
  <2>2. 0 \in 0 .. Cardinality(left) - 1
    BY <2>1
  <2>3. PICK n \in left : Rank(left, n) = 0
    BY <1>1, <2>2, RanksDiffer DEF Surjection
  <2> QED BY <2>3, <1>2, <1>5
<1>6. nodes \subseteq left
  BY <1>2
<1> QED BY <1>4, <1>5, <1>6 DEF left, nodes

=============================================================================
