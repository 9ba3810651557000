--------------------------- MODULE Retrieval_proofs ---------------------------
(***************************************************************************)
(* What is proved of Retrieval, for any nodes, files, requests and         *)
(* strategies, any capacity of the channel, any retries and rebuilds: the  *)
(* keyword hits of a request are from an index with all that a rebuild was *)
(* asked for before, and the parts of a context are in the order of their  *)
(* hits and are of the file, but for an edit of comments or white space    *)
(* that the hash does not see.                                             *)
(***************************************************************************)
EXTENDS Retrieval, CodeGraph_proofs, Induction, SequenceTheorems

(***************************************************************************)
(* Lists of nodes.                                                         *)
(***************************************************************************)

\* a has the members of S among the first n of s, in their order.
Picked(s, S, a, n) ==
  /\ a \in Seq(S)
  /\ \E f \in [1 .. Len(a) -> 1 .. n] :
       /\ \A k \in 1 .. Len(a) : a[k] = s[f[k]]
       /\ \A k, l \in 1 .. Len(a) : k < l => f[k] < f[l]
  /\ \A k \in 1 .. n : s[k] \in S => \E l \in 1 .. Len(a) : a[l] = s[k]

\* One more of s is looked at.
LEMMA PickOneMore ==
  ASSUME NEW N \in Nat, NEW s, NEW S, NEW n \in 0 .. N, n < N, NEW a, Picked(s, S, a, n)
  PROVE  Picked(s, S, IF s[n + 1] \in S THEN Append(a, s[n + 1]) ELSE a, n + 1)
<1>0. a \in Seq(S) /\ Len(a) \in Nat /\ n \in Nat
  BY LenProperties DEF Picked
<1>1. PICK f \in [1 .. Len(a) -> 1 .. n] :
        /\ \A k \in 1 .. Len(a) : a[k] = s[f[k]]
        /\ \A k, l \in 1 .. Len(a) : k < l => f[k] < f[l]
  BY DEF Picked
<1>2. \A k \in 1 .. n : s[k] \in S => \E l \in 1 .. Len(a) : a[l] = s[k]
  BY DEF Picked
<1>3. CASE s[n + 1] \in S
  <2> DEFINE b == Append(a, s[n + 1])
             g == [k \in 1 .. Len(a) + 1 |-> IF k = Len(a) + 1 THEN n + 1 ELSE f[k]]
  <2>1. /\ b \in Seq(S) /\ Len(b) = Len(a) + 1 /\ b[Len(a) + 1] = s[n + 1]
        /\ \A k \in 1 .. Len(a) : b[k] = a[k]
    BY <1>0, <1>3, AppendProperties
  <2> HIDE DEF b
  <2>2. g \in [1 .. Len(b) -> 1 .. n + 1]
    BY <1>0, <1>1, <2>1
  <2>3. ASSUME NEW k \in 1 .. Len(b) PROVE b[k] = s[g[k]]
    <3>1. CASE k = Len(a) + 1
      BY <2>1, <3>1
    <3>2. CASE k # Len(a) + 1
      <4>1. k \in 1 .. Len(a) /\ g[k] = f[k]
        BY <1>0, <2>1, <3>2
      <4> QED BY <1>1, <2>1, <4>1
    <3> QED BY <3>1, <3>2
  <2>4. ASSUME NEW k \in 1 .. Len(b), NEW l \in 1 .. Len(b), k < l PROVE g[k] < g[l]
    <3>1. k \in 1 .. Len(a) /\ g[k] = f[k] /\ f[k] \in 1 .. n
      BY <1>0, <1>1, <2>1, <2>4
    <3>2. CASE l = Len(a) + 1
      BY <1>0, <3>1, <3>2, <2>1
    <3>3. CASE l # Len(a) + 1
      <4>1. l \in 1 .. Len(a) /\ g[l] = f[l]
        BY <1>0, <2>1, <3>3
      <4> QED BY <1>1, <2>4, <3>1, <4>1
    <3> QED BY <3>2, <3>3
  <2>5. ASSUME NEW k \in 1 .. n + 1, s[k] \in S PROVE \E l \in 1 .. Len(b) : b[l] = s[k]
    <3>1. CASE k = n + 1
      BY <1>0, <2>1, <3>1
    <3>2. CASE k # n + 1
      <4>1. k \in 1 .. n
        BY <1>0, <3>2
      <4>2. PICK l \in 1 .. Len(a) : a[l] = s[k]
        BY <1>2, <2>5, <4>1
      <4>3. l \in 1 .. Len(b) /\ b[l] = s[k]
        BY <1>0, <2>1, <4>2
      <4> QED BY <4>3
    <3> QED BY <3>1, <3>2
  <2> HIDE DEF g
  <2> QED BY <1>3, <2>1, <2>2, <2>3, <2>4, <2>5 DEF Picked, b
<1>4. CASE s[n + 1] \notin S
  <2>1. f \in [1 .. Len(a) -> 1 .. n + 1]
    BY <1>0, <1>1
  <2>2. ASSUME NEW k \in 1 .. n + 1, s[k] \in S PROVE \E l \in 1 .. Len(a) : a[l] = s[k]
    <3>1. k \in 1 .. n
      BY <1>0, <1>4, <2>2
    <3> QED BY <1>2, <2>2, <3>1
  <2> QED BY <1>0, <1>1, <1>4, <2>1, <2>2 DEF Picked
<1> QED BY <1>3, <1>4

LEMMA AmongPicks ==
  ASSUME NEW X, NEW s \in Seq(X), NEW S
  PROVE  Picked(s, S, Among(s, S), Len(s))
<1> DEFINE N == Len(s)
           Turns(g, m) ==
             g = [i \in 0 .. m |-> IF i = 0 THEN <<>>
                                   ELSE IF s[i] \in S THEN Append(g[i - 1], s[i]) ELSE g[i - 1]]
           Runs == { m \in 0 .. N : \E g : Turns(g, m) }
<1>0. N \in Nat
  BY LenProperties
<1>1. 0 \in Runs
  <2> DEFINE g == [n \in 0 .. 0 |-> <<>>]
  <2>1. Turns(g, 0)
    <3>1. \A n \in 0 .. 0 : n = 0 /\ g[n] = <<>>
      OBVIOUS
    <3> QED BY <3>1
  <2> HIDE DEF g
  <2> QED BY <1>0, <2>1
<1>2. ASSUME NEW m \in 0 .. N, m < N, m \in Runs PROVE m + 1 \in Runs
  <2>1. PICK g : Turns(g, m)
    BY <1>2
  <2> DEFINE last == IF s[m + 1] \in S THEN Append(g[m], s[m + 1]) ELSE g[m]
             h == [n \in 0 .. m + 1 |-> IF n = m + 1 THEN last ELSE g[n]]
  <2>2. ASSUME NEW n \in 0 .. m + 1
        PROVE  h[n] = IF n = 0 THEN <<>>
                      ELSE IF s[n] \in S THEN Append(h[n - 1], s[n]) ELSE h[n - 1]
    <3>1. CASE n = m + 1
      <4>1. h[n] = last /\ h[n - 1] = g[m] /\ n # 0
        <5> HIDE DEF last
        <5> QED BY <1>0, <3>1
      <4> QED BY <3>1, <4>1
    <3>2. CASE n # m + 1
      <4>1. n \in 0 .. m /\ h[n] = g[n]
        BY <1>0, <3>2
      <4>2. n # 0 => h[n - 1] = g[n - 1]
        BY <1>0, <4>1
      <4>3. g[n] = IF n = 0 THEN <<>>
                   ELSE IF s[n] \in S THEN Append(g[n - 1], s[n]) ELSE g[n - 1]
        BY <2>1, <4>1
      <4> QED BY <4>1, <4>2, <4>3
    <3> QED BY <3>1, <3>2
  <2>3. Turns(h, m + 1)
    <3>1. h = [n \in 0 .. m + 1 |-> h[n]]
      OBVIOUS
    <3> HIDE DEF h
    <3> QED BY <2>2, <3>1
  <2>4. m + 1 \in 0 .. N
    BY <1>0, <1>2
  <2> QED BY <2>3, <2>4
<1>3. \A i \in 0 .. N : i \in Runs
  <2> HIDE DEF Runs, N
  <2> QED BY <1>0, <1>1, <1>2, UpTo
<1>4. PICK g : Turns(g, N)
  <2>1. N \in Runs
    <3> HIDE DEF Runs, N
    <3> QED BY <1>0, <1>3
  <2> QED BY <2>1
<1> DEFINE u == CHOOSE f : Turns(f, N)
<1>5. Among(s, S) = u[N]
  BY DEF Among
<1>6. Turns(u, N)
  BY <1>4
<1> HIDE DEF u
<1>10. \A i \in 0 .. N : u[i] = IF i = 0 THEN <<>>
                               ELSE IF s[i] \in S THEN Append(u[i - 1], s[i]) ELSE u[i - 1]
  <2> HIDE DEF N
  <2> QED BY <1>6
<1> DEFINE Done == { n \in 0 .. N : Picked(s, S, u[n], n) }
<1>7. 0 \in Done
  <2>1. u[0] = <<>>
    BY <1>0, <1>6
  <2>2. Picked(s, S, <<>>, 0)
    <3>1. <<>> \in Seq(S) /\ Len(<<>>) = 0
      BY EmptySeq
    <3>2. 1 .. Len(<<>>) = {} /\ 1 .. 0 = {}
      BY <3>1
    <3>3. [k \in {} |-> k] \in [1 .. Len(<<>>) -> 1 .. 0]
      BY <3>2
    <3> QED BY <3>1, <3>2, <3>3, Zenon DEF Picked
  <2> QED BY <1>0, <2>1, <2>2
<1>8. ASSUME NEW n \in 0 .. N, n < N, n \in Done PROVE n + 1 \in Done
  <2>1. n + 1 \in 0 .. N /\ n + 1 # 0 /\ n + 1 - 1 = n
    BY <1>0, <1>8
  <2>2. u[n + 1] = IF s[n + 1] \in S THEN Append(u[n], s[n + 1]) ELSE u[n]
    <3> HIDE DEF N
    <3> QED BY <1>10, <2>1
  <2>3. Picked(s, S, u[n + 1], n + 1)
    <3> HIDE DEF N
    <3> QED BY <1>0, <1>8, <2>2, PickOneMore
  <2> QED BY <2>1, <2>3
<1>9. \A n \in 0 .. N : n \in Done
  <2> HIDE DEF Done, N
  <2> QED BY <1>0, <1>7, <1>8, UpTo
<1> QED BY <1>0, <1>5, <1>9

\* What the model's lists are: those TopK allows.
ListOf(a) == a \in Seq(Nodes) /\ IsInjective(a)

LEMMA ListsAre ==
  ASSUME NEW a
  PROVE  a \in Lists <=> ListOf(a) /\ Len(a) <= TopK
<1>0. TopK \in Nat
  BY RetrievalAssumption
<1>1. ASSUME a \in Lists PROVE ListOf(a) /\ Len(a) <= TopK
  <2>1. PICK k \in 0 .. TopK : a \in [1 .. k -> Nodes]
    BY <1>1 DEF Lists
  <2>2. a \in Seq(Nodes) /\ Len(a) = k
    BY <1>0, <2>1
  <2> QED BY <1>0, <1>1, <2>2 DEF Lists, ListOf
<1>2. ASSUME ListOf(a), Len(a) <= TopK PROVE a \in Lists
  <2>1. Len(a) \in 0 .. TopK /\ a \in [1 .. Len(a) -> Nodes]
    BY <1>0, <1>2, LenProperties DEF ListOf
  <2> QED BY <1>2, <2>1 DEF Lists, ListOf
<1> QED BY <1>1, <1>2

LEMMA ListFacts ==
  ASSUME NEW s, ListOf(s)
  PROVE  /\ Len(s) \in Nat /\ DOMAIN s = 1 .. Len(s)
         /\ \A i \in 1 .. Len(s) : s[i] \in Nodes /\ Place(s, s[i]) = i
<1>1. Len(s) \in Nat /\ DOMAIN s = 1 .. Len(s) /\ s \in [1 .. Len(s) -> Nodes]
  BY LenProperties DEF ListOf
<1>2. ASSUME NEW i \in 1 .. Len(s) PROVE Place(s, s[i]) = i
  <2>1. \A j \in DOMAIN s : s[j] = s[i] => j = i
    BY <1>1 DEF ListOf, IsInjective
  <2> QED BY <1>1, <2>1 DEF Place
<1> QED BY <1>1, <1>2

LEMMA AmongOfList ==
  ASSUME NEW s, ListOf(s), NEW S
  PROVE  LET a == Among(s, S) IN
         /\ ListOf(a) /\ Len(a) <= Len(s)
         /\ \A k \in DOMAIN a : a[k] \in S /\ a[k] \in ToSet(s)
         /\ \A n \in ToSet(s) : n \in S => n \in ToSet(a)
         /\ \A k, l \in DOMAIN a : k < l => Place(s, a[k]) < Place(s, a[l])
<1> DEFINE a == Among(s, S)
           N == Len(s)
<1>0. /\ N \in Nat /\ DOMAIN s = 1 .. N /\ s \in Seq(Nodes)
      /\ \A i \in 1 .. N : s[i] \in Nodes /\ Place(s, s[i]) = i
  BY ListFacts DEF ListOf
<1>1. Picked(s, S, a, N)
  BY <1>0, AmongPicks
<1> HIDE DEF a, N
<1>2. a \in Seq(S) /\ Len(a) \in Nat /\ DOMAIN a = 1 .. Len(a)
  BY <1>1, LenProperties DEF Picked
<1>3. PICK f \in [1 .. Len(a) -> 1 .. N] :
        /\ \A k \in 1 .. Len(a) : a[k] = s[f[k]]
        /\ \A k, l \in 1 .. Len(a) : k < l => f[k] < f[l]
  BY <1>1 DEF Picked
<1>4. ASSUME NEW k \in DOMAIN a
      PROVE  /\ a[k] \in S /\ a[k] \in Nodes /\ a[k] \in ToSet(s)
             /\ Place(s, a[k]) = f[k] /\ f[k] \in 1 .. N
  <2>1. f[k] \in 1 .. N /\ a[k] = s[f[k]]
    BY <1>2, <1>3
  <2>2. a[k] \in S
    BY <1>2, ElementOfSeq
  <2> QED BY <1>0, <2>1, <2>2 DEF ToSet
<1>5. ASSUME NEW k \in DOMAIN a, NEW l \in DOMAIN a, k < l
      PROVE  Place(s, a[k]) < Place(s, a[l])
  BY <1>2, <1>3, <1>4, <1>5
<1>6. IsInjective(a)
  <2> SUFFICES ASSUME NEW k \in DOMAIN a, NEW l \in DOMAIN a, a[k] = a[l], k # l PROVE FALSE
    BY DEF IsInjective
  <2>1. k < l \/ l < k
    BY <1>2
  <2>2. Place(s, a[k]) \in Nat /\ Place(s, a[l]) \in Nat
    BY <1>0, <1>4
  <2> QED BY <1>5, <2>1, <2>2
<1>7. a \in Seq(Nodes)
  BY <1>2, <1>4, IsASeq
<1>8. ASSUME NEW n \in ToSet(s), n \in S PROVE n \in ToSet(a)
  <2>1. PICK k \in 1 .. N : s[k] = n
    BY <1>0 DEF ToSet
  <2>2. PICK l \in 1 .. Len(a) : a[l] = s[k]
    BY <1>1, <1>8, <2>1 DEF Picked
  <2> QED BY <1>2, <2>1, <2>2 DEF ToSet
<1>9. Len(a) <= N
  <2> DEFINE T == { k \in 0 .. Len(a) : k = 0 \/ f[k] >= k }
  <2>1. 0 \in T
    BY <1>2
  <2>2. ASSUME NEW k \in 0 .. Len(a), k < Len(a), k \in T PROVE k + 1 \in T
    <3>1. k + 1 \in 1 .. Len(a) /\ f[k + 1] \in Nat
      BY <1>2, <1>3, <1>0, <2>2
    <3>2. CASE k = 0
      BY <1>0, <1>2, <1>3, <3>1, <3>2
    <3>3. CASE k # 0
      <4>1. k \in 1 .. Len(a) /\ f[k] < f[k + 1] /\ f[k] >= k /\ f[k] \in Nat
        BY <1>0, <1>2, <1>3, <2>2, <3>1, <3>3
      <4> QED BY <1>2, <3>1, <4>1
    <3> QED BY <3>2, <3>3
  <2>3. \A k \in 0 .. Len(a) : k \in T
    <3> HIDE DEF T
    <3> QED BY <1>2, <2>1, <2>2, UpTo
  <2>4. Len(a) \in T
    BY <1>2, <2>3
  <2>5. CASE Len(a) = 0
    BY <1>0, <2>5
  <2>6. CASE Len(a) # 0
    <3>1. Len(a) \in 1 .. Len(a)
      BY <1>2, <2>6
    <3>2. f[Len(a)] \in 1 .. N /\ f[Len(a)] >= Len(a)
      BY <1>3, <2>4, <2>6, <3>1
    <3> QED BY <1>0, <1>2, <3>2
  <2> QED BY <2>5, <2>6
<1> QED BY <1>2, <1>4, <1>5, <1>6, <1>7, <1>8, <1>9 DEF ListOf, a, N

\* The best TopK of a list.
LEMMA TruncateList ==
  ASSUME NEW s, ListOf(s)
  PROVE  /\ Truncate(s) \in Lists
         /\ Len(s) <= TopK => Truncate(s) = s
         /\ ~(Len(s) <= TopK) => Len(Truncate(s)) = TopK
<1> DEFINE K == Min({TopK, Len(s)})
           t == SubSeq(s, 1, K)
<1>0. TopK \in Nat /\ Len(s) \in Nat /\ DOMAIN s = 1 .. Len(s) /\ s \in Seq(Nodes)
  BY RetrievalAssumption, ListFacts DEF ListOf
<1>1. K = IF Len(s) <= TopK THEN Len(s) ELSE TopK
  <2>1. \E x \in {TopK, Len(s)} : \A y \in {TopK, Len(s)} : x <= y
    BY <1>0
  <2>2. K \in {TopK, Len(s)} /\ \A y \in {TopK, Len(s)} : K <= y
    BY <2>1 DEF Min
  <2> QED BY <1>0, <2>2
<1> HIDE DEF K
<1>2. K \in 0 .. Len(s) /\ K <= TopK
  BY <1>0, <1>1
<1>3. t \in Seq(Nodes) /\ Len(t) = K /\ \A i \in 1 .. K : t[i] = s[i]
  <2>1. \A i \in 1 .. K : s[i] \in Nodes
    BY <1>0, <1>2, ListFacts
  <2>2. /\ t \in Seq(Nodes) /\ Len(t) = IF 1 <= K THEN K - 1 + 1 ELSE 0
        /\ \A i \in 1 .. K - 1 + 1 : t[i] = s[1 + i - 1]
    BY <1>0, <1>2, <2>1, SubSeqProperties
  <2> QED BY <1>2, <2>2
<1>4. IsInjective(t)
  <2>1. DOMAIN t = 1 .. K
    BY <1>3, LenProperties
  <2>2. \A i \in 1 .. K : i \in DOMAIN s
    BY <1>0, <1>2
  <2> HIDE DEF t
  <2> QED BY <1>3, <2>1, <2>2 DEF IsInjective, ListOf
<1>5. t \in Lists
  BY <1>2, <1>3, <1>4, ListsAre DEF ListOf
<1>6. ASSUME Len(s) <= TopK PROVE t = s
  BY <1>0, <1>1, <1>6, SubSeqFull
<1> QED BY <1>1, <1>3, <1>5, <1>6 DEF Truncate, K


\* A list names finitely many nodes, and their places give them weights.
LEMMA WeightIsInt ==
  ASSUME NEW s, ListOf(s), NEW n
  PROVE  Weight(s, n) \in Int /\ ToSet(s) \subseteq Nodes
<1>1. /\ Len(s) \in Nat /\ DOMAIN s = 1 .. Len(s)
      /\ \A i \in 1 .. Len(s) : s[i] \in Nodes /\ Place(s, s[i]) = i
  BY ListFacts
<1>2. CASE n \in ToSet(s)
  <2>1. PICK i \in 1 .. Len(s) : s[i] = n
    BY <1>1, <1>2 DEF ToSet
  <2>2. Place(s, n) \in Nat
    BY <1>1, <2>1
  <2>3. 60 + Place(s, n) \in Nat /\ 60 + Place(s, n) > 0
    BY <2>2
  <2>4. \A k \in Nat : k > 0 => 1000000 \div k \in Int
    OBVIOUS
  <2> QED BY <1>1, <1>2, <2>3, <2>4 DEF Weight, ToSet
<1>3. CASE n \notin ToSet(s)
  BY <1>1, <1>3 DEF Weight, ToSet
<1> QED BY <1>2, <1>3

\* The fusion of two lists is one.
LEMMA FuseList ==
  ASSUME NEW bm25, ListOf(bm25), NEW dense, ListOf(dense)
  PROVE  ListOf(RrfFuse(bm25, dense))
<1> DEFINE all == ToSet(bm25) \cup ToSet(dense)
           Score(n) == Weight(bm25, n) + Weight(dense, n)
           Before(m, n) == Score(m) > Score(n) \/ (Score(m) = Score(n) /\ m < n)
           R == { p \in all \X all : Before(p[1], p[2]) }
           Fused(s) == s \in [1 .. Cardinality(all) -> all]
                       /\ \A i, j \in DOMAIN s : i < j => Before(s[i], s[j])
<1>1. all \subseteq Nodes /\ \A n \in all : Score(n) \in Int /\ n \in Nat
  BY WeightIsInt, NodePlaces
<1>2. IsFiniteSet(all) /\ Cardinality(all) \in Nat
  BY <1>1, NodePlaces, FS_Subset, FS_CardinalityType
<1>3. RrfFuse(bm25, dense) = CHOOSE s : Fused(s)
  BY DEF RrfFuse
<1> HIDE DEF all, Score
<1>4. TotalOn(all, R)
  <2>1. ASSUME NEW c \in all, NEW d \in all, c # d PROVE <<c, d>> \in R \/ <<d, c>> \in R
    BY <1>1, <2>1
  <2>2. ASSUME NEW c \in all, NEW d \in all, NEW e \in all, <<c, d>> \in R, <<d, e>> \in R
        PROVE  <<c, e>> \in R
    <3>1. Before(c, d) /\ Before(d, e)
      BY <2>2
    <3>2. Before(c, e)
      BY <1>1, <3>1
    <3> QED BY <3>2
  <2> HIDE DEF R
  <2> QED BY <2>1, <2>2 DEF TotalOn
<1>5. PICK t : Sorts(t, all, R)
  <2> HIDE DEF R
  <2> QED BY <1>2, <1>4, CanBeSorted
<1>6. Fused(t)
  BY <1>5 DEF Sorts
<1> DEFINE s == CHOOSE x : Fused(x)
<1>7. Fused(s)
  BY <1>6
<1> HIDE DEF s
<1>8. s \in Seq(Nodes) /\ DOMAIN s = 1 .. Cardinality(all) /\ \A i \in DOMAIN s : s[i] \in all
  BY <1>1, <1>2, <1>7
<1>9. IsInjective(s)
  <2> SUFFICES ASSUME NEW i \in DOMAIN s, NEW j \in DOMAIN s, s[i] = s[j], i # j PROVE FALSE
    BY DEF IsInjective
  <2>1. i < j \/ j < i
    BY <1>2, <1>8
  <2>2. Before(s[i], s[j]) \/ Before(s[j], s[i])
    BY <1>7, <2>1
  <2> QED BY <1>1, <1>8, <2>2
<1> QED BY <1>3, <1>8, <1>9 DEF ListOf, s

(***************************************************************************)
(* The inductive invariant.                                                *)
(***************************************************************************)

Statuses == {"Uninitialized", "Ready", "Empty", "Error"}
Commands ==
  [cmd : {"rebuild"}] \cup [cmd : {"status", "search"}, by : Requests, attempt : 0 .. Retries]
FoundNodes == [node : Nodes, hash : VersionsOrNone, span : VersionsOrNone]

Announcing == {"status to send", "status", "search to send"}

RequestStates ==
  [pc : {"new", "search", "fetch", "snippets", "ended"}, attempts : 0 .. Retries,
   heard : Statuses \cup {"unknown"},
   sparse : Announcing \cup {"none", "search", "answered", "embedding", "done", "error"},
   bm25 : Lists, dense : {"none", "embedding", "done", "error"}, near : Lists,
   hits : Lists, nodes : Seq(FoundNodes), known : SUBSET Nodes]

\* The parts of the state of which TypeOK says less than a proof needs.
WorldShape == disk \in [Files -> 1 .. Versions] /\ GraphOK(graph)
ManagerShape ==
  manager \in {Idle, [step |-> "rebuild"]} \cup [step : {"retract"}, changed : SUBSET Files]
                \cup [step : {"question"}, for : Requests]
InboxShape == inbox \in Seq(Commands) /\ Len(inbox) <= ChannelCap
ActorShape ==
  /\ actor \in {Idle} \cup [step : {"rebuild"}, kind : 1 .. Kinds + 1, found : SUBSET Nodes]
  /\ index \subseteq Nodes /\ status \in Statuses /\ (status = "Ready" => index # {})
RequestShape == request \in [Requests -> RequestStates]
Shape == WorldShape /\ ManagerShape /\ InboxShape /\ ActorShape /\ RequestShape

\* Only a search has its locals.
Tidy(q) == q.pc # "search" => q.sparse = "none" /\ q.dense = "none" /\ q.known = {}

\* What was fetched are hits, in their order, and what is said of each is sound.
InHitOrder(q) ==
  /\ \A i \in DOMAIN q.nodes :
       /\ q.nodes[i].node \in ToSet(q.hits)
       /\ FetchedSound(q.nodes[i].node, q.nodes[i])
  /\ \A i, j \in DOMAIN q.nodes :
       i < j => Place(q.hits, q.nodes[i].node) < Place(q.hits, q.nodes[j].node)

IsSearch(command, r) == command.cmd = "search" /\ command.by = r

\* A search in the channel is of the present attempt only once that was sent.
Numbered(r) ==
  \A i \in DOMAIN inbox : IsSearch(inbox[i], r) =>
    /\ request[r].pc # "new"
    /\ request[r].sparse \in Announcing => inbox[i].attempt < request[r].attempts
    /\ request[r].sparse \in {"search", "answered"} => inbox[i].attempt <= request[r].attempts

\* The nodes of K are in the index, or the rebuild under way has found them or has still
\* to look for them.
Covered(K, act, idx) ==
  IF act = Idle THEN K \subseteq idx ELSE \A k \in K : k \in act.found \/ KindOf[k] >= act.kind

\* They will be when the first n commands are served.
Promised(K, n, box, act, idx) ==
  (\E j \in 1 .. n : box[j].cmd = "rebuild") \/ Covered(K, act, idx)

Known(r) ==
  /\ request[r].known \subseteq Rows \cap ToSet(Match)
  /\ ~failed =>
       IF request[r].sparse = "search"
       THEN \A i \in DOMAIN inbox :
              IsSearch(inbox[i], r) /\ inbox[i].attempt = request[r].attempts =>
                Promised(request[r].known, i - 1, inbox, actor, index)
       ELSE Promised(request[r].known, Len(inbox), inbox, actor, index)

AskedSound ==
  asked \subseteq Rows /\ (~failed => Promised(asked, Len(inbox), inbox, actor, index))

IInv ==
  /\ Shape /\ AskedSound
  /\ \A r \in Requests : Tidy(request[r]) /\ InHitOrder(request[r]) /\ Numbered(r) /\ Known(r)

(***************************************************************************)
(* How a step carries the invariant over.                                  *)
(***************************************************************************)

\* The lists and the records at their start.
LEMMA NewRequestFits ==
  /\ <<>> \in Lists /\ ListOf(<<>>)
  /\ \A pc \in {"new", "search", "fetch", "snippets", "ended"} :
       LET q == [NewRequest EXCEPT !.pc = pc]
       IN q \in RequestStates /\ Tidy(q) /\ InHitOrder(q)
<1>1. ListOf(<<>>) /\ Len(<<>>) = 0 /\ <<>> \in Seq(FoundNodes) /\ DOMAIN <<>> = {}
  BY EmptySeq DEF ListOf, IsInjective
<1>2. TopK \in Nat /\ Retries \in Nat
  BY RetrievalAssumption
<1>3. <<>> \in Lists
  BY <1>1, <1>2, ListsAre
<1>4. NewRequest \in RequestStates
  BY <1>1, <1>2, <1>3 DEF NewRequest, RequestStates, Statuses
<1>5. /\ NewRequest.sparse = "none" /\ NewRequest.dense = "none" /\ NewRequest.known = {}
      /\ NewRequest.nodes = <<>>
  BY DEF NewRequest
<1>6. ASSUME NEW pc \in {"new", "search", "fetch", "snippets", "ended"},
             NEW q, q = [NewRequest EXCEPT !.pc = pc]
      PROVE  q \in RequestStates /\ Tidy(q) /\ InHitOrder(q)
  <2>1. q \in RequestStates
    BY <1>4, <1>6 DEF RequestStates
  <2>2. q.sparse = "none" /\ q.dense = "none" /\ q.known = {} /\ q.nodes = <<>>
    BY <1>4, <1>5, <1>6 DEF RequestStates
  <2> QED BY <1>1, <2>1, <2>2 DEF Tidy, InHitOrder
<1> QED BY <1>1, <1>3, <1>6

\* How one request may change so that its searches in the channel stay numbered.
KeepsNumber(p, q) ==
  /\ q.pc = "new" => q = p
  /\ q.sparse \in Announcing =>
       \/ p.pc = "new"
       \/ p.sparse \in Announcing /\ p.attempts <= q.attempts
       \/ p.sparse \in {"search", "answered"} /\ p.attempts < q.attempts
  /\ q.sparse \in {"search", "answered"} =>
       p.sparse \in {"search", "answered"} /\ p.attempts <= q.attempts

\* What is in the channel of r's searches was there before, d places further.
Moved(r, d) ==
  \A i \in DOMAIN inbox' : IsSearch(inbox'[i], r) => i + d \in DOMAIN inbox /\ inbox'[i] = inbox[i + d]

LEMMA NumberedKept ==
  ASSUME Shape, Shape', NEW r \in Requests, Numbered(r), NEW d \in 0 .. 1, Moved(r, d),
         KeepsNumber(request[r], request'[r])
  PROVE  Numbered(r)'
<1> DEFINE p == request[r]
           q == request'[r]
<1>0. p.attempts \in Nat /\ q.attempts \in Nat
  BY RetrievalAssumption DEF Shape, RequestShape, RequestStates
<1>1. \A i \in DOMAIN inbox : IsSearch(inbox[i], r) => inbox[i].attempt \in Nat
  <2>1. \A i \in DOMAIN inbox : inbox[i] \in Commands
    BY DEF Shape, InboxShape
  <2> QED BY <2>1, RetrievalAssumption DEF Commands, IsSearch
<1> SUFFICES ASSUME NEW i \in DOMAIN inbox', IsSearch(inbox'[i], r)
             PROVE  /\ q.pc # "new"
                    /\ q.sparse \in Announcing => inbox'[i].attempt < q.attempts
                    /\ q.sparse \in {"search", "answered"} => inbox'[i].attempt <= q.attempts
  BY DEF Numbered
<1> DEFINE a == inbox[i + d].attempt
<1>2. /\ i + d \in DOMAIN inbox /\ inbox'[i] = inbox[i + d] /\ IsSearch(inbox[i + d], r)
      /\ a \in Nat
  BY <1>1 DEF Moved
<1>3. /\ p.pc # "new" /\ (p.sparse \in Announcing => a < p.attempts)
      /\ (p.sparse \in {"search", "answered"} => a <= p.attempts)
  BY <1>2 DEF Numbered
<1> HIDE DEF a, p, q
<1> QED BY <1>0, <1>2, <1>3 DEF KeepsNumber, a, p, q

\* How one request may change so that what it knows of stays promised.
KeepsKnown(p, q) ==
  \/ q.known = {}
  \/ q.known = p.known /\ ("search" \in {p.sparse, q.sparse} =>
                             q.sparse = p.sparse /\ q.attempts = p.attempts)
  \/ q.known = asked \cap ToSet(Match) /\ q.sparse # "search"

\* Rows stay, and so does what is promised of them.
Carried(d) ==
  /\ Rows \subseteq Rows'
  /\ ~failed' =>
       /\ ~failed
       /\ \A K \in SUBSET Rows :
            /\ Promised(K, Len(inbox), inbox, actor, index)
                 => Promised(K, Len(inbox'), inbox', actor', index')
            /\ \A i \in DOMAIN inbox' :
                 i + d \in DOMAIN inbox /\ Promised(K, i + d - 1, inbox, actor, index)
                   => Promised(K, i - 1, inbox', actor', index')

LEMMA NothingPromised ==
  ASSUME NEW n, NEW box, NEW act, NEW idx
  PROVE  Promised({}, n, box, act, idx)
  BY DEF Promised, Covered

LEMMA FewerPromised ==
  ASSUME NEW n, NEW box, NEW act, NEW idx, NEW K, NEW L \in SUBSET K, Promised(K, n, box, act, idx)
  PROVE  Promised(L, n, box, act, idx)
  BY DEF Promised, Covered

LEMMA KnownKept ==
  ASSUME AskedSound, NEW r \in Requests, Known(r), NEW d \in 0 .. 1, Moved(r, d), Carried(d),
         KeepsKnown(request[r], request'[r])
  PROVE  Known(r)'
<1> DEFINE p == request[r]
           q == request'[r]
<1>1. /\ p.known \subseteq Rows \cap ToSet(Match) /\ asked \subseteq Rows /\ Rows \subseteq Rows'
      /\ q.known \subseteq Rows \cap ToSet(Match)
  BY DEF Known, AskedSound, Carried, KeepsKnown
<1>2. ASSUME ~failed', q.sparse # "search"
      PROVE  Promised(q.known, Len(inbox'), inbox', actor', index')
  <2>1. CASE q.known = {}
    BY <2>1, NothingPromised
  <2>2. CASE q.known = p.known /\ p.sparse # "search"
    BY <1>1, <1>2, <2>2 DEF Known, Carried
  <2>3. CASE q.known = asked \cap ToSet(Match)
    <3>1. Promised(asked, Len(inbox), inbox, actor, index)
      BY <1>2 DEF AskedSound, Carried
    <3>2. Promised(q.known, Len(inbox), inbox, actor, index)
      BY <2>3, <3>1, FewerPromised
    <3> QED BY <1>1, <1>2, <3>2 DEF Carried
  <2> QED BY <1>2, <2>1, <2>2, <2>3 DEF KeepsKnown
<1>3. ASSUME ~failed', q.sparse = "search", NEW i \in DOMAIN inbox', IsSearch(inbox'[i], r),
             inbox'[i].attempt = q.attempts
      PROVE  Promised(q.known, i - 1, inbox', actor', index')
  <2>1. CASE q.known = {}
    BY <2>1, NothingPromised
  <2>2. CASE q.known = p.known /\ p.sparse = "search" /\ q.attempts = p.attempts
    <3>1. i + d \in DOMAIN inbox /\ inbox'[i] = inbox[i + d]
      BY <1>3 DEF Moved
    <3>2. Promised(p.known, i + d - 1, inbox, actor, index)
      BY <1>3, <2>2, <3>1 DEF Known, Carried
    <3> QED BY <1>1, <1>3, <2>2, <3>1, <3>2 DEF Carried
  <2> QED BY <1>3, <2>1, <2>2 DEF KeepsKnown
<1> QED BY <1>1, <1>2, <1>3 DEF Known

LEMMA AskedKept ==
  ASSUME AskedSound, NEW d \in 0 .. 1, Carried(d), asked' = asked
  PROVE  AskedSound'
  BY DEF AskedSound, Carried

\* When neither the channel nor the actor moves.
LEMMA CarriedStill ==
  ASSUME UNCHANGED <<inbox, actor, index, failed>>, Rows \subseteq Rows'
  PROVE  Carried(0) /\ \A r \in Requests : Moved(r, 0)
  BY DEF Carried, Moved

LEMMA SelfKept ==
  ASSUME Shape, NEW r \in Requests
  PROVE  KeepsNumber(request[r], request[r]) /\ KeepsKnown(request[r], request[r])
<1>1. request[r].attempts \in Nat
  BY RetrievalAssumption DEF Shape, RequestShape, RequestStates
<1> QED BY <1>1 DEF KeepsNumber, KeepsKnown

\* A step that leaves the requests alone.
LEMMA QuietStep ==
  ASSUME IInv, Shape', NEW d \in 0 .. 1, Carried(d), \A r \in Requests : Moved(r, d),
         UNCHANGED request, AskedSound'
  PROVE  IInv'
<1>1. ASSUME NEW r \in Requests
      PROVE  Tidy(request[r])' /\ InHitOrder(request[r])' /\ Numbered(r)' /\ Known(r)'
  <2>1. request'[r] = request[r] /\ Tidy(request'[r]) /\ InHitOrder(request'[r])
    BY DEF IInv
  <2>2. KeepsNumber(request[r], request'[r]) /\ KeepsKnown(request[r], request'[r])
    BY <2>1, SelfKept DEF IInv
  <2>3. Numbered(r)'
    BY <2>2, NumberedKept DEF IInv
  <2>4. Known(r)'
    BY <2>2, KnownKept DEF IInv
  <2> QED BY <2>1, <2>3, <2>4
<1> QED BY <1>1 DEF IInv

\* A step of the files, the graph or the state manager.
LEMMA WorldStep ==
  ASSUME IInv, WorldShape', ManagerShape', Rows \subseteq Rows',
         UNCHANGED <<inbox, actorVars, request, asked, failed>>
  PROVE  IInv'
<1>1. Shape'
  BY DEF IInv, Shape, InboxShape, ActorShape, RequestShape, actorVars
<1>2. Carried(0) /\ \A r \in Requests : Moved(r, 0)
  BY CarriedStill DEF actorVars
<1>3. AskedSound'
  BY <1>2, AskedKept DEF IInv
<1> QED BY <1>1, <1>2, <1>3, QuietStep

\* A step of one request by itself.
LEMMA RequestStep ==
  ASSUME IInv, NEW r \in Requests, NEW q \in RequestStates, To(r, q), ManagerShape',
         Tidy(q), InHitOrder(q), KeepsNumber(request[r], q), KeepsKnown(request[r], q)
  PROVE  IInv'
<1> USE DEF To, worldVars, actorVars, historyVars
<1>1. /\ request' \in [Requests -> RequestStates] /\ request'[r] = q
      /\ \A s \in Requests : s # r => request'[s] = request[s]
  BY DEF IInv, Shape, RequestShape
<1>2. Shape'
  BY <1>1 DEF IInv, Shape, InboxShape, ActorShape, RequestShape, WorldShape
<1>3. Carried(0) /\ \A s \in Requests : Moved(s, 0)
  BY CarriedStill DEF Rows
<1>4. AskedSound'
  BY <1>3, AskedKept DEF IInv
<1>5. ASSUME NEW s \in Requests
      PROVE  Tidy(request[s])' /\ InHitOrder(request[s])' /\ Numbered(s)' /\ Known(s)'
  <2>1. Tidy(request'[s]) /\ InHitOrder(request'[s])
    BY <1>1 DEF IInv
  <2>2. KeepsNumber(request[s], request'[s]) /\ KeepsKnown(request[s], request'[s])
    BY <1>1, SelfKept DEF IInv
  <2>3. Numbered(s)'
    BY <1>2, <1>3, <2>2, NumberedKept DEF IInv
  <2>4. Known(s)'
    BY <1>3, <2>2, KnownKept DEF IInv
  <2> QED BY <2>1, <2>3, <2>4
<1> QED BY <1>2, <1>4, <1>5 DEF IInv

(***************************************************************************)
(* The files, the graph and the state manager.                             *)
(***************************************************************************)

LEMMA SetIsModel == Set \in Models
<1>1. Models # {}
  <2>1. Cardinality({}) = 0 /\ Cardinality(Models) = 1
    BY FS_EmptySet, RetrievalAssumption
  <2> QED BY <2>1
<1> QED BY <1>1 DEF Set

LEMMA EditStep == ASSUME IInv, NEW f \in Files, Edit(f) PROVE IInv'
<1>1. WorldShape' /\ ManagerShape'
  BY NodePlaces DEF Edit, IInv, Shape, WorldShape, ManagerShape
<1>2. Rows \subseteq Rows' /\ UNCHANGED <<inbox, actorVars, request, asked, failed>>
  BY DEF Edit, Rows, historyVars
<1> QED BY <1>1, <1>2, WorldStep

LEMMA IndexStep == ASSUME IInv, IndexNodes PROVE IInv'
<1> DEFINE left == [n \in {n \in Rows : ~IsLive(graph, Set, n)} |-> EmbedData(graph, n)]
<1>0. PICK read \in Readings(left, disk) :
        graph' = PutVectors(graph, Set, [n \in {n \in DOMAIN left : read[n].ok} |-> read[n].text],
                            Set)
  BY DEF IndexNodes
<1> DEFINE texts == [n \in {n \in DOMAIN left : read[n].ok} |-> read[n].text]
<1>1. graph' = PutVectors(graph, Set, texts, Set)
  BY <1>0
<1>2. \A n \in DOMAIN texts : texts[n] \in VersionsOrNone
  <2> SUFFICES ASSUME NEW n \in DOMAIN left, read[n].ok PROVE read[n].text \in VersionsOrNone
    OBVIOUS
  <2>1. n \in Nodes /\ left[n] = EmbedData(graph, n) /\ read[n] \in Snippets(left[n], disk)
    BY DEF Rows, Readings
  <2>2. /\ left[n].node = n /\ left[n].span \in VersionsOrNone
        /\ disk[FileOf[n]] \in VersionsOrNone
    BY <2>1, EmbedDataSound, NodePlaces
       DEF IInv, Shape, WorldShape, VersionsOrNone, FetchedSound
  <2> QED BY <2>1, <2>2, SnippetsSound
<1> HIDE DEF texts, left
<1>3. GraphOK(graph') /\ graph'.row = graph.row
  BY <1>1, <1>2, SetIsModel, PutVectorsOK DEF IInv, Shape, WorldShape
<1>4. WorldShape' /\ ManagerShape'
  BY <1>3 DEF IndexNodes, IInv, Shape, WorldShape, ManagerShape
<1>5. Rows \subseteq Rows' /\ UNCHANGED <<inbox, actorVars, request, asked, failed>>
  BY <1>3 DEF IndexNodes, Rows, historyVars
<1> QED BY <1>4, <1>5, WorldStep

LEMMA ScanParseStep == ASSUME IInv, ScanParse PROVE IInv'
<1>1. PICK changed \in SUBSET Files :
        graph' = Transform(graph, changed, disk) /\ manager' = [step |-> "retract", changed |-> changed]
  BY DEF ScanParse
<1>2. GraphOK(graph') /\ \A n \in Nodes : graph.row[n] # 0 => graph'.row[n] # 0
  BY <1>1, TransformOK, TransformKeepsRows DEF IInv, Shape, WorldShape
<1>3. WorldShape' /\ ManagerShape'
  BY <1>1, <1>2 DEF ScanParse, IInv, Shape, WorldShape, ManagerShape
<1>4. Rows \subseteq Rows' /\ UNCHANGED <<inbox, actorVars, request, asked, failed>>
  BY <1>2 DEF ScanParse, Rows, historyVars
<1> QED BY <1>3, <1>4, WorldStep

LEMMA ScanRetractStep == ASSUME IInv, ScanRetract PROVE IInv'
<1>1. GraphOK(graph') /\ graph'.row = graph.row
  BY SetIsModel, RetractFilesOK DEF ScanRetract, IInv, Shape, WorldShape
<1>2. WorldShape' /\ ManagerShape'
  BY <1>1 DEF ScanRetract, IInv, Shape, WorldShape, ManagerShape
<1>3. Rows \subseteq Rows' /\ UNCHANGED <<inbox, actorVars, request, asked, failed>>
  BY <1>1 DEF ScanRetract, Rows, historyVars
<1> QED BY <1>2, <1>3, WorldStep

LEMMA AskRebuildStep == ASSUME IInv, AskRebuild PROVE IInv'
<1>1. WorldShape' /\ ManagerShape'
  BY DEF AskRebuild, worldVars, IInv, Shape, WorldShape, ManagerShape
<1>2. Rows \subseteq Rows' /\ UNCHANGED <<inbox, actorVars, request, asked, failed>>
  BY DEF AskRebuild, worldVars, Rows
<1> QED BY <1>1, <1>2, WorldStep

(***************************************************************************)
(* The channel and the actor.                                              *)
(***************************************************************************)

\* What the channel is after a command was sent.
LEMMA Sent ==
  ASSUME InboxShape, HasRoom, NEW c \in Commands, inbox' = Append(inbox, c)
  PROVE  /\ InboxShape' /\ Len(inbox) \in Nat /\ Len(inbox') = Len(inbox) + 1
         /\ DOMAIN inbox' = 1 .. Len(inbox) + 1 /\ DOMAIN inbox = 1 .. Len(inbox)
         /\ \A i \in 1 .. Len(inbox) : inbox'[i] = inbox[i]
         /\ inbox'[Len(inbox) + 1] = c
<1>1. inbox \in Seq(Commands) /\ Len(inbox) \in Nat /\ DOMAIN inbox = 1 .. Len(inbox)
  BY LenProperties DEF InboxShape
<1>2. /\ inbox' \in Seq(Commands) /\ Len(inbox') = Len(inbox) + 1
      /\ \A i \in 1 .. Len(inbox) : inbox'[i] = inbox[i]
      /\ inbox'[Len(inbox) + 1] = c
  BY <1>1, AppendProperties
<1>3. Len(inbox') <= ChannelCap
  BY <1>1, <1>2, RetrievalAssumption DEF HasRoom
<1> QED BY <1>1, <1>2, <1>3, LenProperties DEF InboxShape

\* What was promised is, however many commands follow.
LEMMA SentCarries ==
  ASSUME InboxShape, HasRoom, NEW c \in Commands, inbox' = Append(inbox, c),
         UNCHANGED <<actor, index, failed>>, Rows \subseteq Rows'
  PROVE  /\ Carried(0)
         /\ \A r \in Requests : ~IsSearch(c, r) => Moved(r, 0)
<1>0. /\ Len(inbox) \in Nat /\ Len(inbox') = Len(inbox) + 1
      /\ DOMAIN inbox' = 1 .. Len(inbox) + 1 /\ DOMAIN inbox = 1 .. Len(inbox)
      /\ \A i \in 1 .. Len(inbox) : inbox'[i] = inbox[i]
      /\ inbox'[Len(inbox) + 1] = c
  BY Sent
<1>1. ASSUME NEW K \in SUBSET Rows, NEW n \in 0 .. Len(inbox),
             Promised(K, n, inbox, actor, index), NEW m \in n .. Len(inbox) + 1
      PROVE  Promised(K, m, inbox', actor', index')
  <2>1. CASE \E j \in 1 .. n : inbox[j].cmd = "rebuild"
    <3>1. PICK j \in 1 .. n : inbox[j].cmd = "rebuild"
      BY <2>1
    <3>2. j \in 1 .. m /\ inbox'[j] = inbox[j]
      BY <1>0
    <3> QED BY <3>1, <3>2 DEF Promised
  <2>2. CASE Covered(K, actor, index)
    BY <2>2 DEF Promised
  <2> QED BY <1>1, <2>1, <2>2 DEF Promised
<1>2. Carried(0)
  <2>1. ASSUME NEW K \in SUBSET Rows, Promised(K, Len(inbox), inbox, actor, index)
        PROVE  Promised(K, Len(inbox'), inbox', actor', index')
    BY <1>0, <1>1, <2>1
  <2>2. ASSUME NEW K \in SUBSET Rows, NEW i \in DOMAIN inbox', i + 0 \in DOMAIN inbox,
               Promised(K, i + 0 - 1, inbox, actor, index)
        PROVE  Promised(K, i - 1, inbox', actor', index')
    <3>1. i - 1 \in 0 .. Len(inbox) /\ i + 0 - 1 = i - 1 /\ i - 1 \in i - 1 .. Len(inbox) + 1
      BY <1>0, <2>2
    <3> QED BY <1>1, <2>2, <3>1
  <2> QED BY <2>1, <2>2 DEF Carried
<1>3. ASSUME NEW r \in Requests, ~IsSearch(c, r) PROVE Moved(r, 0)
  BY <1>0, <1>3 DEF Moved
<1> QED BY <1>2, <1>3

LEMMA SendRebuildStep == ASSUME IInv, SendRebuild PROVE IInv'
<1> DEFINE c == [cmd |-> "rebuild"]
<1>1. /\ c \in Commands /\ HasRoom /\ inbox' = Append(inbox, c) /\ InboxShape
      /\ UNCHANGED <<worldVars, actorVars, request, failed>> /\ manager' = Idle /\ asked' = Rows
      /\ Rows' = Rows /\ \A r \in Requests : ~IsSearch(c, r)
  BY DEF SendRebuild, Commands, IInv, Shape, worldVars, Rows, IsSearch
<1> HIDE DEF c
<1>2. Carried(0) /\ \A r \in Requests : Moved(r, 0)
  BY <1>1, SentCarries DEF actorVars
<1>3. Shape'
  BY <1>1, Sent DEF IInv, Shape, WorldShape, ManagerShape, ActorShape, RequestShape,
     worldVars, actorVars
<1>4. AskedSound'
  <2>1. Len(inbox') \in 1 .. Len(inbox') /\ inbox'[Len(inbox')].cmd = "rebuild"
    BY <1>1, Sent DEF c
  <2> QED BY <1>1, <2>1 DEF AskedSound, Promised
<1> QED BY <1>1, <1>2, <1>3, <1>4, QuietStep

\* What the channel is after the actor took a command.
LEMMA Received ==
  ASSUME InboxShape, inbox # <<>>, inbox' = Tail(inbox)
  PROVE  /\ InboxShape' /\ Head(inbox) \in Commands /\ Head(inbox) = inbox[1]
         /\ Len(inbox) \in Nat \ {0} /\ Len(inbox') = Len(inbox) - 1
         /\ DOMAIN inbox' = 1 .. Len(inbox) - 1 /\ DOMAIN inbox = 1 .. Len(inbox)
         /\ \A i \in 1 .. Len(inbox) - 1 : inbox'[i] = inbox[i + 1]
<1>1. inbox \in Seq(Commands) /\ Len(inbox) \in Nat /\ DOMAIN inbox = 1 .. Len(inbox)
  BY LenProperties DEF InboxShape
<1>2. Len(inbox) # 0
  BY <1>1, EmptySeq
<1>3. /\ Head(inbox) \in Commands /\ inbox' \in Seq(Commands) /\ Head(inbox) = inbox[1]
      /\ Len(inbox') = Len(inbox) - 1
      /\ \A i \in 1 .. Len(inbox) - 1 : inbox'[i] = inbox[i + 1]
  <2>1. Head(inbox) \in Commands /\ Tail(inbox) \in Seq(Commands) /\ Head(inbox) = inbox[1]
    BY <1>1, <1>2
  <2>2. Len(Tail(inbox)) = Len(inbox) - 1 /\ \A i \in 1 .. Len(inbox) - 1 : Tail(inbox)[i] = inbox[i + 1]
    BY <1>1, <1>2
  <2> QED BY <2>1, <2>2
<1>4. Len(inbox') <= ChannelCap /\ DOMAIN inbox' = 1 .. Len(inbox')
  BY <1>1, <1>3, RetrievalAssumption, LenProperties DEF InboxShape
<1> QED BY <1>1, <1>2, <1>3, <1>4 DEF InboxShape

LEMMA ReceivedMoves ==
  ASSUME InboxShape, inbox # <<>>, inbox' = Tail(inbox)
  PROVE  \A r \in Requests : Moved(r, 1)
<1>1. /\ DOMAIN inbox' = 1 .. Len(inbox) - 1 /\ DOMAIN inbox = 1 .. Len(inbox)
      /\ Len(inbox) \in Nat /\ \A i \in 1 .. Len(inbox) - 1 : inbox'[i] = inbox[i + 1]
  BY Received
<1> QED BY <1>1 DEF Moved

\* To answer somebody takes no rebuild out of the channel.
LEMMA ServedCarries ==
  ASSUME InboxShape, inbox # <<>>, inbox' = Tail(inbox), Head(inbox).cmd # "rebuild",
         UNCHANGED <<actor, index, failed>>, Rows' = Rows
  PROVE  Carried(1)
<1>0. /\ Head(inbox) = inbox[1] /\ Len(inbox) \in Nat \ {0} /\ Len(inbox') = Len(inbox) - 1
      /\ DOMAIN inbox' = 1 .. Len(inbox) - 1 /\ DOMAIN inbox = 1 .. Len(inbox)
      /\ \A i \in 1 .. Len(inbox) - 1 : inbox'[i] = inbox[i + 1]
  BY Received
<1>1. ASSUME NEW K \in SUBSET Rows, NEW n \in 1 .. Len(inbox),
             Promised(K, n, inbox, actor, index)
      PROVE  Promised(K, n - 1, inbox', actor', index')
  <2>1. CASE \E j \in 1 .. n : inbox[j].cmd = "rebuild"
    <3>1. PICK j \in 1 .. n : inbox[j].cmd = "rebuild"
      BY <2>1
    <3>2. j # 1
      BY <1>0, <3>1
    <3>3. j - 1 \in 1 .. n - 1 /\ j - 1 \in 1 .. Len(inbox) - 1 /\ j - 1 + 1 = j
      BY <1>0, <3>2
    <3>4. inbox'[j - 1] = inbox[j]
      BY <1>0, <3>3
    <3> QED BY <3>1, <3>3, <3>4 DEF Promised
  <2>2. CASE Covered(K, actor, index)
    BY <2>2 DEF Promised
  <2> QED BY <1>1, <2>1, <2>2 DEF Promised
<1>2. ASSUME NEW K \in SUBSET Rows, Promised(K, Len(inbox), inbox, actor, index)
      PROVE  Promised(K, Len(inbox'), inbox', actor', index')
  BY <1>0, <1>1, <1>2
<1>3. ASSUME NEW K \in SUBSET Rows, NEW i \in DOMAIN inbox',
             Promised(K, i + 1 - 1, inbox, actor, index)
      PROVE  Promised(K, i - 1, inbox', actor', index')
  <2>1. i \in 1 .. Len(inbox) /\ i + 1 - 1 = i
    BY <1>0
  <2> QED BY <1>1, <1>3, <2>1
<1> QED BY <1>2, <1>3 DEF Carried

LEMMA SearchIsList ==
  ListOf(Among(Match, index)) /\ Search \in Lists
<1>1. ListOf(Match)
  BY RetrievalAssumption DEF ListOf
<1> QED BY <1>1, AmongOfList, TruncateList DEF Search

\* Who was answered, and how.
LEMMA ServeAnswers ==
  ASSUME Shape, Serve, NEW r \in Requests
  PROVE  LET p == request[r]
             q == request'[r] IN
         \/ q = p
         \/ p.sparse = "status" /\ q = [p EXCEPT !.sparse = "search to send", !.heard = status]
         \/ /\ p.sparse = "search" /\ IsSearch(Head(inbox), r) /\ Head(inbox).attempt = p.attempts
            /\ q = [p EXCEPT !.sparse = "answered", !.bm25 = Search, !.known = {}]
<1>1. Head(inbox) \in Commands /\ Head(inbox).cmd # "rebuild"
  BY Received DEF Shape, Serve
<1>2. Head(inbox).cmd \in {"status", "search"} /\ Head(inbox).by \in Requests
  BY <1>1 DEF Commands
<1>3. request \in [Requests -> RequestStates]
  BY DEF Shape, RequestShape
<1> QED BY <1>2, <1>3 DEF Serve, Answers, IsSearch

LEMMA ServeStep == ASSUME IInv, Serve PROVE IInv'
<1>1. /\ InboxShape /\ inbox # <<>> /\ inbox' = Tail(inbox) /\ Head(inbox).cmd # "rebuild"
      /\ UNCHANGED <<worldVars, manager, actorVars, historyVars>> /\ Rows' = Rows
  BY DEF Serve, IInv, Shape, worldVars, Rows
<1>2. Carried(1) /\ \A r \in Requests : Moved(r, 1)
  BY <1>1, ServedCarries, ReceivedMoves DEF actorVars, historyVars
<1>3. AskedSound'
  BY <1>1, <1>2, AskedKept DEF IInv, historyVars
<1>4. ASSUME NEW r \in Requests
      PROVE  /\ request'[r] \in RequestStates /\ Tidy(request'[r]) /\ InHitOrder(request'[r])
             /\ KeepsNumber(request[r], request'[r]) /\ KeepsKnown(request[r], request'[r])
  <2> DEFINE p == request[r]
             q == request'[r]
  <2>1. p \in RequestStates /\ Tidy(p) /\ InHitOrder(p) /\ status \in Statuses /\ p.attempts \in Nat
    BY RetrievalAssumption DEF IInv, Shape, RequestShape, RequestStates, ActorShape
  <2>2. CASE q = p
    BY <2>1, <2>2, SelfKept DEF IInv
  <2>3. CASE p.sparse = "status" /\ q = [p EXCEPT !.sparse = "search to send", !.heard = status]
    <3> HIDE DEF p, q
    <3>1. /\ q \in RequestStates /\ q.sparse = "search to send" /\ q.pc = p.pc
          /\ q.attempts = p.attempts /\ q.known = p.known /\ q.hits = p.hits /\ q.nodes = p.nodes
          /\ q.dense = p.dense
      BY <2>1, <2>3 DEF RequestStates, Announcing
    <3>2. p.pc = "search"
      BY <2>1, <2>3 DEF Tidy
    <3>3. Tidy(q) /\ InHitOrder(q)
      BY <2>1, <3>1, <3>2 DEF Tidy, InHitOrder
    <3>4. KeepsNumber(p, q) /\ KeepsKnown(p, q)
      BY <2>1, <2>3, <3>1, <3>2 DEF KeepsNumber, KeepsKnown, Announcing
    <3> QED BY <3>1, <3>3, <3>4 DEF p, q
  <2>4. CASE p.sparse = "search" /\ q = [p EXCEPT !.sparse = "answered", !.bm25 = Search, !.known = {}]
    <3> HIDE DEF p, q
    <3>1. /\ q \in RequestStates /\ q.sparse = "answered" /\ q.pc = p.pc
          /\ q.attempts = p.attempts /\ q.known = {} /\ q.hits = p.hits /\ q.nodes = p.nodes
          /\ q.dense = p.dense
      BY <2>1, <2>4, SearchIsList DEF RequestStates
    <3>2. p.pc = "search"
      BY <2>1, <2>4 DEF Tidy
    <3>3. Tidy(q) /\ InHitOrder(q)
      BY <2>1, <3>1, <3>2 DEF Tidy, InHitOrder
    <3>4. KeepsNumber(p, q) /\ KeepsKnown(p, q)
      BY <2>1, <2>4, <3>1, <3>2 DEF KeepsNumber, KeepsKnown, Announcing
    <3> QED BY <3>1, <3>3, <3>4 DEF p, q
  <2> QED BY <2>2, <2>3, <2>4, ServeAnswers DEF IInv
<1>5. Shape'
  <2>1. RequestShape'
    <3>1. request' = [r \in Requests |-> request'[r]]
      BY DEF IInv, Shape, RequestShape, Serve, Answers
    <3> QED BY <1>4, <3>1 DEF RequestShape
  <2> QED BY <1>1, <2>1, Received DEF IInv, Shape, WorldShape, ManagerShape, ActorShape,
         worldVars, actorVars
<1>6. ASSUME NEW r \in Requests PROVE Numbered(r)' /\ Known(r)'
  BY <1>2, <1>4, <1>5, NumberedKept, KnownKept DEF IInv
<1> QED BY <1>3, <1>4, <1>5, <1>6 DEF IInv

LEMMA BeginRebuildStep == ASSUME IInv, BeginRebuild PROVE IInv'
<1>1. /\ InboxShape /\ inbox # <<>> /\ inbox' = Tail(inbox)
      /\ actor' = [step |-> "rebuild", kind |-> 1, found |-> {}]
      /\ UNCHANGED <<worldVars, manager, index, status, request, historyVars>> /\ Rows' = Rows
  BY DEF BeginRebuild, IInv, Shape, worldVars, Rows
<1>2. ASSUME NEW K \in SUBSET Rows, NEW n PROVE Promised(K, n, inbox', actor', index')
  <2>1. \A k \in K : KindOf[k] \in 1 .. Kinds /\ Kinds \in Nat
    BY GraphAssumption DEF Rows
  <2>2. actor' # Idle
    BY <1>1 DEF Idle
  <2>3. Covered(K, actor', index')
    BY <1>1, <2>1, <2>2 DEF Covered
  <2> QED BY <2>3 DEF Promised
<1>3. Carried(1) /\ \A r \in Requests : Moved(r, 1)
  BY <1>1, <1>2, ReceivedMoves DEF Carried, historyVars
<1>4. AskedSound'
  BY <1>1, <1>3, AskedKept DEF IInv, historyVars
<1>5. Shape'
  <2>1. ActorShape'
    BY <1>1, GraphAssumption DEF IInv, Shape, ActorShape
  <2> QED BY <1>1, <2>1, Received DEF IInv, Shape, WorldShape, ManagerShape, RequestShape, worldVars
<1> QED BY <1>1, <1>3, <1>4, <1>5, QuietStep

\* A step of the rebuild itself.
LEMMA RebuildStep ==
  ASSUME IInv, ActorShape', UNCHANGED <<worldVars, manager, inbox, request, asked>>,
         ~failed' => ~failed,
         ~failed' => \A K \in SUBSET Rows : Covered(K, actor, index) => Covered(K, actor', index')
  PROVE  IInv'
<1>1. Rows' = Rows
  BY DEF worldVars, Rows
<1>2. ASSUME ~failed', NEW K \in SUBSET Rows, NEW n, Promised(K, n, inbox, actor, index)
      PROVE  Promised(K, n, inbox', actor', index')
  BY <1>2 DEF Promised
<1>3. Carried(0) /\ \A r \in Requests : Moved(r, 0)
  <2>1. \A i \in DOMAIN inbox : i + 0 = i
    BY LenProperties DEF IInv, Shape, InboxShape
  <2> QED BY <1>1, <1>2, <2>1 DEF Carried, Moved
<1>4. AskedSound'
  BY <1>3, AskedKept DEF IInv
<1>5. Shape'
  BY DEF IInv, Shape, WorldShape, ManagerShape, InboxShape, RequestShape, worldVars
<1> QED BY <1>3, <1>4, <1>5, QuietStep

\* While a rebuild is under way.
LEMMA RebuildUnderWay ==
  ASSUME ActorShape, actor.step = "rebuild"
  PROVE  actor \in [step : {"rebuild"}, kind : 1 .. Kinds + 1, found : SUBSET Nodes] /\ actor # Idle
  BY DEF ActorShape, Idle

LEMMA RebuildKindStep == ASSUME IInv, RebuildKind PROVE IInv'
<1>1. actor \in [step : {"rebuild"}, kind : 1 .. Kinds + 1, found : SUBSET Nodes] /\ actor # Idle
  BY RebuildUnderWay DEF RebuildKind, IInv, Shape
<1> DEFINE seen == {n \in Rows : KindOf[n] = actor.kind}
<1>2. /\ actor.kind <= Kinds /\ Kinds \in Nat /\ seen \subseteq Nodes
      /\ actor' = [actor EXCEPT !.kind = @ + 1, !.found = @ \cup seen]
      /\ UNCHANGED <<worldVars, manager, inbox, index, status, request, historyVars>>
  BY GraphAssumption DEF RebuildKind, Rows
<1>3. /\ actor' \in [step : {"rebuild"}, kind : 1 .. Kinds + 1, found : SUBSET Nodes]
      /\ actor'.kind = actor.kind + 1 /\ actor'.found = actor.found \cup seen /\ actor' # Idle
  <2> HIDE DEF seen
  <2>1. actor.kind + 1 \in 1 .. Kinds + 1 /\ actor.found \cup seen \in SUBSET Nodes
    BY <1>1, <1>2
  <2>2. actor' = [step |-> "rebuild", kind |-> actor.kind + 1, found |-> actor.found \cup seen]
    BY <1>1, <1>2
  <2>3. /\ actor' \in [step : {"rebuild"}, kind : 1 .. Kinds + 1, found : SUBSET Nodes]
        /\ actor'.kind = actor.kind + 1 /\ actor'.found = actor.found \cup seen
    BY <2>1, <2>2
  <2> QED BY <2>2, <2>3 DEF Idle
<1>4. ActorShape'
  BY <1>2, <1>3 DEF IInv, Shape, ActorShape
<1>5. ASSUME NEW K \in SUBSET Rows, Covered(K, actor, index) PROVE Covered(K, actor', index')
  <2>1. ASSUME NEW k \in K PROVE k \in actor'.found \/ KindOf[k] >= actor'.kind
    <3>1. k \in actor.found \/ KindOf[k] >= actor.kind
      BY <1>1, <1>5 DEF Covered
    <3>2. KindOf[k] \in Nat /\ actor.kind \in Nat /\ k \in Rows
      BY <1>1, <1>2, GraphAssumption DEF Rows
    <3>3. KindOf[k] = actor.kind => k \in actor'.found
      BY <1>3, <3>2
    <3>4. KindOf[k] > actor.kind => KindOf[k] >= actor'.kind
      <4> HIDE DEF seen
      <4> QED BY <1>3, <3>2
    <3>5. k \in actor.found => k \in actor'.found
      BY <1>3
    <3> HIDE DEF seen
    <3> QED BY <3>1, <3>2, <3>3, <3>4, <3>5
  <2> QED BY <1>3, <2>1 DEF Covered
<1> QED BY <1>2, <1>4, <1>5, RebuildStep DEF historyVars

LEMMA RebuildFailsStep == ASSUME IInv, RebuildFails PROVE IInv'
<1>1. ActorShape'
  BY DEF RebuildFails, IInv, Shape, ActorShape, Statuses
<1>2. failed' /\ UNCHANGED <<worldVars, manager, inbox, request, asked>>
  BY DEF RebuildFails
<1> QED BY <1>1, <1>2, RebuildStep

LEMMA EndRebuildStep == ASSUME IInv, EndRebuild PROVE IInv'
<1>1. actor \in [step : {"rebuild"}, kind : 1 .. Kinds + 1, found : SUBSET Nodes] /\ actor # Idle
  BY RebuildUnderWay DEF EndRebuild, IInv, Shape
<1>2. ActorShape'
  BY <1>1 DEF EndRebuild, IInv, Shape, ActorShape, Statuses
<1>3. ASSUME NEW K \in SUBSET Rows, Covered(K, actor, index) PROVE Covered(K, actor', index')
  <2>1. \A k \in K : KindOf[k] \in 1 .. Kinds
    BY GraphAssumption DEF Rows
  <2>2. Kinds \in Nat /\ actor.kind > Kinds /\ actor.kind \in Nat /\ actor' = Idle /\ index' = actor.found
    BY <1>1, GraphAssumption DEF EndRebuild
  <2>3. ASSUME NEW k \in K PROVE k \in index'
    <3>1. k \in actor.found \/ KindOf[k] >= actor.kind
      BY <1>1, <1>3 DEF Covered
    <3>2. ~(KindOf[k] >= actor.kind)
      BY <2>1, <2>2
    <3> QED BY <2>2, <3>1, <3>2
  <2> QED BY <2>2, <2>3 DEF Covered
<1> QED BY <1>2, <1>3, RebuildStep DEF EndRebuild, historyVars

(***************************************************************************)
(* The requests.                                                           *)
(***************************************************************************)

\* A step within the search: what was fetched is left alone.
LEMMA SearchStep ==
  ASSUME IInv, NEW r \in Requests, NEW q \in RequestStates, On(r, q),
         request[r].pc = "search", q.pc = "search",
         q.hits = request[r].hits, q.nodes = request[r].nodes,
         KeepsNumber(request[r], q), KeepsKnown(request[r], q)
  PROVE  IInv'
<1>1. ManagerShape' /\ To(r, q)
  BY DEF On, IInv, Shape, ManagerShape
<1>2. Tidy(q) /\ InHitOrder(q)
  BY DEF IInv, Tidy, InHitOrder
<1> QED BY <1>1, <1>2, RequestStep

\* A request under way is one of the known ones, and in its search.
LEMMA RequestFacts ==
  ASSUME IInv, NEW r \in Requests
  PROVE  /\ request[r] \in RequestStates /\ request[r].attempts \in 0 .. Retries
         /\ request[r].bm25 \in Lists /\ request[r].near \in Lists
         /\ request[r].sparse # "none" \/ request[r].dense # "none" => request[r].pc = "search"
         /\ Retries \in Nat /\ <<>> \in Lists
<1>1. request[r] \in RequestStates /\ Tidy(request[r])
  BY DEF IInv, Shape, RequestShape
<1> QED BY <1>1, RetrievalAssumption, NewRequestFits DEF RequestStates, Tidy

\* The keyword search is settled; nobody waits for its answers any more.
LEMMA SettledStep ==
  ASSUME IInv, NEW r \in Requests, NEW bm25 \in Lists, NEW how \in {"done", "error"},
         request[r].sparse # "none", On(r, Settled([request[r] EXCEPT !.bm25 = bm25], how))
  PROVE  IInv'
<1> DEFINE p == request[r]
           q == Settled([p EXCEPT !.bm25 = bm25], how)
<1>1. p \in RequestStates /\ p.pc = "search" /\ Retries \in Nat /\ <<>> \in Lists
  BY RequestFacts
<1> HIDE DEF p
<1> DEFINE left == IF how = "error" THEN <<>> ELSE bm25
<1>4. left \in Lists /\ 0 \in 0 .. Retries
  BY <1>1
<1>5. q = [p EXCEPT !.sparse = how, !.attempts = 0, !.heard = "Uninitialized", !.known = {},
                    !.bm25 = left]
  BY <1>1 DEF Settled, RequestStates
<1>2. /\ q \in RequestStates /\ q.pc = "search" /\ q.hits = p.hits /\ q.nodes = p.nodes
      /\ q.sparse = how /\ q.known = {}
  <2> HIDE DEF left, q
  <2> QED BY <1>1, <1>4, <1>5 DEF RequestStates, Statuses
<1> HIDE DEF q
<1>3. KeepsNumber(p, q) /\ KeepsKnown(p, q)
  BY <1>2 DEF KeepsNumber, KeepsKnown, Announcing
<1> QED BY <1>1, <1>2, <1>3, SearchStep DEF p, q

LEMMA SettledAsItIs ==
  ASSUME IInv, NEW r \in Requests, NEW how \in {"done", "error"},
         request[r].sparse # "none", On(r, Settled(request[r], how))
  PROVE  IInv'
<1>1. request[r] \in RequestStates
  BY RequestFacts
<1>2. request[r] = [request[r] EXCEPT !.bm25 = request[r].bm25] /\ request[r].bm25 \in Lists
  BY <1>1 DEF RequestStates
<1> QED BY <1>2, SettledStep

\* A step of the search that neither sends nor settles anything.
LEMMA StatusStep ==
  ASSUME IInv, NEW r \in Requests, StatusTimesOut(r)
  PROVE  IInv'
<1> DEFINE p == request[r]
           q == [p EXCEPT !.heard = "unknown", !.sparse = "search to send"]
<1>1. p \in RequestStates /\ p.pc = "search" /\ p.sparse = "status" /\ p.attempts \in Nat
  BY RequestFacts DEF StatusTimesOut
<1>2. CASE strategy = "strict"
  BY <1>1, <1>2, SettledAsItIs DEF StatusTimesOut
<1>3. CASE strategy # "strict"
  <2>1. On(r, q)
    BY <1>3 DEF StatusTimesOut
  <2> HIDE DEF p
  <2>2. /\ q \in RequestStates /\ q.pc = "search" /\ q.hits = p.hits /\ q.nodes = p.nodes
        /\ q.sparse = "search to send" /\ q.known = p.known /\ q.attempts = p.attempts
    BY <1>1 DEF RequestStates, Announcing
  <2> HIDE DEF q
  <2>3. KeepsNumber(p, q)
    <3>1. p.sparse \in Announcing
      BY <1>1 DEF Announcing
    <3>2. \A a, b : a \in Nat /\ b = a => a <= b
      OBVIOUS
    <3>3. p.attempts <= q.attempts
      BY <1>1, <2>2, <3>2
    <3> QED BY <2>2, <3>1, <3>3 DEF KeepsNumber
  <2>4. KeepsKnown(p, q)
    BY <1>1, <2>2 DEF KeepsKnown
  <2> QED BY <1>1, <2>1, <2>2, <2>3, <2>4, SearchStep DEF p
<1> QED BY <1>2, <1>3

LEMMA SettlingSteps ==
  ASSUME IInv, NEW r \in Requests, SearchTimesOut(r) \/ TakeHits(r) \/ StrictRefuses(r)
  PROVE  IInv'
<1>1. CASE SearchTimesOut(r)
  BY <1>1, SettledAsItIs DEF SearchTimesOut
<1>2. CASE TakeHits(r)
  BY <1>2, SettledAsItIs DEF TakeHits, Hits, NoHits
<1>3. CASE StrictRefuses(r)
  BY <1>3, SettledAsItIs DEF StrictRefuses, NoHits
<1> QED BY <1>1, <1>2, <1>3

LEMMA RetryStep == ASSUME IInv, NEW r \in Requests, Retry(r) PROVE IInv'
<1> DEFINE p == request[r]
           q == [p EXCEPT !.sparse = "status to send", !.attempts = @ + 1]
<1>1. /\ p \in RequestStates /\ p.pc = "search" /\ p.sparse = "answered" /\ p.attempts \in Nat
      /\ p.attempts + 1 \in 0 .. Retries /\ On(r, q)
  BY RequestFacts DEF Retry, NoHits, MayRetry
<1> HIDE DEF p
<1>2. /\ q \in RequestStates /\ q.pc = "search" /\ q.hits = p.hits /\ q.nodes = p.nodes
      /\ q.sparse = "status to send" /\ q.known = p.known /\ q.attempts = p.attempts + 1
  BY <1>1 DEF RequestStates, Announcing
<1>3. KeepsNumber(p, q) /\ KeepsKnown(p, q)
  <2> HIDE DEF q
  <2>1. p.attempts < q.attempts
    <3>1. \A a, b : a \in Nat /\ b = a + 1 => a < b
      OBVIOUS
    <3> QED BY <1>1, <1>2, <3>1
  <2>2. KeepsNumber(p, q)
    BY <1>1, <1>2, <2>1 DEF KeepsNumber
  <2>3. KeepsKnown(p, q)
    BY <1>1, <1>2 DEF KeepsKnown
  <2> QED BY <2>2, <2>3
<1> QED BY <1>1, <1>2, <1>3, SearchStep DEF p

LEMMA FallBackStep == ASSUME IInv, NEW r \in Requests, FallBack(r) PROVE IInv'
<1> DEFINE p == request[r]
           q == [p EXCEPT !.sparse = "embedding"]
<1>1. p \in RequestStates /\ p.pc = "search" /\ p.sparse = "answered" /\ On(r, q)
  BY RequestFacts DEF FallBack, NoHits
<1> HIDE DEF p
<1>2. /\ q \in RequestStates /\ q.pc = "search" /\ q.hits = p.hits /\ q.nodes = p.nodes
      /\ q.sparse = "embedding" /\ q.known = p.known
  BY <1>1 DEF RequestStates
<1>3. KeepsNumber(p, q) /\ KeepsKnown(p, q)
  <2> HIDE DEF q
  <2> QED BY <1>1, <1>2 DEF KeepsNumber, KeepsKnown, Announcing
<1> QED BY <1>1, <1>2, <1>3, SearchStep DEF p

LEMMA NearestIsList ==
  ASSUME NEW old PROVE NearestOf(old) \in Lists
<1>1. ListOf(Near)
  BY RetrievalAssumption DEF ListOf
<1> QED BY <1>1, AmongOfList, TruncateList DEF NearestOf

\* The dense search goes on or fails, and the keyword search does not notice.
LEMMA DenseStep ==
  ASSUME IInv, NEW r \in Requests, request[r].dense = "embedding",
         NEW near \in Lists, NEW how \in {"done", "error"},
         On(r, [request[r] EXCEPT !.dense = how, !.near = near])
  PROVE  IInv'
<1> DEFINE p == request[r]
           q == [p EXCEPT !.dense = how, !.near = near]
<1>1. p \in RequestStates /\ p.pc = "search" /\ p.attempts \in Nat
  BY RequestFacts
<1> HIDE DEF p
<1>2. /\ q \in RequestStates /\ q.pc = "search" /\ q.hits = p.hits /\ q.nodes = p.nodes
      /\ q.sparse = p.sparse /\ q.known = p.known /\ q.attempts = p.attempts
  BY <1>1 DEF RequestStates
<1>3. KeepsNumber(p, q) /\ KeepsKnown(p, q)
  <2> HIDE DEF q
  <2> QED BY <1>1, <1>2 DEF KeepsNumber, KeepsKnown
<1> QED BY <1>1, <1>2, <1>3, SearchStep DEF p

LEMMA DenseSearchStep ==
  ASSUME IInv, NEW r \in Requests, DenseSearch(r) \/ EmbedFails(r)
  PROVE  IInv'
<1>1. request[r] \in RequestStates
  BY RequestFacts
<1>2. CASE DenseSearch(r)
  <2>1. PICK old \in SUBSET RetractedNodes :
        \/ /\ request[r].dense = "embedding"
           /\ On(r, [request[r] EXCEPT !.dense = "done", !.near = NearestOf(old)])
        \/ /\ request[r].sparse = "embedding"
           /\ On(r, Settled([request[r] EXCEPT !.bm25 = NearestOf(old)], "done"))
    BY <1>2 DEF DenseSearch
  <2> QED BY <2>1, NearestIsList, DenseStep, SettledStep
<1>3. CASE EmbedFails(r)
  <2>1. CASE request[r].dense = "embedding" /\ On(r, [request[r] EXCEPT !.dense = "error"])
    <3>1. /\ [request[r] EXCEPT !.dense = "error"]
               = [request[r] EXCEPT !.dense = "error", !.near = request[r].near]
          /\ request[r].near \in Lists
      BY <1>1 DEF RequestStates
    <3> QED BY <2>1, <3>1, DenseStep
  <2>2. CASE request[r].sparse = "embedding" /\ On(r, Settled(request[r], "error"))
    BY <2>2, SettledAsItIs
  <2> QED BY <1>3, <2>1, <2>2 DEF EmbedFails
<1> QED BY <1>2, <1>3

\* A request that is over has nothing left in the channel that counts.
LEMMA EndStep == ASSUME IInv, NEW r \in Requests, End(r) PROVE IInv'
<1> DEFINE q == [NewRequest EXCEPT !.pc = "ended"]
<1>1. q \in RequestStates /\ Tidy(q) /\ InHitOrder(q)
  BY NewRequestFits
<1>2. q.pc = "ended" /\ q.sparse = "none" /\ q.known = {}
  BY DEF NewRequest
<1>3. To(r, q) /\ ManagerShape'
  BY DEF End, IInv, Shape, ManagerShape
<1> HIDE DEF q
<1>4. KeepsNumber(request[r], q) /\ KeepsKnown(request[r], q)
  BY <1>2 DEF KeepsNumber, KeepsKnown, Announcing
<1> QED BY <1>1, <1>3, <1>4, RequestStep

LEMMA BeginStep == ASSUME IInv, NEW r \in Requests, Begin(r) PROVE IInv'
<1> DEFINE known == asked \cap ToSet(Match)
           sparse == IF strategy = "dense" THEN "none" ELSE "status to send"
           dense == IF strategy \in {"dense", "hybrid"} THEN "embedding" ELSE "none"
           q == [NewRequest EXCEPT !.pc = "search", !.known = known, !.sparse = sparse,
                                   !.dense = dense]
<1>1. known \in SUBSET Nodes
  BY DEF IInv, AskedSound, Rows
<1>2. sparse \in {"none", "status to send"} /\ dense \in {"none", "embedding"}
  OBVIOUS
<1>3. To(r, q) /\ ManagerShape' /\ request[r].pc = "new"
  BY RetrievalAssumption DEF Begin, IInv, Shape, ManagerShape
<1>4. [NewRequest EXCEPT !.pc = "search"] \in RequestStates
      /\ InHitOrder([NewRequest EXCEPT !.pc = "search"])
  BY NewRequestFits
<1> HIDE DEF known, sparse, dense
<1>5. q = [[NewRequest EXCEPT !.pc = "search"] EXCEPT !.known = known, !.sparse = sparse,
                                                      !.dense = dense]
  BY DEF NewRequest
<1>6. /\ q \in RequestStates /\ q.pc = "search" /\ q.sparse = sparse /\ q.known = known
  BY <1>1, <1>2, <1>4, <1>5 DEF RequestStates, Announcing
<1>7. InHitOrder(q) /\ Tidy(q)
  BY <1>4, <1>6 DEF NewRequest, InHitOrder, Tidy
<1> HIDE DEF q
<1>8. KeepsNumber(request[r], q) /\ KeepsKnown(request[r], q)
  BY <1>2, <1>3, <1>6 DEF KeepsNumber, KeepsKnown, Announcing, known
<1> QED BY <1>3, <1>6, <1>7, <1>8, RequestStep

LEMMA JoinStep == ASSUME IInv, NEW r \in Requests, Join(r) PROVE IInv'
<1> DEFINE p == request[r]
           hits == CASE p.dense = "none" -> p.bm25
                     [] p.sparse = "none" -> p.near
                     [] OTHER -> Truncate(RrfFuse(p.bm25, p.near))
           q == [NewRequest EXCEPT !.pc = "fetch", !.hits = hits]
<1>1. CASE "error" \in {p.sparse, p.dense}
  BY <1>1, EndStep DEF Join
<1>2. CASE ~("error" \in {p.sparse, p.dense})
  <2>1. On(r, q)
    BY <1>2 DEF Join
  <2>2. p.bm25 \in Lists /\ p.near \in Lists
    BY RequestFacts
  <2>3. Truncate(RrfFuse(p.bm25, p.near)) \in Lists
    BY <2>2, ListsAre, FuseList, TruncateList
  <2>4. hits \in Lists
    <3> HIDE DEF p
    <3> QED BY <2>2, <2>3
  <2>5. [NewRequest EXCEPT !.pc = "fetch"] \in RequestStates
    BY NewRequestFits
  <2> HIDE DEF hits
  <2>6. q = [[NewRequest EXCEPT !.pc = "fetch"] EXCEPT !.hits = hits]
    BY DEF NewRequest
  <2>7. q \in RequestStates
    BY <2>4, <2>5, <2>6 DEF RequestStates
  <2>8. /\ q.sparse = "none" /\ q.dense = "none" /\ q.known = {} /\ q.nodes = <<>>
        /\ q.pc = "fetch"
    BY DEF NewRequest
  <2> HIDE DEF q
  <2>9. Tidy(q) /\ InHitOrder(q)
    BY <2>8 DEF Tidy, InHitOrder
  <2>10. KeepsNumber(request[r], q) /\ KeepsKnown(request[r], q)
    BY <2>8 DEF KeepsNumber, KeepsKnown, Announcing
  <2>11. To(r, q) /\ ManagerShape'
    BY <2>1 DEF On, IInv, Shape, ManagerShape
  <2> QED BY <2>7, <2>9, <2>10, <2>11, RequestStep
<1> QED BY <1>1, <1>2

LEMMA FetchNodesStep == ASSUME IInv, NEW r \in Requests, FetchNodes(r) PROVE IInv'
<1> DEFINE p == request[r]
           found == NodesOrdered(p.hits)
           nodes == [i \in DOMAIN found |-> EmbedData(graph, found[i])]
           q == [p EXCEPT !.pc = "snippets", !.nodes = nodes]
<1>1. /\ p \in RequestStates /\ p.hits \in Lists /\ p.sparse = "none" /\ p.dense = "none"
      /\ p.known = {} /\ p.pc = "fetch"
  BY RequestFacts DEF FetchNodes, IInv, Tidy, RequestStates
<1>2. On(r, q)
  BY DEF FetchNodes
<1>3. ListOf(p.hits)
  BY <1>1, ListsAre
<1> HIDE DEF p
<1>4. /\ ListOf(found)
      /\ \A k \in DOMAIN found : found[k] \in ToSet(p.hits)
      /\ \A k, l \in DOMAIN found : k < l => Place(p.hits, found[k]) < Place(p.hits, found[l])
  BY <1>3, AmongOfList DEF NodesOrdered
<1> HIDE DEF found
<1>5. Len(found) \in Nat /\ DOMAIN found = 1 .. Len(found) /\ \A k \in 1 .. Len(found) : found[k] \in Nodes
  BY <1>4, ListFacts
<1>6. \A k \in 1 .. Len(found) :
        /\ EmbedData(graph, found[k]) \in FoundNodes
        /\ FetchedSound(found[k], EmbedData(graph, found[k]))
        /\ EmbedData(graph, found[k]).node = found[k]
  <2> SUFFICES ASSUME NEW k \in 1 .. Len(found)
               PROVE  /\ EmbedData(graph, found[k]) \in FoundNodes
                      /\ FetchedSound(found[k], EmbedData(graph, found[k]))
                      /\ EmbedData(graph, found[k]).node = found[k]
    OBVIOUS
  <2>1. found[k] \in Nodes /\ GraphOK(graph)
    BY <1>5 DEF IInv, Shape, WorldShape
  <2> QED BY <2>1, EmbedDataSound DEF FoundNodes, FetchedSound
<1>7. nodes \in Seq(FoundNodes) /\ DOMAIN nodes = 1 .. Len(found)
  BY <1>5, <1>6
<1>8. \A i \in 1 .. Len(found) :
        nodes[i].node = found[i] /\ FetchedSound(nodes[i].node, nodes[i])
  BY <1>5, <1>6
<1> HIDE DEF nodes
<1>9. /\ q \in RequestStates /\ q.pc = "snippets" /\ q.hits = p.hits /\ q.nodes = nodes
      /\ q.sparse = "none" /\ q.dense = "none" /\ q.known = {}
  BY <1>1, <1>7 DEF RequestStates
<1> HIDE DEF q
<1>10. Tidy(q) /\ InHitOrder(q)
  BY <1>4, <1>5, <1>6, <1>7, <1>8, <1>9 DEF Tidy, InHitOrder
<1>11. KeepsNumber(p, q) /\ KeepsKnown(p, q)
  BY <1>9 DEF KeepsNumber, KeepsKnown, Announcing
<1>12. To(r, q) /\ ManagerShape'
  BY <1>2 DEF On, IInv, Shape, ManagerShape
<1> QED BY <1>9, <1>10, <1>11, <1>12, RequestStep DEF p

LEMMA EndingSteps ==
  ASSUME IInv, NEW r \in Requests, FetchFails(r) \/ ReadSnippets(r)
  PROVE  IInv'
  BY EndStep DEF FetchFails, ReadSnippets

\* Neither of the two sends touches anything but the request and the channel.
LEMMA SendShape ==
  ASSUME IInv, NEW r \in Requests, NEW to \in {"status", "search"},
         NEW from \in Announcing, Send(r, from, to)
  PROVE  LET c == [cmd |-> to, by |-> r, attempt |-> request[r].attempts]
             p == request[r]
             q == request'[r] IN
         /\ c \in Commands /\ Shape' /\ HasRoom /\ inbox' = Append(inbox, c) /\ InboxShape
         /\ UNCHANGED <<actor, index, asked, failed>> /\ Rows' = Rows
         /\ q = [p EXCEPT !.sparse = to] /\ q \in RequestStates /\ Tidy(q) /\ InHitOrder(q)
         /\ q.pc = "search" /\ p.pc = "search" /\ p.sparse = from /\ q.sparse = to
         /\ q.attempts = p.attempts /\ p.attempts \in Nat /\ q.known = p.known
         /\ \A s \in Requests : s # r => request'[s] = request[s]
<1> DEFINE p == request[r]
           q == request'[r]
           c == [cmd |-> to, by |-> r, attempt |-> p.attempts]
<1>1. /\ p \in RequestStates /\ p.pc = "search" /\ p.attempts \in 0 .. Retries /\ Retries \in Nat
      /\ p.sparse = from /\ InHitOrder(p)
  BY RequestFacts DEF Send, Announcing, IInv
<1>2. /\ c \in Commands /\ HasRoom /\ inbox' = Append(inbox, c) /\ InboxShape
      /\ UNCHANGED <<worldVars, manager, actorVars, historyVars>> /\ Rows' = Rows
  BY <1>1 DEF Send, Commands, IInv, Shape, worldVars, Rows
<1>3. /\ request \in [Requests -> RequestStates]
      /\ request' = [request EXCEPT ![r] = [p EXCEPT !.sparse = to]]
  BY DEF Send, IInv, Shape, RequestShape
<1>4. q = [p EXCEPT !.sparse = to] /\ \A s \in Requests : s # r => request'[s] = request[s]
  BY <1>3
<1>5. /\ [p EXCEPT !.sparse = to] \in RequestStates
      /\ [p EXCEPT !.sparse = to].pc = "search" /\ [p EXCEPT !.sparse = to].sparse = to
      /\ [p EXCEPT !.sparse = to].attempts = p.attempts
      /\ [p EXCEPT !.sparse = to].known = p.known
      /\ [p EXCEPT !.sparse = to].hits = p.hits /\ [p EXCEPT !.sparse = to].nodes = p.nodes
  <2> HIDE DEF p
  <2> QED BY <1>1 DEF RequestStates, Announcing
<1>6. RequestShape'
  BY <1>3, <1>5 DEF RequestShape
<1> HIDE DEF c, p, q
<1>7. Shape'
  BY <1>2, <1>6, Sent DEF IInv, Shape, WorldShape, ManagerShape, ActorShape, worldVars, actorVars
<1>8. Tidy(q) /\ InHitOrder(q)
  BY <1>1, <1>4, <1>5 DEF Tidy, InHitOrder
<1> QED BY <1>1, <1>2, <1>4, <1>5, <1>7, <1>8 DEF c, p, q, actorVars, historyVars

\* The requests that do not send see the channel grow, no more.
LEMMA OthersAtSend ==
  ASSUME IInv, Shape', NEW r \in Requests, NEW c \in Commands, HasRoom,
         inbox' = Append(inbox, c), UNCHANGED <<actor, index, asked, failed>>, Rows' = Rows,
         ~IsSearch(c, r), KeepsNumber(request[r], request'[r]), KeepsKnown(request[r], request'[r])
  PROVE  Numbered(r)' /\ Known(r)' /\ AskedSound'
<1>1. Carried(0) /\ Moved(r, 0)
  BY SentCarries DEF IInv, Shape
<1>2. Numbered(r)' /\ Known(r)'
  BY <1>1, NumberedKept, KnownKept DEF IInv
<1>3. AskedSound'
  BY <1>1, AskedKept DEF IInv
<1> QED BY <1>2, <1>3

LEMMA SendStatusStep == ASSUME IInv, NEW r \in Requests, SendStatus(r) PROVE IInv'
<1> DEFINE p == request[r]
           q == request'[r]
           c == [cmd |-> "status", by |-> r, attempt |-> p.attempts]
<1>1. Send(r, "status to send", "status") /\ "status to send" \in Announcing
  BY DEF SendStatus, Announcing
<1>2. /\ c \in Commands /\ Shape' /\ HasRoom /\ inbox' = Append(inbox, c)
      /\ UNCHANGED <<actor, index, asked, failed>> /\ Rows' = Rows
      /\ Tidy(q) /\ InHitOrder(q)
      /\ q.pc = "search" /\ p.pc = "search" /\ p.sparse = "status to send" /\ q.sparse = "status"
      /\ q.attempts = p.attempts /\ p.attempts \in Nat /\ q.known = p.known
      /\ \A s \in Requests : s # r => request'[s] = request[s]
  BY <1>1, SendShape
<1>3. \A s \in Requests : ~IsSearch(c, s)
  BY DEF IsSearch
<1> HIDE DEF c, p, q
<1>4. KeepsNumber(p, q)
  <2>1. p.sparse \in Announcing
    BY <1>2 DEF Announcing
  <2>2. \A a, b : a \in Nat /\ b = a => a <= b
    OBVIOUS
  <2>3. p.attempts <= q.attempts
    BY <1>2, <2>2
  <2> QED BY <1>2, <2>1, <2>3 DEF KeepsNumber
<1>5. KeepsKnown(p, q)
  BY <1>2 DEF KeepsKnown
<1>6. ASSUME NEW s \in Requests
      PROVE  Tidy(request[s])' /\ InHitOrder(request[s])' /\ Numbered(s)' /\ Known(s)' /\ AskedSound'
  <2>1. Tidy(request'[s]) /\ InHitOrder(request'[s])
    BY <1>2 DEF IInv, q
  <2>2. KeepsNumber(request[s], request'[s]) /\ KeepsKnown(request[s], request'[s])
    BY <1>2, <1>4, <1>5, SelfKept DEF IInv, p, q
  <2> QED BY <1>2, <1>3, <2>1, <2>2, OthersAtSend
<1> QED BY <1>2, <1>6 DEF IInv

\* The search that is sent is the only one of its attempt, and behind whatever was promised.
LEMMA SendSearchStep == ASSUME IInv, NEW r \in Requests, SendSearch(r) PROVE IInv'
<1> DEFINE p == request[r]
           q == request'[r]
           c == [cmd |-> "search", by |-> r, attempt |-> p.attempts]
           L == Len(inbox)
<1>1. Send(r, "search to send", "search") /\ "search to send" \in Announcing
  BY DEF SendSearch, Announcing
<1>2. /\ c \in Commands /\ Shape' /\ HasRoom /\ inbox' = Append(inbox, c) /\ InboxShape
      /\ UNCHANGED <<actor, index, asked, failed>> /\ Rows' = Rows
      /\ Tidy(q) /\ InHitOrder(q)
      /\ q.pc = "search" /\ p.pc = "search" /\ p.sparse = "search to send" /\ q.sparse = "search"
      /\ q.attempts = p.attempts /\ p.attempts \in Nat /\ q.known = p.known
      /\ \A s \in Requests : s # r => request'[s] = request[s]
  BY <1>1, SendShape
<1>3. (\A s \in Requests : s # r => ~IsSearch(c, s)) /\ c.attempt = p.attempts
  BY DEF IsSearch
<1>4. /\ L \in Nat /\ DOMAIN inbox' = 1 .. L + 1 /\ DOMAIN inbox = 1 .. L
      /\ \A i \in 1 .. L : inbox'[i] = inbox[i]
      /\ inbox'[L + 1] = c
  BY <1>2, Sent
<1>5. ASSUME NEW i \in 1 .. L, IsSearch(inbox[i], r)
      PROVE  inbox[i].attempt < p.attempts /\ inbox[i].attempt \in Nat
  <2>1. inbox[i] \in Commands
    BY <1>2, <1>4, ElementOfSeq DEF InboxShape
  <2>2. inbox[i].attempt \in Nat
    BY <1>5, <2>1, RetrievalAssumption DEF Commands, IsSearch
  <2>3. p.sparse \in Announcing
    BY <1>1, <1>2
  <2> QED BY <1>4, <1>5, <2>2, <2>3 DEF IInv, Numbered
<1>6. Carried(0)
  BY <1>2, SentCarries DEF IInv, Shape
<1>7. AskedSound'
  <2>1. asked' = asked
    BY <1>2
  <2> QED BY <1>6, <2>1, AskedKept DEF IInv
<1> DEFINE AtMost(a, b) == a <= b
<1>11. \A a, b : a \in Nat /\ b \in Nat /\ (a < b \/ a = b) => AtMost(a, b)
  OBVIOUS
<1>12. \A a, b : a \in Nat /\ b \in Nat /\ a < b => a # b
  OBVIOUS
<1>8. Numbered(r)'
  <2> SUFFICES ASSUME NEW i \in 1 .. L + 1, IsSearch(inbox'[i], r)
               PROVE  inbox'[i].attempt <= q.attempts
    <3>1. q.sparse \notin Announcing /\ q.pc # "new"
      BY <1>2 DEF Announcing
    <3> HIDE DEF q, L
    <3> QED BY <1>4, <3>1 DEF Numbered, q
  <2> HIDE DEF c, p, q, L
  <2>1. CASE i = L + 1
    <3>1. inbox'[i].attempt = p.attempts
      BY <1>3, <1>4, <2>1
    <3> QED BY <1>2, <1>11, <3>1
  <2>2. CASE i # L + 1
    <3>1. i \in 1 .. L
      BY <1>4, <2>2
    <3>2. inbox'[i] = inbox[i] /\ inbox[i].attempt < p.attempts /\ inbox[i].attempt \in Nat
      BY <1>4, <1>5, <3>1
    <3> QED BY <1>2, <1>11, <3>2
  <2> QED BY <2>1, <2>2
<1>9. Known(r)'
  <2> HIDE DEF c, L
  <2>1. p.known \subseteq Rows \cap ToSet(Match)
    BY DEF IInv, Known
  <2>2. ASSUME ~failed, NEW i \in 1 .. L + 1, IsSearch(inbox'[i], r),
               inbox'[i].attempt = q.attempts
        PROVE  Promised(q.known, i - 1, inbox', actor', index')
    <3>1. i = L + 1
      <4> SUFFICES ASSUME i # L + 1 PROVE FALSE
        OBVIOUS
      <4>1. i \in 1 .. L
        BY <1>4
      <4>2. inbox'[i] = inbox[i] /\ inbox[i].attempt < p.attempts /\ inbox[i].attempt \in Nat
        BY <1>4, <1>5, <2>2, <4>1
      <4> HIDE DEF p, q
      <4> QED BY <1>2, <1>12, <2>2, <4>2
    <3>2. i - 1 = L
      BY <1>4, <3>1
    <3>3. Promised(p.known, Len(inbox), inbox, actor, index)
      BY <1>2, <2>2 DEF IInv, Known
    <3>4. Promised(p.known, L, inbox', actor', index')
      BY <1>2, <1>4, <3>3 DEF Promised, L
    <3> QED BY <1>2, <3>2, <3>4
  <2>3. q.known \subseteq Rows' \cap ToSet(Match)
    BY <1>2, <2>1
  <2> HIDE DEF p
  <2> QED BY <1>2, <1>4, <2>2, <2>3 DEF Known
<1>10. ASSUME NEW s \in Requests
       PROVE  Tidy(request[s])' /\ InHitOrder(request[s])' /\ Numbered(s)' /\ Known(s)'
  <2>1. CASE s = r
    BY <1>2, <1>8, <1>9, <2>1
  <2>2. CASE s # r
    <3>1. request'[s] = request[s] /\ Tidy(request'[s]) /\ InHitOrder(request'[s])
      BY <1>2, <2>2 DEF IInv
    <3>2. KeepsNumber(request[s], request'[s]) /\ KeepsKnown(request[s], request'[s])
      BY <3>1, SelfKept DEF IInv
    <3>3. ~IsSearch(c, s)
      BY <1>3, <2>2
    <3> HIDE DEF c
    <3> QED BY <1>2, <3>1, <3>2, <3>3, OthersAtSend
  <2> QED BY <2>1, <2>2
<1> QED BY <1>2, <1>7, <1>10 DEF IInv

(***************************************************************************)
(* The invariant.                                                          *)
(***************************************************************************)

LEMMA Starts == Init => IInv
<1> SUFFICES ASSUME Init PROVE IInv
  OBVIOUS
<1>1. disk \in [Files -> 1 .. Versions] /\ 1 \in VersionsOrNone
  BY NodePlaces, GraphAssumption DEF Init, VersionsOrNone
<1>2. GraphOK(graph)
  <2> DEFINE parsed == Transform(EmptyGraph, Files, disk)
             texts == [n \in FirstLive |-> HashOf[1]]
  <2>1. GraphOK(parsed)
    BY <1>1, EmptyGraphOK, TransformOK
  <2>2. \A n \in DOMAIN texts : texts[n] \in VersionsOrNone
    BY <1>1, HashFacts
  <2>3. graph = PutVectors(parsed, Set, texts, Set)
    BY DEF Init
  <2> HIDE DEF parsed, texts
  <2> QED BY <2>1, <2>2, <2>3, SetIsModel, PutVectorsOK
<1>3. inbox \in Seq(Commands) /\ Len(inbox) = 0 /\ DOMAIN inbox = {}
  BY EmptySeq DEF Init
<1>4. /\ NewRequest \in RequestStates /\ Tidy(NewRequest) /\ InHitOrder(NewRequest)
      /\ NewRequest.known = {} /\ NewRequest.sparse = "none"
  <2>1. NewRequest = [NewRequest EXCEPT !.pc = "new"]
    BY DEF NewRequest
  <2>2. NewRequest.known = {} /\ NewRequest.sparse = "none"
    BY DEF NewRequest
  <2> QED BY <2>1, <2>2, NewRequestFits
<1>5. request = [r \in Requests |-> NewRequest] /\ asked = {}
  BY DEF Init
<1>6. Shape
  <2>1. InboxShape
    BY <1>3, RetrievalAssumption DEF InboxShape
  <2>2. RequestShape
    BY <1>4, <1>5 DEF RequestShape
  <2>3. ManagerShape /\ ActorShape
    BY DEF Init, ManagerShape, ActorShape, Statuses
  <2> QED BY <1>1, <1>2, <2>1, <2>2, <2>3 DEF Shape, WorldShape
<1>7. AskedSound
  BY <1>5, NothingPromised DEF AskedSound
<1>8. ASSUME NEW r \in Requests
      PROVE  Tidy(request[r]) /\ InHitOrder(request[r]) /\ Numbered(r) /\ Known(r)
  <2>1. request[r] = NewRequest
    BY <1>5
  <2>2. Numbered(r)
    BY <1>3 DEF Numbered
  <2>3. Known(r)
    BY <1>4, <2>1, NothingPromised DEF Known
  <2> QED BY <1>4, <2>1, <2>2, <2>3
<1> QED BY <1>6, <1>7, <1>8 DEF IInv

LEMMA Steps == IInv /\ [Next]_vars => IInv'
<1>1. ASSUME IInv, UNCHANGED vars PROVE IInv'
  <2>1. WorldShape' /\ ManagerShape' /\ Rows \subseteq Rows'
    BY <1>1 DEF IInv, Shape, WorldShape, ManagerShape, vars, worldVars, Rows
  <2> QED BY <1>1, <2>1, WorldStep DEF vars, historyVars
<1>2. ASSUME IInv, Next PROVE IInv'
  <2>1. CASE (\E f \in Files : Edit(f)) \/ IndexNodes \/ ScanParse \/ ScanRetract \/ AskRebuild
    BY <1>2, <2>1, EditStep, IndexStep, ScanParseStep, ScanRetractStep, AskRebuildStep
  <2>2. CASE SendRebuild \/ Serve \/ BeginRebuild \/ RebuildKind \/ RebuildFails \/ EndRebuild
    BY <1>2, <2>2, SendRebuildStep, ServeStep, BeginRebuildStep, RebuildKindStep,
       RebuildFailsStep, EndRebuildStep
  <2>3. ASSUME NEW r \in Requests,
               Begin(r) \/ SendStatus(r) \/ SendSearch(r) \/ StatusTimesOut(r) \/ SearchTimesOut(r)
        PROVE  IInv'
    BY <1>2, <2>3, BeginStep, SendStatusStep, SendSearchStep, StatusStep, SettlingSteps
  <2>4. ASSUME NEW r \in Requests,
               TakeHits(r) \/ StrictRefuses(r) \/ Retry(r) \/ FallBack(r)
        PROVE  IInv'
    BY <1>2, <2>4, SettlingSteps, RetryStep, FallBackStep
  <2>5. ASSUME NEW r \in Requests,
               DenseSearch(r) \/ EmbedFails(r) \/ Join(r) \/ FetchNodes(r) \/ FetchFails(r)
                 \/ ReadSnippets(r)
        PROVE  IInv'
    BY <1>2, <2>5, DenseSearchStep, JoinStep, FetchNodesStep, EndingSteps
  <2> QED BY <1>2, <2>1, <2>2, <2>3, <2>4, <2>5 DEF Next
<1> QED BY <1>1, <1>2

LEMMA IInvAlways == Spec => []IInv
  BY Starts, Steps, PTL DEF Spec

(***************************************************************************)
(* What was fetched, place by place.                                       *)
(***************************************************************************)

\* Distinct hits in their order: the i-th of them is no better than the i-th hit, and it
\* is that hit if none is missing.
LEMMA PlacesAre ==
  ASSUME NEW q \in RequestStates, InHitOrder(q)
  PROVE  LET N == Len(q.nodes)
             M == Len(q.hits)
             At(i) == Place(q.hits, q.nodes[i].node) IN
         /\ N \in Nat /\ M \in Nat /\ N <= M /\ DOMAIN q.nodes = 1 .. N
         /\ \A i \in 1 .. N :
              /\ i \in 1 .. M /\ At(i) \in Nat /\ i <= At(i) /\ Place(q.hits, q.hits[i]) = i
              /\ q.nodes[i] \in FoundNodes
              /\ q.hits[At(i)] = q.nodes[i].node
              /\ N = M => At(i) = i
<1> DEFINE N == Len(q.nodes)
           M == Len(q.hits)
           At(i) == Place(q.hits, q.nodes[i].node)
<1>1. q.nodes \in Seq(FoundNodes) /\ ListOf(q.hits)
  BY ListsAre DEF RequestStates
<1>2. /\ N \in Nat /\ DOMAIN q.nodes = 1 .. N /\ \A i \in 1 .. N : q.nodes[i] \in FoundNodes
      /\ M \in Nat /\ DOMAIN q.hits = 1 .. M
      /\ \A i \in 1 .. M : Place(q.hits, q.hits[i]) = i
  BY <1>1, ListFacts, LenProperties, ElementOfSeq
<1>3. ASSUME NEW i \in 1 .. N PROVE At(i) \in 1 .. M /\ q.hits[At(i)] = q.nodes[i].node
  <2>1. PICK j \in 1 .. M : q.hits[j] = q.nodes[i].node
    BY <1>2 DEF InHitOrder, ToSet
  <2>2. At(i) = j
    BY <1>2, <2>1
  <2> QED BY <2>1, <2>2
<1>4. \A i, j \in 1 .. N : i < j => At(i) < At(j)
  BY <1>2 DEF InHitOrder
<1> HIDE DEF N, M, At
<1>5. \A i \in 1 .. N : i <= At(i)
  <2> DEFINE T == { k \in 0 .. N : k = 0 \/ k <= At(k) }
  <2>1. 0 \in T
    BY <1>2
  <2>2. ASSUME NEW k \in 0 .. N, k < N, k \in T PROVE k + 1 \in T
    <3>1. k + 1 \in 1 .. N
      BY <1>2, <2>2
    <3>2. At(k + 1) \in 1 .. M
      BY <1>3, <3>1
    <3>3. CASE k = 0
      BY <1>2, <3>1, <3>2, <3>3
    <3>4. CASE k # 0
      <4>1. k \in 1 .. N /\ k < k + 1 /\ k <= At(k)
        BY <1>2, <2>2, <3>4
      <4>2. At(k) < At(k + 1) /\ At(k) \in 1 .. M
        BY <1>3, <1>4, <3>1, <4>1
      <4> QED BY <1>2, <3>1, <3>2, <4>1, <4>2
    <3> QED BY <3>3, <3>4
  <2>3. \A k \in 0 .. N : k \in T
    <3> HIDE DEF T
    <3> QED BY <1>2, <2>1, <2>2, UpTo
  <2>4. ASSUME NEW i \in 1 .. N PROVE i <= At(i)
    <3>1. i \in 0 .. N /\ i # 0
      BY <1>2
    <3> QED BY <2>3, <3>1
  <2> QED BY <2>4
<1>6. N <= M
  <2>1. CASE N = 0
    BY <1>2, <2>1
  <2>2. CASE N # 0
    <3>1. N \in 1 .. N
      BY <1>2, <2>2
    <3>2. N <= At(N) /\ At(N) \in 1 .. M
      BY <1>3, <1>5, <3>1
    <3> QED BY <1>2, <3>2
  <2> QED BY <2>1, <2>2
<1>7. ASSUME N = M PROVE \A i \in 1 .. N : At(i) = i
  <2> DEFINE T == { k \in 0 .. N : k = N \/ At(N - k) <= N - k }
  <2>1. 0 \in T
    <3>1. CASE N = 0
      BY <1>2, <3>1
    <3>2. CASE N # 0
      <4>1. N - 0 = N /\ N \in 1 .. N
        BY <1>2, <3>2
      <4>2. At(N) \in 1 .. M
        BY <1>3, <4>1
      <4>3. At(N) <= N
        BY <1>2, <1>7, <4>2
      <4>4. At(N - 0) <= N - 0
        BY <4>1, <4>3
      <4> QED BY <1>2, <4>4
    <3> QED BY <3>1, <3>2
  <2>2. ASSUME NEW k \in 0 .. N, k < N, k \in T PROVE k + 1 \in T
    <3>1. k + 1 \in 0 .. N /\ k \in Nat
      BY <1>2, <2>2
    <3>2. CASE k + 1 = N
      BY <3>1, <3>2
    <3>3. CASE k + 1 # N
      <4>1. N - k \in 1 .. N /\ N - (k + 1) \in 1 .. N /\ N - (k + 1) < N - k /\ k # N
        BY <1>2, <2>2, <3>1, <3>3
      <4>2. At(N - k) <= N - k
        BY <2>2, <4>1
      <4>3. At(N - (k + 1)) < At(N - k) /\ At(N - k) \in 1 .. M /\ At(N - (k + 1)) \in 1 .. M
        BY <1>3, <1>4, <4>1
      <4> DEFINE a == At(N - (k + 1))
                 b == At(N - k)
      <4>4. a < b /\ b <= N - k /\ a \in Nat /\ b \in Nat
        BY <1>2, <4>2, <4>3
      <4> HIDE DEF a, b
      <4>5. a <= N - (k + 1)
        BY <1>2, <3>1, <4>4
      <4> QED BY <3>1, <4>5 DEF a
    <3> QED BY <3>2, <3>3
  <2>3. \A k \in 0 .. N : k \in T
    <3> HIDE DEF T
    <3> QED BY <1>2, <2>1, <2>2, UpTo
  <2>4. ASSUME NEW i \in 1 .. N PROVE At(i) = i
    <3>1. N - i \in 0 .. N /\ N - i # N /\ N - (N - i) = i
      BY <1>2
    <3>2. At(N - (N - i)) <= N - (N - i)
      BY <2>3, <3>1
    <3>3. At(i) <= i
      BY <3>1, <3>2
    <3>4. i <= At(i) /\ At(i) \in 1 .. M
      BY <1>3, <1>5
    <3> QED BY <1>2, <3>3, <3>4
  <2> QED BY <2>4
<1>8. ASSUME NEW i \in 1 .. N PROVE i \in 1 .. M /\ At(i) \in Nat
  BY <1>2, <1>3, <1>6
<1> QED BY <1>2, <1>3, <1>5, <1>6, <1>7, <1>8 DEF N, M, At

\* The parts are of the nodes whose files could be read, in their order.
LEMMA PartsAre ==
  ASSUME NEW q \in RequestStates, NEW read
  PROVE  LET parts == Parts(q, read)
             N == Len(q.nodes) IN
         \E at \in [DOMAIN parts -> 1 .. N] :
           /\ DOMAIN parts \subseteq Nat
           /\ \A k \in DOMAIN parts :
                /\ read[at[k]].ok
                /\ parts[k] = [id |-> q.hits[at[k]], node |-> q.nodes[at[k]].node,
                               text |-> read[at[k]].text]
           /\ \A k, l \in DOMAIN parts : k < l => at[k] < at[l]
<1> DEFINE N == Len(q.nodes)
           places == [i \in DOMAIN q.nodes |-> i]
           S == {i \in DOMAIN q.nodes : read[i].ok}
           found == Among(places, S)
           parts == Parts(q, read)
<1>1. q.nodes \in Seq(FoundNodes) /\ N \in Nat /\ DOMAIN q.nodes = 1 .. N
  BY LenProperties DEF RequestStates
<1>2. places \in Seq(Nat) /\ Len(places) = N /\ \A i \in 1 .. N : places[i] = i
  BY <1>1
<1>3. /\ DOMAIN parts = DOMAIN found
      /\ \A k \in DOMAIN found :
           parts[k] = [id |-> q.hits[found[k]], node |-> q.nodes[found[k]].node,
                       text |-> read[found[k]].text]
  BY DEF Parts
<1> HIDE DEF places, parts
<1>4. Picked(places, S, found, N)
  BY <1>2, AmongPicks
<1> HIDE DEF N, found
<1>5. found \in Seq(S) /\ Len(found) \in Nat /\ DOMAIN found = 1 .. Len(found)
  BY <1>4, LenProperties DEF Picked
<1>6. PICK f \in [1 .. Len(found) -> 1 .. N] :
        /\ \A k \in 1 .. Len(found) : found[k] = places[f[k]]
        /\ \A k, l \in 1 .. Len(found) : k < l => f[k] < f[l]
  BY <1>4 DEF Picked
<1>7. \A k \in 1 .. Len(found) : found[k] = f[k] /\ found[k] \in S
  BY <1>2, <1>5, <1>6, ElementOfSeq
<1>8. f \in [DOMAIN parts -> 1 .. N] /\ DOMAIN parts \subseteq Nat
  BY <1>3, <1>5, <1>6
<1>9. ASSUME NEW k \in DOMAIN parts
      PROVE  /\ read[f[k]].ok
             /\ parts[k] = [id |-> q.hits[f[k]], node |-> q.nodes[f[k]].node,
                            text |-> read[f[k]].text]
  BY <1>3, <1>5, <1>7
<1> QED BY <1>3, <1>5, <1>6, <1>8, <1>9 DEF parts, N

\* Only the actor answers a search.
LEMMA OnlyServed ==
  ASSUME IInv, [Next]_vars, NEW r \in Requests,
         request[r].sparse = "search", request'[r].sparse = "answered"
  PROVE  Serve
<1>1. request \in [Requests -> RequestStates]
  BY DEF IInv, Shape, RequestShape
<1>2. ASSUME NEW s \in Requests, NEW q, To(s, q), q.sparse # "answered" \/ request[s].sparse # "search"
      PROVE  FALSE
  BY <1>1, <1>2 DEF To
<1>3. ASSUME NEW s \in Requests, NEW how \in {"done", "error"}, NEW bm25,
             On(s, Settled([request[s] EXCEPT !.bm25 = bm25], how)) \/ On(s, Settled(request[s], how))
      PROVE  FALSE
  <2>1. /\ Settled([request[s] EXCEPT !.bm25 = bm25], how).sparse = how
        /\ Settled(request[s], how).sparse = how
    BY <1>1 DEF Settled, RequestStates
  <2> QED BY <1>2, <1>3, <2>1 DEF On
<1>4. CASE UNCHANGED request
  BY <1>4
<1>5. ASSUME NEW s \in Requests, End(s) PROVE FALSE
  <2>1. [NewRequest EXCEPT !.pc = "ended"].sparse # "answered"
    BY DEF NewRequest
  <2> QED BY <1>2, <1>5, <2>1 DEF End
<1>6. ASSUME NEW s \in Requests, Begin(s) PROVE FALSE
  <2>1. request[s].pc = "new"
    BY <1>6 DEF Begin
  <2>2. request[s].sparse # "search"
    BY <2>1 DEF IInv, Tidy
  <2> QED BY <1>2, <1>6, <2>2 DEF Begin
<1>7. ASSUME NEW s \in Requests, SendStatus(s) \/ SendSearch(s) PROVE FALSE
  BY <1>1, <1>7 DEF SendStatus, SendSearch, Send, RequestStates
<1>8. ASSUME NEW s \in Requests, StatusTimesOut(s) \/ SearchTimesOut(s) PROVE FALSE
  <2>1. request[s] \in RequestStates
    BY <1>1
  <2>2. [request[s] EXCEPT !.heard = "unknown", !.sparse = "search to send"].sparse # "answered"
    BY <2>1 DEF RequestStates
  <2> QED BY <1>2, <1>3, <1>8, <2>2 DEF StatusTimesOut, SearchTimesOut, On
<1>9. ASSUME NEW s \in Requests,
             TakeHits(s) \/ StrictRefuses(s) \/ Retry(s) \/ FallBack(s)
      PROVE  FALSE
  <2>1. request[s].sparse = "answered"
    BY <1>9 DEF TakeHits, StrictRefuses, Retry, FallBack, Hits, NoHits
  <2> QED BY <1>2, <1>3, <1>9, <2>1 DEF TakeHits, StrictRefuses, Retry, FallBack, On
<1>10. ASSUME NEW s \in Requests, DenseSearch(s) \/ EmbedFails(s) PROVE FALSE
  <2>1. request[s] \in RequestStates
    BY <1>1
  <2>2. ASSUME NEW near, NEW how, On(s, [request[s] EXCEPT !.dense = how, !.near = near])
                                   \/ On(s, [request[s] EXCEPT !.dense = how])
        PROVE  FALSE
    <3>1. /\ [request[s] EXCEPT !.dense = how, !.near = near].sparse = request[s].sparse
          /\ [request[s] EXCEPT !.dense = how].sparse = request[s].sparse
      BY <2>1 DEF RequestStates
    <3> QED BY <1>2, <2>2, <3>1 DEF On
  <2>3. CASE DenseSearch(s)
    BY <1>3, <2>2, <2>3 DEF DenseSearch
  <2>4. CASE EmbedFails(s)
    BY <1>3, <2>2, <2>4 DEF EmbedFails
  <2> QED BY <1>10, <2>3, <2>4
<1>11. ASSUME NEW s \in Requests, Join(s) \/ FetchNodes(s) \/ FetchFails(s) \/ ReadSnippets(s)
       PROVE  FALSE
  <2>1. request[s].sparse # "search"
    BY <1>11 DEF Join, FetchNodes, FetchFails, ReadSnippets, IInv, Tidy
  <2>2. PICK q : To(s, q)
    BY <1>11 DEF Join, FetchNodes, FetchFails, ReadSnippets, End, On
  <2> QED BY <1>2, <2>1, <2>2
<1> QED BY <1>4, <1>5, <1>6, <1>7, <1>8, <1>9, <1>10, <1>11
     DEF Next, Edit, IndexNodes, ScanParse, ScanRetract, AskRebuild, SendRebuild,
         BeginRebuild, RebuildKind, RebuildFails, EndRebuild, vars

(***************************************************************************)
(* The theorems.                                                           *)
(***************************************************************************)

\* Every part of the state keeps its shape: no list of a request is longer than TopK or
\* names a node twice, no more nodes are fetched than were found, the channel holds what it
\* can, and a ready index is not empty.
THEOREM TypeCorrect == Spec => []TypeOK
<1>1. ASSUME IInv PROVE TypeOK
  <2>1. disk \in [Files -> 1 .. Versions] /\ graph.parsed \in [Files -> 0 .. Versions]
        /\ graph.row \in [Nodes -> 0 .. Versions]
    BY <1>1 DEF IInv, Shape, WorldShape, GraphOK, GraphShape, VersionsOrNone
  <2>2. manager.step \in {"idle", "retract", "rebuild", "question"}
    BY <1>1 DEF IInv, Shape, ManagerShape, Idle
  <2>3. Len(inbox) <= ChannelCap /\ index \subseteq Nodes /\ (status = "Ready" => index # {})
    BY <1>1 DEF IInv, Shape, InboxShape, ActorShape
  <2>4. ASSUME NEW r \in Requests
        PROVE  /\ request[r].bm25 \in Lists /\ request[r].near \in Lists
               /\ request[r].hits \in Lists /\ Len(request[r].nodes) <= Len(request[r].hits)
               /\ request[r].attempts <= Retries
    <3>1. request[r] \in RequestStates /\ InHitOrder(request[r])
      BY <1>1 DEF IInv, Shape, RequestShape
    <3> QED BY <3>1, PlacesAre, RetrievalAssumption DEF RequestStates
  <2> QED BY <2>1, <2>2, <2>3, <2>4 DEF TypeOK
<1> QED BY <1>1, IInvAlways, PTL

\* Whatever was in the channel before it, and whoever gave up waiting, a request that
\* begins after a rebuild was asked for is answered from an index with all that the rebuild
\* was to find, if none failed.
THEOREM RebuildsAreHeard == Spec => RebuildHeard
<1> DEFINE Heard == \A r \in Requests :
             LET found == request'[r].bm25
             IN request[r].sparse = "search" /\ request'[r].sparse = "answered" /\ ~failed =>
                  request[r].known \subseteq ToSet(found) \/ Len(found) = TopK
<1>1. ASSUME IInv, [Next]_vars PROVE Heard
  <2> SUFFICES ASSUME NEW r \in Requests, request[r].sparse = "search",
                      request'[r].sparse = "answered", ~failed
               PROVE  LET found == request'[r].bm25
                      IN request[r].known \subseteq ToSet(found) \/ Len(found) = TopK
    BY Zenon
  <2> DEFINE p == request[r]
             all == Among(Match, index)
  <2>1. Serve
    BY <1>1, OnlyServed
  <2>2. /\ IsSearch(Head(inbox), r) /\ Head(inbox).attempt = p.attempts
        /\ request'[r] = [p EXCEPT !.sparse = "answered", !.bm25 = Search, !.known = {}]
    <3>1. p \in RequestStates
      BY <1>1, RequestFacts
    <3>2. request'[r] # p
      BY <2>1
    <3>3. p.sparse # "status"
      OBVIOUS
    <3> HIDE DEF p
    <3> QED BY <1>1, <2>1, <3>2, <3>3, ServeAnswers DEF IInv, p
  <2>3. request'[r].bm25 = Search
    <3>1. p \in RequestStates
      BY <1>1, RequestFacts
    <3> HIDE DEF p
    <3> QED BY <2>2, <3>1 DEF RequestStates
  <2>4. Head(inbox) = inbox[1] /\ 1 \in DOMAIN inbox
    BY <1>1, <2>1, Received DEF IInv, Shape, Serve
  <2>5. p.known \subseteq ToSet(Match) /\ Promised(p.known, 1 - 1, inbox, actor, index)
    BY <1>1, <2>2, <2>4 DEF IInv, Known
  <2>6. p.known \subseteq index
    <3>1. actor = Idle
      BY <2>1 DEF Serve
    <3>2. Covered(p.known, actor, index)
      BY <2>5 DEF Promised
    <3> QED BY <3>1, <3>2 DEF Covered
  <2>7. ListOf(Match)
    BY RetrievalAssumption DEF ListOf
  <2>8. ListOf(all) /\ \A n \in ToSet(Match) : n \in index => n \in ToSet(all)
    BY <2>7, AmongOfList
  <2> HIDE DEF all
  <2>9. (Len(all) <= TopK => Truncate(all) = all) /\ (~(Len(all) <= TopK) => Len(Truncate(all)) = TopK)
    BY <2>8, TruncateList
  <2>10. Search = Truncate(all)
    BY DEF Search, all
  <2> QED BY <2>3, <2>5, <2>6, <2>8, <2>9, <2>10
<1> QED BY <1>1, IInvAlways, PTL DEF RebuildHeard, Spec

\* Whatever was edited, scanned and indexed while the request was under way, a part of a
\* context is what the file has there when it is read, up to comments and white space, if it
\* has the item at all and is not a version that differs from the one the item's place is of
\* in comments and white space alone.
THEOREM PartsShowTheFile == Spec => PartsOfTheFile
<1> DEFINE AsTheFile(p, q) ==
             LET version == disk[FileOf[p.node]]
             IN \/ p.text = HashOf[version]
                \/ version \notin PresentIn[p.node]
                \/ \E k \in DOMAIN q.nodes :
                     q.nodes[k].node = p.node /\ CosmeticChange(q.nodes[k].span, version)
           Shown == \A r \in Requests : \A parts \in Returned(r) : \A i \in DOMAIN parts :
             LET p == parts[i]
                 version == disk[FileOf[p.node]]
             IN \/ p.text = HashOf[version]
                \/ version \notin PresentIn[p.node]
                \/ \E k \in DOMAIN request[r].nodes :
                     /\ request[r].nodes[k].node = p.node
                     /\ CosmeticChange(request[r].nodes[k].span, version)
<1>1. ASSUME IInv PROVE Shown
  <2> SUFFICES ASSUME NEW r \in Requests, NEW parts \in Returned(r), NEW i \in DOMAIN parts
               PROVE  AsTheFile(parts[i], request[r])
    OBVIOUS
  <2> DEFINE q == request[r]
             p == parts[i]
  <2>1. q \in RequestStates /\ InHitOrder(q)
    BY <1>1 DEF IInv, Shape, RequestShape
  <2>2. PICK read \in Readings(q.nodes, disk) : parts = Parts(q, read)
    BY DEF Returned
  <2>3. PICK k \in 1 .. Len(q.nodes) :
          /\ read[k].ok /\ p.node = q.nodes[k].node /\ p.text = read[k].text
    BY <2>1, <2>2, PartsAre
  <2> DEFINE n == q.nodes[k].node
             version == disk[FileOf[n]]
             span == q.nodes[k].span
             hash == q.nodes[k].hash
  <2>4. k \in DOMAIN q.nodes /\ n \in Nodes /\ span \in VersionsOrNone /\ hash \in VersionsOrNone
    BY <2>1, PlacesAre, ElementOfSeq DEF RequestStates, FoundNodes
  <2>5. read[k] \in Snippets(q.nodes[k], disk) /\ FetchedSound(n, q.nodes[k])
    BY <2>1, <2>2, <2>4 DEF Readings, InHitOrder
  <2>6. version \in 1 .. Versions /\ version \in VersionsOrNone
    BY <1>1, <2>4, NodePlaces DEF IInv, Shape, WorldShape, VersionsOrNone
  <2>7. HashOf[version] = hash /\ (p.text = hash \/ version # span)
    BY <2>3, <2>4, <2>5, <2>6, SnippetsSound
  <2>8. version \in PresentIn[n] => hash = HashOf[span]
    BY <2>5, <2>7 DEF FetchedSound, HasItem
  <2>9. \/ p.text = HashOf[version] \/ version \notin PresentIn[n]
        \/ CosmeticChange(span, version)
    <3> HIDE DEF q, p, n, version, span, hash
    <3> QED BY <2>7, <2>8 DEF CosmeticChange
  <2>10. /\ disk[FileOf[p.node]] = version /\ n = p.node
         /\ k \in DOMAIN q.nodes /\ q.nodes[k].node = p.node /\ q.nodes[k].span = span
    BY <2>3, <2>4
  <2>11. AsTheFile(p, q)
    <3> HIDE DEF q, p, n, version, span, hash
    <3> QED BY <2>9, <2>10
  <2> QED BY <2>11
<1> QED BY <1>1, IInvAlways, PTL DEF PartsOfTheFile

\* Whatever became of the hits since they were found, the parts keep the order of the hits,
\* and the label of each is of a hit as good or better; if none was lost, each is labelled
\* as what it is.
THEOREM LabelsAreTrue == Spec => LabelsTrue
<1> DEFINE Labelled == \A r \in Requests : \A parts \in Returned(r) :
       LET q == request[r]
           At(n) == Place(q.hits, n)
       IN /\ \A i, j \in DOMAIN parts : i < j => At(parts[i].node) < At(parts[j].node)
          /\ \A i \in DOMAIN parts : At(parts[i].id) <= At(parts[i].node)
          /\ Len(q.nodes) = Len(q.hits) => \A i \in DOMAIN parts : parts[i].id = parts[i].node
<1>1. ASSUME IInv PROVE Labelled
  <2> SUFFICES ASSUME NEW r \in Requests, NEW parts \in Returned(r)
      PROVE LET q == request[r]
                At(n) == Place(q.hits, n)
            IN /\ \A i, j \in DOMAIN parts : i < j => At(parts[i].node) < At(parts[j].node)
               /\ \A i \in DOMAIN parts : At(parts[i].id) <= At(parts[i].node)
               /\ Len(q.nodes) = Len(q.hits) => \A i \in DOMAIN parts : parts[i].id = parts[i].node
    BY Zenon
  <2> DEFINE q == request[r]
             N == Len(q.nodes)
             At(n) == Place(q.hits, n)
  <2>1. q \in RequestStates /\ InHitOrder(q)
    BY <1>1 DEF IInv, Shape, RequestShape
  <2>2. PICK read \in [DOMAIN parts -> 1 .. N] :
          /\ \A k \in DOMAIN parts :
               parts[k].id = q.hits[read[k]] /\ parts[k].node = q.nodes[read[k]].node
          /\ \A k, l \in DOMAIN parts : k < l => read[k] < read[l]
    <3>1. PICK what : parts = Parts(q, what)
      BY DEF Returned
    <3>2. PICK read \in [DOMAIN parts -> 1 .. N] :
          /\ \A k \in DOMAIN parts :
                parts[k] = [id |-> q.hits[read[k]], node |-> q.nodes[read[k]].node,
                            text |-> what[read[k]].text]
          /\ \A k, l \in DOMAIN parts : k < l => read[k] < read[l]
      <4> HIDE DEF q
      <4> QED BY <2>1, <3>1, PartsAre
    <3> HIDE DEF q
    <3> QED BY <3>2
  <2> HIDE DEF q
  <2>3. /\ DOMAIN q.nodes = 1 .. N
        /\ \A i \in 1 .. N :
             /\ At(q.hits[i]) = i /\ i <= At(q.nodes[i].node)
             /\ q.hits[At(q.nodes[i].node)] = q.nodes[i].node
             /\ N = Len(q.hits) => At(q.nodes[i].node) = i
    BY <2>1, PlacesAre
  <2>4. \A i, j \in 1 .. N : i < j => At(q.nodes[i].node) < At(q.nodes[j].node)
    BY <2>1, <2>3 DEF InHitOrder
  <2> HIDE DEF N, At
  <2>5. \A i, j \in DOMAIN parts : i < j => At(parts[i].node) < At(parts[j].node)
    BY <2>2, <2>4
  <2>6. \A i \in DOMAIN parts : At(parts[i].id) <= At(parts[i].node)
    BY <2>2, <2>3
  <2>7. ASSUME N = Len(q.hits), NEW i \in DOMAIN parts PROVE parts[i].id = parts[i].node
    <3>1. read[i] \in 1 .. N /\ parts[i].id = q.hits[read[i]] /\ parts[i].node = q.nodes[read[i]].node
      BY <2>2
    <3> QED BY <2>3, <2>7, <3>1
  <2> QED BY <2>5, <2>6, <2>7 DEF q, N, At
<1> QED BY <1>1, IInvAlways, PTL DEF LabelsTrue

=============================================================================
