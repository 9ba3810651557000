------------------------------ MODULE Induction ------------------------------
(***************************************************************************)
(* Induction over sets in place of predicates.  A recursive function is    *)
(* reasoned about by putting the numbers (or the finite sets) for which a  *)
(* fact holds into a set, and showing that the set is closed.              *)
(***************************************************************************)
EXTENDS Naturals, FiniteSets, FiniteSetTheorems, WellFoundedInduction, TLAPS

Less == { p \in Nat \X Nat : p[1] < p[2] }

LEMMA LessWellFounded == IsWellFoundedOn(Less, Nat)
<1>1. OpToRel(<, Nat) = Less
      BY DEF OpToRel, Less
<1> QED BY <1>1, NatLessThanWellFounded

\* A set of naturals that is not empty has a least element.
LEMMA LeastNumber ==
  ASSUME NEW T \in SUBSET Nat, T # {}
  PROVE  \E n \in T : \A m \in T : n <= m
<1>1. PICK n \in T : \A m \in T : <<m, n>> \notin Less
      BY LessWellFounded, WFMin
<1>2. ASSUME NEW m \in T PROVE n <= m
  <2>1. m \in Nat /\ n \in Nat
    OBVIOUS
  <2>2. <<m, n>> \notin Less
    BY <1>1
  <2> QED BY <2>1, <2>2 DEF Less
<1> QED BY <1>2

\* A set that holds the numbers 0 .. n as soon as it holds 0 and, with a number
\* below n, the next one.
LEMMA UpTo ==
  ASSUME NEW n \in Nat, NEW T, 0 \in T, \A i \in 0 .. n : i < n /\ i \in T => i + 1 \in T
  PROVE  \A i \in 0 .. n : i \in T
<1> DEFINE Out == { i \in 0 .. n : i \notin T }
<1> SUFFICES ASSUME Out # {} PROVE FALSE
    OBVIOUS
<1>0. Out \in SUBSET Nat
    OBVIOUS
<1>1. PICK k \in Out : \A m \in Out : k <= m
    BY <1>0, LeastNumber
<1>2. k \in 1 .. n /\ k \notin T
    OBVIOUS
<1>3. k - 1 \in 0 .. n /\ k - 1 < n /\ k - 1 + 1 = k
    BY <1>2
<1>4. k - 1 \notin Out
    BY <1>1, <1>2, <1>3
<1>5. k - 1 \in T
    BY <1>3, <1>4
<1> QED BY <1>2, <1>3, <1>5

\* The same over the subsets of a finite set, which grow by one element.
LEMMA SetsUpTo ==
  ASSUME NEW S, IsFiniteSet(S), NEW U, {} \in U,
         \A T \in SUBSET S, x \in S : T \in U /\ x \notin T => T \cup {x} \in U
  PROVE  S \in U
<1> DEFINE InU(n) == \A T \in SUBSET S : Cardinality(T) = n => T \in U
           Sizes == { n \in Nat : InU(n) }
           N == Cardinality(S)
<1>0. N \in Nat
    BY FS_CardinalityType
<1>1. InU(0)
    BY FS_EmptySet, FS_Subset
<1>2. ASSUME NEW i \in Nat, InU(i) PROVE InU(i + 1)
  <2> SUFFICES ASSUME NEW T \in SUBSET S, Cardinality(T) = i + 1 PROVE T \in U
    OBVIOUS
  <2>1. IsFiniteSet(T)
    BY FS_Subset
  <2>2. T # {}
    <3>1. i + 1 # 0
      OBVIOUS
    <3> QED BY <3>1, FS_EmptySet
  <2>3. PICK x \in T : TRUE
    BY <2>2
  <2>4. IsFiniteSet(T \ {x}) /\ Cardinality(T \ {x}) = Cardinality(T) - 1
    BY <2>1, FS_RemoveElement, Zenon
  <2>5. T \ {x} \in U
    <3>1. Cardinality(T \ {x}) = i
      BY <2>4
    <3> QED BY <1>2, <3>1
  <2>6. (T \ {x}) \cup {x} \in U
    BY <2>5
  <2>7. (T \ {x}) \cup {x} = T
    OBVIOUS
  <2> QED BY <2>6, <2>7
<1>3. \A n \in 0 .. N : n \in Sizes
  <2>1. 0 \in Sizes
    BY <1>1
  <2>2. \A i \in 0 .. N : i < N /\ i \in Sizes => i + 1 \in Sizes
    BY <1>0, <1>2
  <2> HIDE DEF Sizes, N
  <2> QED BY <1>0, <2>1, <2>2, UpTo
<1>4. InU(N)
  BY <1>0, <1>3
<1> QED BY <1>4

(***************************************************************************)
(* Sorting.  R is the order, as a set of pairs.                            *)
(***************************************************************************)

TotalOn(S, R) ==
  /\ \A c, d \in S : c # d => <<c, d>> \in R \/ <<d, c>> \in R
  /\ \A c, d, e \in S : <<c, d>> \in R /\ <<d, e>> \in R => <<c, e>> \in R

\* Some member of the set comes last.
LEMMA LastOne ==
  ASSUME NEW S, IsFiniteSet(S), S # {}, NEW R, TotalOn(S, R)
  PROVE  \E c \in S : \A d \in S \ {c} : <<d, c>> \in R
<1> DEFINE HasLast(T) == T = {} \/ \E c \in T : \A d \in T \ {c} : <<d, c>> \in R
           U == { T \in SUBSET S : HasLast(T) }
<1>1. {} \in U
  OBVIOUS
<1>2. ASSUME NEW T \in SUBSET S, NEW x \in S, T \in U, x \notin T PROVE T \cup {x} \in U
  <2>1. CASE T = {}
    <3>1. x \in T \cup {x} /\ \A d \in (T \cup {x}) \ {x} : <<d, x>> \in R
      BY <2>1
    <3> QED BY <3>1
  <2>2. CASE T # {}
    <3>1. PICK c \in T : \A d \in T \ {c} : <<d, c>> \in R
      BY <1>2, <2>2
    <3>2. c \in S /\ c # x
      BY <1>2, <3>1
    <3>3. CASE <<c, x>> \in R
      <4>1. ASSUME NEW d \in (T \cup {x}) \ {x} PROVE <<d, x>> \in R
        <5>1. d \in T /\ d \in S
          BY <4>1
        <5>2. d = c \/ <<d, c>> \in R
          BY <3>1, <5>1
        <5> QED BY <3>2, <3>3, <5>1, <5>2 DEF TotalOn
      <4> QED BY <4>1
    <3>4. CASE <<x, c>> \in R
      <4>1. \A d \in (T \cup {x}) \ {c} : <<d, c>> \in R
        BY <3>1, <3>4
      <4> QED BY <3>1, <4>1
    <3> QED BY <3>2, <3>3, <3>4 DEF TotalOn
  <2> QED BY <2>1, <2>2
<1>3. S \in U
  <2> HIDE DEF U
  <2> QED BY <1>1, <1>2, SetsUpTo
<1> QED BY <1>3

Sorts(s, S, R) ==
  /\ s \in [1 .. Cardinality(S) -> S]
  /\ \A c \in S : \E i \in DOMAIN s : s[i] = c
  /\ \A i, j \in DOMAIN s : i < j => <<s[i], s[j]>> \in R

\* A finite set can be sorted: sort it without its last member, and append that.
LEMMA CanBeSorted ==
  ASSUME NEW F, IsFiniteSet(F), NEW R, TotalOn(F, R)
  PROVE  \E s : Sorts(s, F, R)
<1> DEFINE Sortable(n) == \A S \in SUBSET F : Cardinality(S) = n => \E s : Sorts(s, S, R)
           Sizes == { n \in Nat : Sortable(n) }
           N == Cardinality(F)
<1>0. /\ \A S \in SUBSET F : IsFiniteSet(S) /\ Cardinality(S) \in Nat /\ TotalOn(S, R)
      /\ N \in Nat
    BY FS_Subset, FS_CardinalityType DEF TotalOn
<1>1. Sortable(0)
  <2> SUFFICES ASSUME NEW S \in SUBSET F, Cardinality(S) = 0
               PROVE  \E s : Sorts(s, S, R)
    OBVIOUS
  <2>1. S = {}
    BY <1>0, FS_EmptySet
  <2>2. Sorts([i \in 1 .. 0 |-> i], S, R)
    BY <2>1 DEF Sorts
  <2> QED BY <2>2
<1>2. ASSUME NEW n \in Nat, Sortable(n) PROVE Sortable(n + 1)
  <2> SUFFICES ASSUME NEW S \in SUBSET F, Cardinality(S) = n + 1
               PROVE  \E s : Sorts(s, S, R)
    OBVIOUS
  <2>1. S # {}
    <3>1. n + 1 # 0
      OBVIOUS
    <3> QED BY <1>0, <3>1, FS_EmptySet
  <2>2. PICK c \in S : \A d \in S \ {c} : <<d, c>> \in R
    BY <1>0, <2>1, LastOne
  <2>4. Cardinality(S \ {c}) = n
    <3>1. Cardinality(S \ {c}) = Cardinality(S) - 1
      BY <1>0, FS_RemoveElement, Zenon
    <3> QED BY <3>1
  <2>5. PICK s : Sorts(s, S \ {c}, R)
    BY <1>2, <2>4
  <2>6. /\ s \in [1 .. n -> S \ {c}]
        /\ \A d \in S \ {c} : \E i \in 1 .. n : s[i] = d
        /\ \A i, j \in 1 .. n : i < j => <<s[i], s[j]>> \in R
    BY <2>4, <2>5 DEF Sorts
  <2> DEFINE t == [i \in 1 .. n + 1 |-> IF i = n + 1 THEN c ELSE s[i]]
  <2>7. t \in [1 .. n + 1 -> S]
    BY <2>6
  <2>8. ASSUME NEW d \in S PROVE \E i \in 1 .. n + 1 : t[i] = d
    <3>1. CASE d = c
      BY <3>1
    <3>2. CASE d # c
      <4>1. PICK i \in 1 .. n : s[i] = d
        BY <2>6, <3>2
      <4>2. t[i] = d
        BY <4>1
      <4> QED BY <4>2
    <3> QED BY <3>1, <3>2
  <2>9. ASSUME NEW i \in 1 .. n + 1, NEW j \in 1 .. n + 1, i < j PROVE <<t[i], t[j]>> \in R
    <3>1. i \in 1 .. n /\ t[i] = s[i]
      BY <2>9
    <3>2. CASE j = n + 1
      <4>1. t[j] = c /\ s[i] \in S \ {c}
        BY <2>6, <3>1, <3>2
      <4> QED BY <2>2, <3>1, <4>1
    <3>3. CASE j # n + 1
      <4>1. j \in 1 .. n /\ t[j] = s[j]
        BY <3>3
      <4> QED BY <2>6, <2>9, <3>1, <4>1
    <3> QED BY <3>2, <3>3
  <2>10. Sorts(t, S, R)
    <3>1. DOMAIN t = 1 .. n + 1
      OBVIOUS
    <3> HIDE DEF t
    <3> QED BY <2>7, <2>8, <2>9, <3>1 DEF Sorts
  <2> QED BY <2>10
<1>3. \A n \in 0 .. N : n \in Sizes
  <2>1. 0 \in Sizes
    BY <1>1
  <2>2. \A i \in 0 .. N : i < N /\ i \in Sizes => i + 1 \in Sizes
    BY <1>0, <1>2
  <2> HIDE DEF Sizes, N
  <2> QED BY <1>0, <2>1, <2>2, UpTo
<1>4. Sortable(N)
  BY <1>0, <1>3
<1> QED BY <1>4

=============================================================================
