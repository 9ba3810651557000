------------------------ MODULE EditProposals_proofs ------------------------
(***************************************************************************)
(* Proofs about EditProposals, for any number of calls, requests, files,   *)
(* edits, commands and restarts.  AtMostOnce and AppliedIsSettled say      *)
(* nothing of the copies of a proposal that tasks and proposals.json hold, *)
(* so neither is inductive; IInv below adds what those copies satisfy.     *)
(*                                                                         *)
(* The plan of a bulk approval is the result of a loop over a sorted       *)
(* vector: that the vector exists and what the loop returns is shown by    *)
(* induction, with the lemmas of Induction.                                *)
(***************************************************************************)
EXTENDS EditProposals, Induction, SequenceTheorems, TLAPS

Saving == {"snapshot", "truncate", "flush"}

\* A task that reads or writes a registry entry knows which one, one that writes
\* edits or denies has its clone, and only save_proposals has a place to return to.
RequestKnown ==
  \A w \in Workers :
    /\ \/ pc[w] \in {"check", "resolve", "insert", "announce", "approve", "write",
                     "deny", "denied"}
       \/ then[w] = "announce"
       => req[w] \in Reqs
    /\ pc[w] \in {"write", "denied"} => prop[w] \in Proposal
    /\ pc[w] \notin Saving => then[w] = "return"

\* In the loop of a bulk command the commander knows which command it runs.
BulkKnown == pc[Commander] \in {"stale", "bulk"} => bulk \in {"approve", "deny"}

HeldIn(reg, c) == \E r \in Reqs : reg[r] # None /\ reg[r].call = c

AppliedIn(reg, c) ==
  \E r \in Reqs : reg[r] # None /\ reg[r].call = c /\ reg[r].status = "Applied"

\* Some task, the registry or proposals.json holds a copy of c's proposal.
Copied(c) ==
  \/ HeldIn(proposals, c)
  \/ disk # Torn /\ HeldIn(disk, c)
  \/ \E w \in Workers : HeldIn(snap[w], c) \/ (prop[w] # None /\ prop[w].call = c)

\* Some registry, live or saved, has c's proposal as Applied.
AppliedSomewhere(c) ==
  \/ AppliedIn(proposals, c)
  \/ disk # Torn /\ AppliedIn(disk, c)
  \/ \E w \in Workers : AppliedIn(snap[w], c)

Early == {"idle", "check", "resolve", "insert"}

\* Before a call stages its proposal, nobody has a copy of it and none of its
\* edits has landed: its expected hashes may still be chosen.
Fresh ==
  \A c \in Calls : pc[c] \in Early => ~Copied(c) /\ \A x \in landed : x[1] # c

\* The graph and the expected hashes are never ahead of the files.
HashesPast ==
  /\ \A f \in Files : dbVer[f] <= ver[f]
  /\ \A c \in Calls, f \in Files : expected[c][f] <= ver[f]

\* An edit that landed replaced the version it expected, which is gone for good
\* unless the edit was invisible to the hash.
LandedAtExpected ==
  \A x \in landed :
    /\ x[2] \in DOMAIN EditsOf[x[1]]
    /\ x[3] = expected[x[1]][EditAt(x[1], x[2]).file]
    /\ <<x[1], x[2]>> \notin Cosmetic => x[3] < ver[EditAt(x[1], x[2]).file]

\* A batch has settled every edit before its position.
TriedSettled ==
  \A w \in Workers, c \in Calls : pc[w] = "write" /\ prop[w].call = c =>
    \A i \in DOMAIN EditsOf[c] : i < pos[w] => EditSettled(c, i)

\* A proposal marked Applied is settled, in whichever registry it is marked.
CopiesSettled == \A c \in Calls : AppliedSomewhere(c) => Settled(c)

\* TypeOK by its parts: the tasks, the registries, the rest.
TaskTypes ==
  /\ pc \in [Workers -> PC]
  /\ req \in [Workers -> Reqs \cup {None}]
  /\ prop \in [Workers -> Proposal \cup {None}]
  /\ pos \in [Workers -> Nat \ {0}]
  /\ then \in [Workers -> {"return", "announce", "rescan"}]

RegistryTypes ==
  /\ proposals \in Registry
  /\ snap \in [Workers -> Registry]
  /\ disk \in Registry \cup {Torn}

OtherTypes ==
  /\ guard \in Calls \cup {None}
  /\ bulk \in {"none", "approve", "deny"}
  /\ todo \subseteq Calls /\ toStale \subseteq Calls
  /\ ver \in [Files -> Nat] /\ dbVer \in [Files -> Nat]
  /\ expected \in [Calls -> [Files -> Nat]]
  /\ stamp \in [Calls -> Nat] /\ clock \in Nat
  /\ rescan \in BOOLEAN
  /\ answer \in [Calls -> {"none", "staged", "applied", "failed"}]
  /\ landed \subseteq Calls \X Nat \X Nat
  /\ twice \subseteq Calls \X Nat
  /\ refused \subseteq Calls \X Nat
  /\ commands \in Nat /\ crashes \in Nat

TInv == TypeOK /\ RequestKnown /\ BulkKnown

IInv == TInv /\ Fresh /\ HashesPast /\ LandedAtExpected /\ AtMostOnce
        /\ TriedSettled /\ CopiesSettled

LEMMA TypeParts == TypeOK <=> TaskTypes /\ RegistryTypes /\ OtherTypes
BY DEF TypeOK, TaskTypes, RegistryTypes, OtherTypes

LEMMA TypePartsNext == TypeOK' <=> TaskTypes' /\ RegistryTypes' /\ OtherTypes'
BY DEF TypeOK, TaskTypes, RegistryTypes, OtherTypes

LEMMA TInvInit == Init => TInv
<1> SUFFICES ASSUME Init PROVE TInv
    OBVIOUS
<1>1. TaskTypes
      BY DEF Init, TaskTypes, PC
<1>2. RegistryTypes
      BY DEF Init, RegistryTypes, Registry, EmptyRegistry
<1>3. OtherTypes
      BY DEF Init, OtherTypes
<1>4. RequestKnown /\ BulkKnown
      BY DEF Init, RequestKnown, BulkKnown, Workers, Saving
<1> QED BY <1>1, <1>2, <1>3, <1>4, TypeParts DEF TInv

\* The edits of a call are edits of files.
LEMMA EditFile ==
  ASSUME NEW c \in Calls, NEW i \in DOMAIN EditsOf[c]
  PROVE  EditAt(c, i).file \in Files
<1>1. EditsOf[c] \in Seq(Span)
      BY ConstantsAssumption
<1>2. EditsOf[c][i] \in Span
      BY <1>1
<1> QED BY <1>2 DEF EditAt, Span

\* A task writing the next edit of its clone.
LEMMA NextEdit ==
  ASSUME TInv, NEW w \in Workers, pc[w] = "write", ~NoMoreEdits(w)
  PROVE  /\ prop[w].call \in Calls
         /\ pos[w] \in DOMAIN EditsOf[prop[w].call]
         /\ pos[w] \in Nat \ {0}
         /\ EditAt(prop[w].call, pos[w]).file \in Files
<1>1. prop[w].call \in Calls /\ pos[w] \in Nat \ {0}
      BY DEF TInv, TypeOK, RequestKnown, Proposal
<1>2. pos[w] \in DOMAIN EditsOf[prop[w].call]
      BY <1>1, ConstantsAssumption DEF NoMoreEdits
<1> QED BY <1>1, <1>2, EditFile

LEMMA ReturnTypes ==
  ASSUME TInv, NEW w \in Workers, Return(w)
  PROVE  /\ pc' \in [Workers -> PC]
         /\ req' \in [Workers -> Reqs \cup {None}]
         /\ prop' \in [Workers -> Proposal \cup {None}]
         /\ pos' \in [Workers -> Nat \ {0}]
         /\ pc'[w] = "done" \/ (w = Commander /\ pc'[w] \in {"idle", "bulk"})
         /\ pc'[Commander] = "bulk" => bulk # "none" \/ pc[Commander] = "bulk"
         /\ \A v \in Workers \ {w} : /\ pc'[v] = pc[v] /\ req'[v] = req[v]
                                    /\ prop'[v] = prop[v] /\ pos'[v] = pos[v]
<1>1. TaskTypes
      BY TypeParts DEF TInv
<1>2. pc' \in [Workers -> PC] /\ req' \in [Workers -> Reqs \cup {None}]
      BY <1>1 DEF TaskTypes, Return, Goto, PC
<1>3. prop' \in [Workers -> Proposal \cup {None}] /\ pos' \in [Workers -> Nat \ {0}]
      BY <1>1 DEF TaskTypes, Return
<1>4. pc'[w] = "done" \/ (w = Commander /\ pc'[w] \in {"idle", "bulk"})
      BY <1>1 DEF TaskTypes, Return, Goto
<1>5. \A v \in Workers \ {w} : /\ pc'[v] = pc[v] /\ req'[v] = req[v]
                               /\ prop'[v] = prop[v] /\ pos'[v] = pos[v]
      BY <1>1 DEF TaskTypes, Return, Goto
<1>6. pc'[Commander] = "bulk" => bulk # "none" \/ pc[Commander] = "bulk"
      BY <1>1 DEF TaskTypes, Return, Goto, Workers
<1> QED BY <1>2, <1>3, <1>4, <1>5, <1>6

\* A step in which w returns and save_proposals is not under way.
LEMMA ReturnKnown ==
  ASSUME TInv, NEW w \in Workers, Return(w),
         then'[w] = "return", \A v \in Workers \ {w} : then'[v] = then[v]
  PROVE  RequestKnown'
<1>1. RequestKnown /\ TaskTypes
      BY TypeParts DEF TInv
<1> QED BY <1>1, ReturnTypes DEF RequestKnown

(***************************************************************************)
(* The plan of a bulk approval.                                            *)
(***************************************************************************)

\* No two of the calls have one request id: they can be pending together.
Apart(T) == \A c, d \in T : ReqOf[c] = ReqOf[d] => c = d

StampType == stamp \in [Calls -> Nat]

\* What approve_pending_edits makes of the pending proposals before its loop.
IsSorted(s, T) ==
  /\ s \in [1 .. Cardinality(T) -> T]
  /\ \A c \in T : \E i \in DOMAIN s : s[i] = c
  /\ \A i, j \in DOMAIN s : i < j => Newer(s[i], s[j])

\* Calls of requests of their own can be sorted, newest first.
LEMMA CanSort ==
  ASSUME StampType, NEW T \in SUBSET Calls, Apart(T)
  PROVE  \E s : IsSorted(s, T)
<1> USE ConstantsAssumption DEF StampType
<1> DEFINE R == { p \in T \X T : Newer(p[1], p[2]) }
<1>1. IsFiniteSet(T)
    BY FS_Subset
<1>2. ASSUME NEW c \in T, NEW d \in T, c # d PROVE <<c, d>> \in R \/ <<d, c>> \in R
  <2>1. /\ stamp[d] \in Nat /\ stamp[c] \in Nat /\ ReqOf[d] \in Nat /\ ReqOf[c] \in Nat
        /\ ReqOf[d] # ReqOf[c]
    BY <1>2 DEF Apart
  <2>2. Newer(c, d) \/ Newer(d, c)
    BY <2>1 DEF Newer
  <2> QED BY <2>2
<1>3. ASSUME NEW c \in T, NEW d \in T, NEW e \in T, <<c, d>> \in R, <<d, e>> \in R
      PROVE  <<c, e>> \in R
  <2>1. /\ stamp[c] \in Nat /\ stamp[d] \in Nat /\ stamp[e] \in Nat
        /\ ReqOf[c] \in Nat /\ ReqOf[d] \in Nat /\ ReqOf[e] \in Nat
    OBVIOUS
  <2>2. Newer(c, d) /\ Newer(d, e)
    BY <1>3
  <2>3. Newer(c, e)
    BY <2>1, <2>2 DEF Newer
  <2> QED BY <2>3
<1>4. TotalOn(T, R)
  <2> HIDE DEF R
  <2> QED BY <1>2, <1>3 DEF TotalOn
<1>5. PICK s : Sorts(s, T, R)
  <2> HIDE DEF R
  <2> QED BY <1>1, <1>4, CanBeSorted
<1>6. IsSorted(s, T)
  BY <1>5 DEF Sorts, IsSorted
<1> QED BY <1>6

\* So the vector the loop runs over is there.
LEMMA SortedIsSorted ==
  ASSUME StampType, NEW T \in SUBSET Calls, Apart(T)
  PROVE  IsSorted(Sorted(T), T)
<1>1. PICK s : IsSorted(s, T)
    BY CanSort
<1> QED BY <1>1 DEF IsSorted, Sorted

\* The loop's state is given by its first turn and by Visit.
LEMMA GreedyPassDef ==
  ASSUME NEW N \in Nat, NEW order, Len(order) = N
  PROVE  GreedyPass(order) =
           [n \in 0 .. N |-> IF n = 0 THEN NothingPicked
                             ELSE Visit(GreedyPass(order)[n - 1], order[n])]
<1> DEFINE Turns(g, m) ==
      g = [n \in 0 .. m |-> IF n = 0 THEN NothingPicked ELSE Visit(g[n - 1], order[n])]
    Runs == { m \in 0 .. N : \E g : Turns(g, m) }
<1>1. 0 \in Runs
  <2> DEFINE g == [n \in 0 .. 0 |-> NothingPicked]
  <2>1. Turns(g, 0)
    <3>1. \A n \in 0 .. 0 : n = 0 /\ g[n] = NothingPicked
      OBVIOUS
    <3> QED BY <3>1
  <2> HIDE DEF g
  <2> QED BY <2>1
<1>2. ASSUME NEW m \in 0 .. N, m < N, m \in Runs PROVE m + 1 \in Runs
  <2>1. PICK g : Turns(g, m)
    BY <1>2
  <2> DEFINE h == [n \in 0 .. m + 1 |->
                     IF n = m + 1 THEN Visit(g[m], order[m + 1]) ELSE g[n]]
  <2>2. ASSUME NEW n \in 0 .. m + 1
        PROVE  h[n] = IF n = 0 THEN NothingPicked ELSE Visit(h[n - 1], order[n])
    <3>1. CASE n = m + 1
      <4>1. h[n] = Visit(g[m], order[m + 1]) /\ h[n - 1] = g[m]
        BY <3>1
      <4> QED BY <3>1, <4>1
    <3>2. CASE n # m + 1
      <4>1. n \in 0 .. m /\ h[n] = g[n]
        BY <3>2
      <4>2. n # 0 => h[n - 1] = g[n - 1]
        BY <4>1
      <4>3. g[n] = IF n = 0 THEN NothingPicked ELSE Visit(g[n - 1], order[n])
        BY <2>1, <4>1
      <4> QED BY <4>1, <4>2, <4>3
    <3> QED BY <3>1, <3>2
  <2>3. Turns(h, m + 1)
    <3>1. h = [n \in 0 .. m + 1 |-> h[n]]
      OBVIOUS
    <3> HIDE DEF h
    <3> QED BY <2>2, <3>1
  <2>4. m + 1 \in 0 .. N
    BY <1>2
  <2> QED BY <2>3, <2>4
<1>3. \A i \in 0 .. N : i \in Runs
  <2> HIDE DEF Runs
  <2> QED BY <1>1, <1>2, UpTo
<1>4. PICK g : Turns(g, N)
  BY <1>3
<1>5. GreedyPass(order) = CHOOSE f : Turns(f, N)
  BY DEF GreedyPass
<1> QED BY <1>4, <1>5


\* After n turns each of the first n proposals is picked, or overlaps an earlier one
\* that is; those picked occupy what they touch and do not overlap.
TurnsSound(s, acc, n) ==
  /\ acc.picked \subseteq { s[i] : i \in 1 .. n }
  /\ acc.occupied = UNION { Touches(c) : c \in acc.picked }
  /\ \A c, d \in acc.picked : c # d => ~Overlap(c, d)
  /\ \A i \in 1 .. n : \/ s[i] \in acc.picked
                       \/ \E j \in 1 .. i - 1 : s[j] \in acc.picked /\ Overlap(s[i], s[j])

LEMMA OverlapSymmetric ==
  ASSUME NEW c, NEW d, Overlap(c, d)
  PROVE  Overlap(d, c)
BY DEF Overlap, OverlapsExisting

\* One turn of the loop keeps that.
LEMMA VisitSound ==
  ASSUME NEW T, NEW N \in Nat, NEW s \in [1 .. N -> T], NEW n \in 0 .. N, n < N,
         NEW acc, TurnsSound(s, acc, n)
  PROVE  TurnsSound(s, Visit(acc, s[n + 1]), n + 1)
<1> DEFINE c == s[n + 1]
           new == Visit(acc, c)
<1>0. n + 1 \in 1 .. N /\ 1 .. n \subseteq 1 .. n + 1 /\ n + 1 \in 1 .. n + 1
    OBVIOUS
<1>1. CASE OverlapsExisting(acc.occupied, Touches(c))
  <2>1. new = acc
    BY <1>1 DEF Visit
  <2>2. PICK x \in acc.occupied, y \in Touches(c) : x.file = y.file /\ y.lo < x.hi /\ x.lo < y.hi
    BY <1>1 DEF OverlapsExisting
  <2>3. PICK d \in acc.picked : x \in Touches(d)
    BY <2>2 DEF TurnsSound
  <2>4. Overlap(c, d)
    <3>1. Overlap(d, c)
      BY <2>2, <2>3 DEF Overlap, OverlapsExisting
    <3> QED BY <3>1, OverlapSymmetric
  <2>5. PICK j \in 1 .. n : s[j] = d
    BY <2>3 DEF TurnsSound
  <2>6. ASSUME NEW i \in 1 .. n + 1
        PROVE  \/ s[i] \in acc.picked
               \/ \E k \in 1 .. i - 1 : s[k] \in acc.picked /\ Overlap(s[i], s[k])
    <3>1. CASE i = n + 1
      BY <2>3, <2>4, <2>5, <3>1
    <3>2. CASE i # n + 1
      BY <3>2 DEF TurnsSound
    <3> QED BY <3>1, <3>2
  <2>7. acc.picked \subseteq { s[i] : i \in 1 .. n + 1 }
    BY <1>0 DEF TurnsSound
  <2> QED BY <2>1, <2>6, <2>7 DEF TurnsSound
<1>2. CASE ~OverlapsExisting(acc.occupied, Touches(c))
  <2>1. new.occupied = acc.occupied \cup Touches(c) /\ new.picked = acc.picked \cup {c}
    BY <1>2 DEF Visit
  <2>2. ASSUME NEW d \in acc.picked PROVE ~Overlap(d, c) /\ ~Overlap(c, d)
    <3>1. Touches(d) \subseteq acc.occupied
      BY DEF TurnsSound
    <3>2. ~Overlap(d, c)
      BY <1>2, <3>1 DEF Overlap, OverlapsExisting
    <3> QED BY <3>2, OverlapSymmetric
  <2>3. new.picked \subseteq { s[i] : i \in 1 .. n + 1 }
    BY <1>0, <2>1 DEF TurnsSound
  <2>4. new.occupied = UNION { Touches(d) : d \in new.picked }
    BY <2>1 DEF TurnsSound
  <2>5. \A d, e \in new.picked : d # e => ~Overlap(d, e)
    BY <2>1, <2>2 DEF TurnsSound
  <2>6. ASSUME NEW i \in 1 .. n + 1
        PROVE  \/ s[i] \in new.picked
               \/ \E k \in 1 .. i - 1 : s[k] \in new.picked /\ Overlap(s[i], s[k])
    <3>1. CASE i = n + 1
      BY <2>1, <3>1
    <3>2. CASE i # n + 1
      BY <2>1, <3>2 DEF TurnsSound
    <3> QED BY <3>1, <3>2
  <2>7. new = Visit(acc, s[n + 1])
    OBVIOUS
  <2> HIDE DEF new
  <2>8. TurnsSound(s, new, n + 1)
    BY <2>3, <2>4, <2>5, <2>6 DEF TurnsSound
  <2> QED BY <2>7, <2>8
<1> QED BY <1>1, <1>2

\* What the loop picks of pending proposals: all of them are calls of the set, no
\* two overlap, and one that is left out overlaps a newer one that is not.
LEMMA PickSound ==
  ASSUME StampType, NEW T \in SUBSET Calls, Apart(T)
  PROVE  /\ PickNonOverlapping(T) \subseteq T
         /\ \A c, d \in PickNonOverlapping(T) : c # d => ~Overlap(c, d)
         /\ \A c \in T \ PickNonOverlapping(T) :
              \E d \in PickNonOverlapping(T) : Newer(d, c) /\ Overlap(c, d)
<1> DEFINE s == Sorted(T)
           N == Cardinality(T)
           after == GreedyPass(s)
           Sound == { n \in 0 .. N : TurnsSound(s, after[n], n) }
<1>0. N \in Nat
    BY ConstantsAssumption, FS_Subset, FS_CardinalityType
<1>1. IsSorted(s, T)
    BY SortedIsSorted
<1>2. s \in [1 .. N -> T] /\ Len(s) = N
  <2>1. s \in [1 .. N -> T]
    BY <1>1 DEF IsSorted
  <2> HIDE DEF s, N
  <2> QED BY <1>0, <2>1
<1>3. \A n \in 0 .. N : after[n] = IF n = 0 THEN NothingPicked ELSE Visit(after[n - 1], s[n])
  <2> HIDE DEF s, N
  <2> QED BY <1>0, <1>2, GreedyPassDef
<1> HIDE DEF s, N, after
<1>4. 0 \in Sound
  <2>1. after[0] = NothingPicked
    BY <1>0, <1>3
  <2>2. TurnsSound(s, NothingPicked, 0)
    BY DEF TurnsSound, NothingPicked
  <2> QED BY <1>0, <2>1, <2>2
<1>5. ASSUME NEW n \in 0 .. N, n < N, n \in Sound PROVE n + 1 \in Sound
  <2>1. n + 1 \in 0 .. N /\ n + 1 # 0 /\ (n + 1) - 1 = n
    BY <1>0, <1>5
  <2>2. after[n + 1] = Visit(after[n], s[n + 1])
    BY <1>3, <2>1
  <2>3. TurnsSound(s, Visit(after[n], s[n + 1]), n + 1)
    BY <1>0, <1>2, <1>5, VisitSound
  <2> QED BY <2>1, <2>2, <2>3
<1>6. N \in Sound
  <2> HIDE DEF Sound
  <2> QED BY <1>0, <1>4, <1>5, UpTo
<1>7. PickNonOverlapping(T) = after[N].picked
    BY DEF PickNonOverlapping, after, N, s
<1>8. TurnsSound(s, after[N], N)
    BY <1>6
<1>9. after[N].picked \subseteq T
    BY <1>2, <1>8 DEF TurnsSound
<1>10. ASSUME NEW c \in T, c \notin after[N].picked
       PROVE  \E d \in after[N].picked : Newer(d, c) /\ Overlap(c, d)
  <2>1. PICK i \in 1 .. N : s[i] = c
    BY <1>1, <1>2 DEF IsSorted
  <2>2. PICK j \in 1 .. i - 1 : s[j] \in after[N].picked /\ Overlap(s[i], s[j])
    BY <1>8, <1>10, <2>1 DEF TurnsSound
  <2>3. j \in 1 .. N /\ j < i
    BY <1>0
  <2>4. Newer(s[j], s[i])
    BY <1>1, <1>2, <2>3 DEF IsSorted
  <2> QED BY <2>1, <2>2, <2>4
<1>11. \A c, d \in after[N].picked : c # d => ~Overlap(c, d)
    BY <1>8 DEF TurnsSound
<1> QED BY <1>7, <1>9, <1>10, <1>11

\* The registry holds one proposal per request.
LEMMA PendingApart == Apart(Pending) /\ Pending \in SUBSET Calls
<1>1. ASSUME NEW c \in Pending, NEW d \in Pending, ReqOf[c] = ReqOf[d] PROVE c = d
  <2>1. [call |-> c, status |-> "Pending"] = [call |-> d, status |-> "Pending"]
    BY <1>1 DEF Pending
  <2> QED BY <2>1
<1> QED BY <1>1 DEF Apart, Pending

(***************************************************************************)
(* The type invariant, action by action.                                   *)
(***************************************************************************)

LEMMA TInvStep == ASSUME TInv, Next PROVE TInv'
<1> USE ConstantsAssumption DEF TaskTypes, RegistryTypes, OtherTypes,
                                taskVars, bulkVars, fileVars, callVars
<1>0. TaskTypes /\ RegistryTypes /\ OtherTypes /\ RequestKnown /\ BulkKnown
      BY TypeParts DEF TInv
<1>a. ASSUME TaskTypes', RegistryTypes', OtherTypes', RequestKnown', BulkKnown' PROVE TInv'
      BY <1>a, TypePartsNext DEF TInv
<1>1. ASSUME NEW c \in Calls, ToolCallRequested(c)
      PROVE  TInv'
  <2>1. TaskTypes'
    BY <1>0, <1>1 DEF ToolCallRequested, PC, Workers, Goto
  <2>2. RegistryTypes'
    BY <1>0, <1>1 DEF ToolCallRequested, Registry, EmptyRegistry, Proposal, Status,
       RequestKnown, Workers, Goto
  <2>3. OtherTypes'
    BY <1>0, <1>1 DEF ToolCallRequested, RequestKnown, Proposal, Workers, Goto
  <2>4. RequestKnown'
    BY <1>0, <1>1 DEF ToolCallRequested, RequestKnown, Saving, Workers, Goto
  <2>5. BulkKnown'
    BY <1>0, <1>1 DEF ToolCallRequested, BulkKnown, Workers, Goto
  <2> QED BY <1>a, <2>1, <2>2, <2>3, <2>4, <2>5
<1>2. ASSUME NEW c \in Calls, CheckDuplicate(c)
      PROVE  TInv'
  <2>0. c \in Workers
    BY DEF Workers
  <2>1. ASSUME ~NoProposal(proposals[req[c]])
        PROVE  TaskTypes' /\ RequestKnown' /\ BulkKnown'
    <3>1. Return(c)
      BY <2>1, <1>2 DEF CheckDuplicate, NoProposal
    <3>2. TaskTypes'
      BY <2>0, <3>1, <1>0, <1>2, ReturnTypes DEF CheckDuplicate
    <3>3. RequestKnown'
      <4>1. then'[c] = "return" /\ \A v \in Workers \ {c} : then'[v] = then[v]
        BY <2>0, <1>0, <1>2 DEF CheckDuplicate, RequestKnown, Saving
      <4> QED BY <2>0, <3>1, <4>1, ReturnKnown
    <3>4. BulkKnown'
      BY <2>0, <3>1, <1>0, <1>2, ReturnTypes DEF CheckDuplicate, BulkKnown, Workers
    <3> QED BY <3>2, <3>3, <3>4
  <2>2. ASSUME ~(~NoProposal(proposals[req[c]]))
        PROVE  TaskTypes' /\ RequestKnown' /\ BulkKnown'
    <3>1. TaskTypes'
      BY <2>0, <2>2, <1>0, <1>2 DEF CheckDuplicate, PC, Goto, Answer, NoProposal,
       Registry, Proposal
    <3>2. RequestKnown'
      BY <2>0, <2>2, <1>0, <1>2 DEF CheckDuplicate, RequestKnown, Saving, Workers, Goto,
       Answer, NoProposal, Registry, Proposal
    <3>3. BulkKnown'
      BY <2>0, <2>2, <1>0, <1>2 DEF CheckDuplicate, BulkKnown, Workers, Goto, Answer
    <3> QED BY <3>1, <3>2, <3>3
  <2>3. RegistryTypes'
    BY <1>0, <1>2 DEF CheckDuplicate, Registry, EmptyRegistry
  <2>4. OtherTypes'
    BY <1>0, <1>2 DEF CheckDuplicate, Goto, Answer
  <2> QED BY <1>a, <2>1, <2>2, <2>3, <2>4
<1>3. ASSUME NEW c \in Calls, StagingFails(c)
      PROVE  TInv'
  <2>0. c \in Workers
    BY DEF Workers
  <2>1. TaskTypes'
    BY <2>0, <1>0, <1>3, ReturnTypes DEF StagingFails
  <2>2. RegistryTypes'
    BY <1>0, <1>3 DEF StagingFails
  <2>3. OtherTypes'
    BY <1>0, <1>3 DEF StagingFails, Answer
  <2>4. RequestKnown'
    <3>1. then'[c] = "return" /\ \A v \in Workers \ {c} : then'[v] = then[v]
      BY <2>0, <1>0, <1>3 DEF StagingFails, RequestKnown, Saving
    <3>2. Return(c)
      BY <1>3 DEF StagingFails
    <3> QED BY <2>0, <3>1, <3>2, ReturnKnown
  <2>5. BulkKnown'
    BY <2>0, <1>0, <1>3, ReturnTypes DEF StagingFails, BulkKnown, Workers
  <2> QED BY <1>a, <2>1, <2>2, <2>3, <2>4, <2>5
<1>4. ASSUME NEW c \in Calls, ResolveEdits(c)
      PROVE  TInv'
  <2>1. TaskTypes'
    BY <1>0, <1>4 DEF ResolveEdits, PC, Workers, Goto
  <2>2. RegistryTypes'
    BY <1>0, <1>4 DEF ResolveEdits, Registry, EmptyRegistry, Proposal, Status,
       RequestKnown, Workers, Goto
  <2>3. OtherTypes'
    BY <1>0, <1>4 DEF ResolveEdits, RequestKnown, Proposal, Workers, Goto
  <2>4. RequestKnown'
    BY <1>0, <1>4 DEF ResolveEdits, RequestKnown, Saving, Workers, Goto
  <2>5. BulkKnown'
    BY <1>0, <1>4 DEF ResolveEdits, BulkKnown, Workers, Goto
  <2> QED BY <1>a, <2>1, <2>2, <2>3, <2>4, <2>5
<1>5. ASSUME NEW c \in Calls, StageProposal(c)
      PROVE  TInv'
  <2>1. TaskTypes'
    BY <1>0, <1>5 DEF StageProposal, PC, Workers, Save, Goto
  <2>2. RegistryTypes'
    BY <1>0, <1>5 DEF StageProposal, Registry, EmptyRegistry, Proposal, Status,
       RequestKnown, Workers, Save, Goto
  <2>3. OtherTypes'
    BY <1>0, <1>5 DEF StageProposal, RequestKnown, Proposal, Workers, Save, Goto
  <2>4. RequestKnown'
    BY <1>0, <1>5 DEF StageProposal, RequestKnown, Saving, Workers, Save, Goto
  <2>5. BulkKnown'
    BY <1>0, <1>5 DEF StageProposal, BulkKnown, Workers, Save, Goto
  <2> QED BY <1>a, <2>1, <2>2, <2>3, <2>4, <2>5
<1>6. ASSUME NEW c \in Calls, AnnounceStaged(c)
      PROVE  TInv'
  <2>0. c \in Workers
    BY DEF Workers
  <2>1. ASSUME c \notin AutoCalls \ NsCalls
        PROVE  TaskTypes' /\ RequestKnown' /\ BulkKnown'
    <3>1. Return(c)
      BY <2>1, <1>6 DEF AnnounceStaged, NoProposal
    <3>2. TaskTypes'
      BY <2>0, <3>1, <1>0, <1>6, ReturnTypes DEF AnnounceStaged
    <3>3. RequestKnown'
      <4>1. then'[c] = "return" /\ \A v \in Workers \ {c} : then'[v] = then[v]
        BY <2>0, <1>0, <1>6 DEF AnnounceStaged, RequestKnown, Saving
      <4> QED BY <2>0, <3>1, <4>1, ReturnKnown
    <3>4. BulkKnown'
      BY <2>0, <3>1, <1>0, <1>6, ReturnTypes DEF AnnounceStaged, BulkKnown, Workers
    <3> QED BY <3>2, <3>3, <3>4
  <2>2. ASSUME ~(c \notin AutoCalls \ NsCalls)
        PROVE  TaskTypes' /\ RequestKnown' /\ BulkKnown'
    <3>1. TaskTypes'
      BY <2>0, <2>2, <1>0, <1>6 DEF AnnounceStaged, PC, Goto, Answer
    <3>2. RequestKnown'
      BY <2>0, <2>2, <1>0, <1>6 DEF AnnounceStaged, RequestKnown, Saving, Workers, Goto,
       Answer
    <3>3. BulkKnown'
      BY <2>0, <2>2, <1>0, <1>6 DEF AnnounceStaged, BulkKnown, Workers, Goto, Answer
    <3> QED BY <3>1, <3>2, <3>3
  <2>3. RegistryTypes'
    BY <1>0, <1>6 DEF AnnounceStaged, Registry, EmptyRegistry
  <2>4. OtherTypes'
    BY <1>0, <1>6 DEF AnnounceStaged, Goto, Answer
  <2> QED BY <1>a, <2>1, <2>2, <2>3, <2>4
<1>7. ASSUME NEW w \in Workers, ApproveRead(w)
      PROVE  TInv'
  <2>0. w \in Workers
    BY DEF Workers
  <2>1. ASSUME NoProposal(proposals[req[w]]) \/ proposals[req[w]].status \in {"Applied", "Denied"}
        PROVE  TaskTypes' /\ RequestKnown' /\ BulkKnown'
    <3>1. Return(w)
      BY <2>1, <1>7 DEF ApproveRead, NoProposal
    <3>2. TaskTypes'
      BY <2>0, <3>1, <1>0, <1>7, ReturnTypes DEF ApproveRead
    <3>3. RequestKnown'
      <4>1. then'[w] = "return" /\ \A v \in Workers \ {w} : then'[v] = then[v]
        BY <2>0, <1>0, <1>7 DEF ApproveRead, RequestKnown, Saving
      <4> QED BY <2>0, <3>1, <4>1, ReturnKnown
    <3>4. BulkKnown'
      BY <2>0, <3>1, <1>0, <1>7, ReturnTypes DEF ApproveRead, BulkKnown, Workers
    <3> QED BY <3>2, <3>3, <3>4
  <2>2. ASSUME ~(NoProposal(proposals[req[w]]) \/ proposals[req[w]].status \in {"Applied", "Denied"})
        PROVE  TaskTypes' /\ RequestKnown' /\ BulkKnown'
    <3>0. proposals[req[w]] \in Proposal
      BY <2>0, <2>2, <1>0, <1>7 DEF ApproveRead, NoProposal, Registry, RequestKnown
    <3>a. prop' = [prop EXCEPT ![w] = proposals[req[w]]] /\ pos' = [pos EXCEPT ![w] = 1]
      BY <2>2, <1>7 DEF ApproveRead
    <3>b. prop' \in [Workers -> Proposal \cup {None}] /\ pos' \in [Workers -> Nat \ {0}]
      BY <3>0, <3>a, <1>0
    <3>c. pc' = [pc EXCEPT ![w] = "write"] /\ req' = req /\ then' = then /\ pc[w] = "approve"
      BY <2>2, <1>7 DEF ApproveRead, Goto
    <3>1. TaskTypes'
      BY <3>0, <3>a, <3>b, <2>0, <2>2, <1>0, <1>7 DEF ApproveRead, PC, Goto, NoProposal
    <3>2. RequestKnown'
      BY <3>0, <3>a, <3>c, <1>0 DEF RequestKnown, Saving
    <3>3. BulkKnown'
      BY <3>0, <3>a, <3>b, <2>0, <2>2, <1>0, <1>7 DEF ApproveRead, BulkKnown, Workers,
       Goto
    <3> QED BY <3>1, <3>2, <3>3
  <2>3. RegistryTypes'
    BY <1>0, <1>7 DEF ApproveRead, Registry, EmptyRegistry
  <2>4. OtherTypes'
    BY <1>0, <1>7 DEF ApproveRead, Goto
  <2> QED BY <1>a, <2>1, <2>2, <2>3, <2>4
<1>8. ASSUME NEW w \in Workers, WriteEdit(w)
      PROVE  TInv'
  <2>1. TaskTypes'
    BY <1>0, <1>8 DEF WriteEdit
  <2>2. RegistryTypes'
    BY <1>0, <1>8 DEF WriteEdit, Registry, EmptyRegistry, Proposal, Status,
       RequestKnown, Workers
  <2>3. OtherTypes'
    <3> DEFINE c == prop[w].call
               f == EditAt(c, pos[w]).file
    <3>1. c \in Calls /\ pos[w] \in Nat /\ f \in Files
      BY <1>8, NextEdit DEF WriteEdit
    <3>2. ver' \in [Files -> Nat] /\ ver[f] \in Nat
      BY <1>0, <1>8, <3>1 DEF WriteEdit
    <3>3. landed' \subseteq Calls \X Nat \X Nat
      BY <1>0, <1>8, <3>1, <3>2 DEF WriteEdit
    <3>4. twice' \subseteq Calls \X Nat
      BY <1>0, <1>8, <3>1 DEF WriteEdit
    <3> QED BY <3>2, <3>3, <3>4, <1>0, <1>8 DEF WriteEdit
  <2>4. RequestKnown'
    BY <1>0, <1>8 DEF WriteEdit, RequestKnown, Saving, Workers
  <2>5. BulkKnown'
    BY <1>0, <1>8 DEF WriteEdit, BulkKnown, Workers
  <2> QED BY <1>a, <2>1, <2>2, <2>3, <2>4, <2>5
<1>9. ASSUME NEW w \in Workers, SkipMismatch(w)
      PROVE  TInv'
  <2>1. TaskTypes'
    BY <1>0, <1>9 DEF SkipMismatch
  <2>2. RegistryTypes'
    BY <1>0, <1>9 DEF SkipMismatch, Registry, EmptyRegistry, Proposal, Status,
       RequestKnown, Workers
  <2>3. OtherTypes'
    BY <1>0, <1>9 DEF SkipMismatch, RequestKnown, Proposal, Workers
  <2>4. RequestKnown'
    BY <1>0, <1>9 DEF SkipMismatch, RequestKnown, Saving, Workers
  <2>5. BulkKnown'
    BY <1>0, <1>9 DEF SkipMismatch, BulkKnown, Workers
  <2> QED BY <1>a, <2>1, <2>2, <2>3, <2>4, <2>5
<1>10. ASSUME NEW w \in Workers, WriteRefused(w)
      PROVE  TInv'
  <2>1. TaskTypes'
    BY <1>0, <1>10 DEF WriteRefused
  <2>2. RegistryTypes'
    BY <1>0, <1>10 DEF WriteRefused, Registry, EmptyRegistry, Proposal, Status,
       RequestKnown, Workers
  <2>3. OtherTypes'
    <3>1. refused' \subseteq Calls \X Nat
      BY <1>0, <1>10, NextEdit DEF WriteRefused
    <3> QED BY <3>1, <1>0, <1>10 DEF WriteRefused
  <2>4. RequestKnown'
    BY <1>0, <1>10 DEF WriteRefused, RequestKnown, Saving, Workers
  <2>5. BulkKnown'
    BY <1>0, <1>10 DEF WriteRefused, BulkKnown, Workers
  <2> QED BY <1>a, <2>1, <2>2, <2>3, <2>4, <2>5
<1>11. ASSUME NEW w \in Workers, MarkApplied(w)
      PROVE  TInv'
  <2>1. TaskTypes'
    BY <1>0, <1>11 DEF MarkApplied, PC, Workers, Save, Answer, Insert, Goto
  <2>2. RegistryTypes'
    <3>1. w \in Workers /\ prop[w] \in Proposal /\ req[w] \in Reqs
      BY <1>0, <1>11 DEF MarkApplied, Workers, RequestKnown
    <3>2. [prop[w] EXCEPT !.status = "Applied"] \in Proposal
      BY <3>1 DEF Proposal, Status
    <3>3. proposals' = [proposals EXCEPT ![req[w]] = [prop[w] EXCEPT !.status = "Applied"]]
      BY <1>11 DEF MarkApplied, Insert
    <3>4. proposals' \in Registry
      BY <3>1, <3>2, <3>3, <1>0 DEF Registry
    <3> QED BY <3>4, <1>0, <1>11 DEF MarkApplied
  <2>3. OtherTypes'
    BY <1>0, <1>11 DEF MarkApplied, RequestKnown, Proposal, Workers, Save, Answer,
       Insert, Goto
  <2>4. RequestKnown'
    BY <1>0, <1>11 DEF MarkApplied, RequestKnown, Saving, Workers, Save, Answer,
       Insert, Goto
  <2>5. BulkKnown'
    BY <1>0, <1>11 DEF MarkApplied, BulkKnown, Workers, Save, Answer, Insert, Goto
  <2> QED BY <1>a, <2>1, <2>2, <2>3, <2>4, <2>5
<1>12. ASSUME NEW w \in Workers, MarkFailed(w)
      PROVE  TInv'
  <2>1. TaskTypes'
    BY <1>0, <1>12 DEF MarkFailed, PC, Workers, Save, Answer, Insert, Goto
  <2>2. RegistryTypes'
    <3>1. w \in Workers /\ prop[w] \in Proposal /\ req[w] \in Reqs
      BY <1>0, <1>12 DEF MarkFailed, Workers, RequestKnown
    <3>2. [prop[w] EXCEPT !.status = "Failed"] \in Proposal
      BY <3>1 DEF Proposal, Status
    <3>3. proposals' = [proposals EXCEPT ![req[w]] = [prop[w] EXCEPT !.status = "Failed"]]
      BY <1>12 DEF MarkFailed, Insert
    <3>4. proposals' \in Registry
      BY <3>1, <3>2, <3>3, <1>0 DEF Registry
    <3> QED BY <3>4, <1>0, <1>12 DEF MarkFailed
  <2>3. OtherTypes'
    BY <1>0, <1>12 DEF MarkFailed, RequestKnown, Proposal, Workers, Save, Answer,
       Insert, Goto
  <2>4. RequestKnown'
    BY <1>0, <1>12 DEF MarkFailed, RequestKnown, Saving, Workers, Save, Answer,
       Insert, Goto
  <2>5. BulkKnown'
    BY <1>0, <1>12 DEF MarkFailed, BulkKnown, Workers, Save, Answer, Insert, Goto
  <2> QED BY <1>a, <2>1, <2>2, <2>3, <2>4, <2>5
<1>13. ASSUME NEW w \in Workers, SpawnRescan(w)
      PROVE  TInv'
  <2>0. w \in Workers
    BY DEF Workers
  <2>1. TaskTypes'
    BY <2>0, <1>0, <1>13, ReturnTypes DEF SpawnRescan
  <2>2. RegistryTypes'
    BY <1>0, <1>13 DEF SpawnRescan
  <2>3. OtherTypes'
    BY <1>0, <1>13 DEF SpawnRescan
  <2>4. RequestKnown'
    <3>1. then'[w] = "return" /\ \A v \in Workers \ {w} : then'[v] = then[v]
      BY <2>0, <1>0, <1>13 DEF SpawnRescan, RequestKnown, Saving
    <3>2. Return(w)
      BY <1>13 DEF SpawnRescan
    <3> QED BY <2>0, <3>1, <3>2, ReturnKnown
  <2>5. BulkKnown'
    BY <2>0, <1>0, <1>13, ReturnTypes DEF SpawnRescan, BulkKnown, Workers
  <2> QED BY <1>a, <2>1, <2>2, <2>3, <2>4, <2>5
<1>14. ASSUME NEW w \in Workers, SaveSnapshot(w)
      PROVE  TInv'
  <2>1. TaskTypes'
    BY <1>0, <1>14 DEF SaveSnapshot, PC, Workers, Goto
  <2>2. RegistryTypes'
    BY <1>0, <1>14 DEF SaveSnapshot, Registry, EmptyRegistry, Proposal, Status,
       RequestKnown, Workers, Goto
  <2>3. OtherTypes'
    BY <1>0, <1>14 DEF SaveSnapshot, RequestKnown, Proposal, Workers, Goto
  <2>4. RequestKnown'
    BY <1>0, <1>14 DEF SaveSnapshot, RequestKnown, Saving, Workers, Goto
  <2>5. BulkKnown'
    BY <1>0, <1>14 DEF SaveSnapshot, BulkKnown, Workers, Goto
  <2> QED BY <1>a, <2>1, <2>2, <2>3, <2>4, <2>5
<1>15. ASSUME NEW w \in Workers, SaveTruncate(w)
      PROVE  TInv'
  <2>1. TaskTypes'
    BY <1>0, <1>15 DEF SaveTruncate, PC, Workers, Goto
  <2>2. RegistryTypes'
    BY <1>0, <1>15 DEF SaveTruncate, Registry, EmptyRegistry, Proposal, Status,
       RequestKnown, Workers, Goto
  <2>3. OtherTypes'
    BY <1>0, <1>15 DEF SaveTruncate, RequestKnown, Proposal, Workers, Goto
  <2>4. RequestKnown'
    BY <1>0, <1>15 DEF SaveTruncate, RequestKnown, Saving, Workers, Goto
  <2>5. BulkKnown'
    BY <1>0, <1>15 DEF SaveTruncate, BulkKnown, Workers, Goto
  <2> QED BY <1>a, <2>1, <2>2, <2>3, <2>4, <2>5
<1>16. ASSUME NEW w \in Workers, SaveFlush(w)
      PROVE  TInv'
  <2>0. w \in Workers
    BY DEF Workers
  <2>1. ASSUME then[w] = "return"
        PROVE  TaskTypes' /\ RequestKnown' /\ BulkKnown'
    <3>1. Return(w)
      BY <2>1, <1>16 DEF SaveFlush, NoProposal
    <3>2. TaskTypes'
      BY <2>0, <3>1, <1>0, <1>16, ReturnTypes DEF SaveFlush
    <3>3. RequestKnown'
      <4>1. then'[w] = "return" /\ \A v \in Workers \ {w} : then'[v] = then[v]
        BY <2>0, <1>0, <1>16 DEF SaveFlush, RequestKnown, Saving
      <4> QED BY <2>0, <3>1, <4>1, ReturnKnown
    <3>4. BulkKnown'
      BY <2>0, <3>1, <1>0, <1>16, ReturnTypes DEF SaveFlush, BulkKnown, Workers
    <3> QED BY <3>2, <3>3, <3>4
  <2>2. ASSUME ~(then[w] = "return")
        PROVE  TaskTypes' /\ RequestKnown' /\ BulkKnown'
    <3>1. TaskTypes'
      BY <2>0, <2>2, <1>0, <1>16 DEF SaveFlush, PC, Goto
    <3>2. RequestKnown'
      BY <2>0, <2>2, <1>0, <1>16 DEF SaveFlush, RequestKnown, Saving, Workers, Goto
    <3>3. BulkKnown'
      BY <2>0, <2>2, <1>0, <1>16 DEF SaveFlush, BulkKnown, Workers, Goto
    <3> QED BY <3>1, <3>2, <3>3
  <2>3. RegistryTypes'
    BY <1>0, <1>16 DEF SaveFlush, Registry, EmptyRegistry
  <2>4. OtherTypes'
    BY <1>0, <1>16 DEF SaveFlush, Goto
  <2> QED BY <1>a, <2>1, <2>2, <2>3, <2>4
<1>17. ASSUME NEW r \in Reqs, ApproveEdits(r)
      PROVE  TInv'
  <2>1. TaskTypes'
    BY <1>0, <1>17 DEF ApproveEdits, PC, Workers, Goto, UserCommand
  <2>2. RegistryTypes'
    BY <1>0, <1>17 DEF ApproveEdits, Registry, EmptyRegistry, Proposal, Status,
       RequestKnown, Workers, Goto, UserCommand
  <2>3. OtherTypes'
    BY <1>0, <1>17 DEF ApproveEdits, UserCommand
  <2>4. RequestKnown'
    BY <1>0, <1>17 DEF ApproveEdits, RequestKnown, Saving, Workers, Goto, UserCommand
  <2>5. BulkKnown'
    BY <1>0, <1>17 DEF ApproveEdits, BulkKnown, Workers, Goto, UserCommand
  <2> QED BY <1>a, <2>1, <2>2, <2>3, <2>4, <2>5
<1>18. ASSUME NEW r \in Reqs, DenyEdits(r)
      PROVE  TInv'
  <2>1. TaskTypes'
    BY <1>0, <1>18 DEF DenyEdits, PC, Workers, Goto, UserCommand
  <2>2. RegistryTypes'
    BY <1>0, <1>18 DEF DenyEdits, Registry, EmptyRegistry, Proposal, Status,
       RequestKnown, Workers, Goto, UserCommand
  <2>3. OtherTypes'
    BY <1>0, <1>18 DEF DenyEdits, UserCommand
  <2>4. RequestKnown'
    BY <1>0, <1>18 DEF DenyEdits, RequestKnown, Saving, Workers, Goto, UserCommand
  <2>5. BulkKnown'
    BY <1>0, <1>18 DEF DenyEdits, BulkKnown, Workers, Goto, UserCommand
  <2> QED BY <1>a, <2>1, <2>2, <2>3, <2>4, <2>5
<1>19. ASSUME DenyRead
      PROVE  TInv'
  <2>0. Commander \in Workers
    BY DEF Workers
  <2>1. ASSUME NoProposal(proposals[req[Commander]]) \/ proposals[req[Commander]].status \in {"Applied", "Denied"}
        PROVE  TaskTypes' /\ RequestKnown' /\ BulkKnown'
    <3>1. Return(Commander)
      BY <2>1, <1>19 DEF DenyRead, NoProposal
    <3>2. TaskTypes'
      BY <2>0, <3>1, <1>0, <1>19, ReturnTypes DEF DenyRead
    <3>3. RequestKnown'
      <4>1. then'[Commander] = "return" /\ \A v \in Workers \ {Commander} : then'[v] = then[v]
        BY <2>0, <1>0, <1>19 DEF DenyRead, RequestKnown, Saving
      <4> QED BY <2>0, <3>1, <4>1, ReturnKnown
    <3>4. BulkKnown'
      BY <2>0, <3>1, <1>0, <1>19, ReturnTypes DEF DenyRead, BulkKnown, Workers
    <3> QED BY <3>2, <3>3, <3>4
  <2>2. ASSUME ~(NoProposal(proposals[req[Commander]]) \/ proposals[req[Commander]].status \in {"Applied", "Denied"})
        PROVE  TaskTypes' /\ RequestKnown' /\ BulkKnown'
    <3>0. proposals[req[Commander]] \in Proposal
      BY <2>0, <2>2, <1>0, <1>19 DEF DenyRead, NoProposal, Registry, RequestKnown
    <3>1. TaskTypes'
      BY <3>0, <2>0, <2>2, <1>0, <1>19 DEF DenyRead, PC, Goto, NoProposal
    <3>2. RequestKnown'
      BY <3>0, <2>0, <2>2, <1>0, <1>19 DEF DenyRead, RequestKnown, Saving, Workers,
       Goto, NoProposal
    <3>3. BulkKnown'
      BY <3>0, <2>0, <2>2, <1>0, <1>19 DEF DenyRead, BulkKnown, Workers, Goto
    <3> QED BY <3>1, <3>2, <3>3
  <2>3. RegistryTypes'
    BY <1>0, <1>19 DEF DenyRead, Registry, EmptyRegistry
  <2>4. OtherTypes'
    BY <1>0, <1>19 DEF DenyRead, Goto
  <2> QED BY <1>a, <2>1, <2>2, <2>3, <2>4
<1>20. ASSUME MarkDenied
      PROVE  TInv'
  <2>1. TaskTypes'
    BY <1>0, <1>20 DEF MarkDenied, PC, Workers, Save, Answer, Insert, Goto
  <2>2. RegistryTypes'
    <3>1. Commander \in Workers /\ prop[Commander] \in Proposal /\ req[Commander] \in Reqs
      BY <1>0, <1>20 DEF MarkDenied, Workers, RequestKnown
    <3>2. [prop[Commander] EXCEPT !.status = "Denied"] \in Proposal
      BY <3>1 DEF Proposal, Status
    <3>3. proposals' = [proposals EXCEPT ![req[Commander]] = [prop[Commander] EXCEPT !.status = "Denied"]]
      BY <1>20 DEF MarkDenied, Insert
    <3>4. proposals' \in Registry
      BY <3>1, <3>2, <3>3, <1>0 DEF Registry
    <3> QED BY <3>4, <1>0, <1>20 DEF MarkDenied
  <2>3. OtherTypes'
    BY <1>0, <1>20 DEF MarkDenied, RequestKnown, Proposal, Workers, Save, Answer,
       Insert, Goto
  <2>4. RequestKnown'
    BY <1>0, <1>20 DEF MarkDenied, RequestKnown, Saving, Workers, Save, Answer,
       Insert, Goto
  <2>5. BulkKnown'
    BY <1>0, <1>20 DEF MarkDenied, BulkKnown, Workers, Save, Answer, Insert, Goto
  <2> QED BY <1>a, <2>1, <2>2, <2>3, <2>4, <2>5
<1>21. ASSUME ApprovePendingEdits
      PROVE  TInv'
  <2>1. TaskTypes'
    BY <1>0, <1>21 DEF ApprovePendingEdits, PC, Workers, Goto, UserCommand
  <2>2. RegistryTypes'
    BY <1>0, <1>21 DEF ApprovePendingEdits, Registry, EmptyRegistry, Proposal, Status,
       RequestKnown, Workers, Goto, UserCommand
  <2>3. OtherTypes'
    <3>1. PickNonOverlapping(Pending) \subseteq Pending /\ Pending \subseteq Calls
      BY <1>0, PendingApart, PickSound DEF StampType
    <3> QED BY <3>1, <1>0, <1>21 DEF ApprovePendingEdits, UserCommand, Goto
  <2>4. RequestKnown'
    BY <1>0, <1>21 DEF ApprovePendingEdits, RequestKnown, Saving, Workers, Goto,
       UserCommand
  <2>5. BulkKnown'
    BY <1>0, <1>21 DEF ApprovePendingEdits, BulkKnown, Workers, Goto, UserCommand
  <2> QED BY <1>a, <2>1, <2>2, <2>3, <2>4, <2>5
<1>22. ASSUME MarkStale
      PROVE  TInv'
  <2>1. TaskTypes'
    BY <1>0, <1>22 DEF MarkStale, PC, Workers, Goto
  <2>2. RegistryTypes'
    <3>1. \A r \in Reqs : proposals'[r] \in Proposal \cup {None}
      BY <1>0, <1>22 DEF MarkStale, Registry, Proposal, Status, NoProposal
    <3>2. proposals' \in Registry
      BY <3>1, <1>22 DEF MarkStale, Registry
    <3> QED BY <3>2, <1>0, <1>22 DEF MarkStale
  <2>3. OtherTypes'
    BY <1>0, <1>22 DEF MarkStale, RequestKnown, Proposal, Workers, Goto
  <2>4. RequestKnown'
    BY <1>0, <1>22 DEF MarkStale, RequestKnown, Saving, Workers, Goto
  <2>5. BulkKnown'
    BY <1>0, <1>22 DEF MarkStale, BulkKnown, Workers, Goto
  <2> QED BY <1>a, <2>1, <2>2, <2>3, <2>4, <2>5
<1>23. ASSUME DenyPendingEdits
      PROVE  TInv'
  <2>1. TaskTypes'
    BY <1>0, <1>23 DEF DenyPendingEdits, PC, Workers, Goto, UserCommand
  <2>2. RegistryTypes'
    BY <1>0, <1>23 DEF DenyPendingEdits, Registry, EmptyRegistry, Proposal, Status,
       RequestKnown, Workers, Goto, UserCommand
  <2>3. OtherTypes'
    <3>1. Pending \subseteq Calls
      BY DEF Pending
    <3> QED BY <3>1, <1>0, <1>23 DEF DenyPendingEdits, UserCommand, Goto
  <2>4. RequestKnown'
    BY <1>0, <1>23 DEF DenyPendingEdits, RequestKnown, Saving, Workers, Goto,
       UserCommand
  <2>5. BulkKnown'
    BY <1>0, <1>23 DEF DenyPendingEdits, BulkKnown, Workers, Goto, UserCommand
  <2> QED BY <1>a, <2>1, <2>2, <2>3, <2>4, <2>5
<1>24. ASSUME NEW c \in Calls, BulkNext(c)
      PROVE  TInv'
  <2>1. TaskTypes'
    BY <1>0, <1>24 DEF BulkNext, PC, Workers, BulkKnown, Goto
  <2>2. RegistryTypes'
    BY <1>0, <1>24 DEF BulkNext, Registry, EmptyRegistry, Proposal, Status,
       RequestKnown, Workers, Goto
  <2>3. OtherTypes'
    BY <1>0, <1>24 DEF BulkNext, RequestKnown, Proposal, Workers, Goto
  <2>4. RequestKnown'
    BY <1>0, <1>24 DEF BulkNext, RequestKnown, BulkKnown, Saving, Workers, Goto
  <2>5. BulkKnown'
    BY <1>0, <1>24 DEF BulkNext, BulkKnown, Workers, Goto
  <2> QED BY <1>a, <2>1, <2>2, <2>3, <2>4, <2>5
<1>25. ASSUME BulkEnd
      PROVE  TInv'
  <2>1. TaskTypes'
    BY <1>0, <1>25 DEF BulkEnd, PC, Workers, Goto, Save
  <2>2. RegistryTypes'
    BY <1>0, <1>25 DEF BulkEnd, Registry, EmptyRegistry, Proposal, Status,
       RequestKnown, Workers, Goto, Save
  <2>3. OtherTypes'
    BY <1>0, <1>25 DEF BulkEnd, RequestKnown, Proposal, Workers, Goto, Save
  <2>4. RequestKnown'
    <3>1. CASE bulk = "approve"
      BY <3>1, <1>0, <1>25 DEF BulkEnd, Save, Goto, RequestKnown, Saving, Workers
    <3>2. CASE bulk # "approve"
      BY <3>2, <1>0, <1>25 DEF BulkEnd, Goto, RequestKnown, Saving, Workers
    <3> QED BY <3>1, <3>2
  <2>5. BulkKnown'
    BY <1>0, <1>25 DEF BulkEnd, BulkKnown, Workers, Goto, Save
  <2> QED BY <1>a, <2>1, <2>2, <2>3, <2>4, <2>5
<1>26. ASSUME Rescan
      PROVE  TInv'
  <2>1. TaskTypes'
    BY <1>0, <1>26 DEF Rescan, PC, Workers
  <2>2. RegistryTypes'
    BY <1>0, <1>26 DEF Rescan, Registry, EmptyRegistry, Proposal, Status,
       RequestKnown, Workers
  <2>3. OtherTypes'
    BY <1>0, <1>26 DEF Rescan, RequestKnown, Proposal, Workers
  <2>4. RequestKnown'
    BY <1>0, <1>26 DEF Rescan, RequestKnown, Saving, Workers
  <2>5. BulkKnown'
    BY <1>0, <1>26 DEF Rescan, BulkKnown, Workers
  <2> QED BY <1>a, <2>1, <2>2, <2>3, <2>4, <2>5
<1>27. ASSUME NEW f \in Files, ExternalEdit(f)
      PROVE  TInv'
  <2>1. TaskTypes'
    BY <1>0, <1>27 DEF ExternalEdit, PC, Workers
  <2>2. RegistryTypes'
    BY <1>0, <1>27 DEF ExternalEdit, Registry, EmptyRegistry, Proposal, Status,
       RequestKnown, Workers
  <2>3. OtherTypes'
    <3>1. ver' \in [Files -> Nat]
      BY <1>0, <1>27 DEF ExternalEdit
    <3> QED BY <3>1, <1>0, <1>27 DEF ExternalEdit
  <2>4. RequestKnown'
    BY <1>0, <1>27 DEF ExternalEdit, RequestKnown, Saving, Workers
  <2>5. BulkKnown'
    BY <1>0, <1>27 DEF ExternalEdit, BulkKnown, Workers
  <2> QED BY <1>a, <2>1, <2>2, <2>3, <2>4, <2>5
<1>28. ASSUME CrashAndRestart
      PROVE  TInv'
  <2>1. TaskTypes'
    BY <1>0, <1>28 DEF CrashAndRestart, PC, Workers
  <2>2. RegistryTypes'
    BY <1>0, <1>28 DEF CrashAndRestart, Registry, EmptyRegistry, Proposal, Status,
       RequestKnown, Workers
  <2>3. OtherTypes'
    <3>1. crashes' = crashes + 1 /\ rescan' = FALSE /\ guard' = None
      BY <1>28 DEF CrashAndRestart
    <3>2. bulk' = "none" /\ todo' = {} /\ toStale' = {}
      BY <1>28 DEF CrashAndRestart
    <3>3. UNCHANGED <<fileVars, dbVer, callVars, answer, commands>>
      BY <1>28 DEF CrashAndRestart
    <3>4. crashes' \in Nat
      BY <3>1, <1>0
    <3>5. rescan' \in BOOLEAN
      BY <3>1
    <3>6. todo' \subseteq Calls /\ toStale' \subseteq Calls
      BY <3>2
    <3> QED BY <3>1, <3>2, <3>3, <3>4, <3>5, <3>6, <1>0
  <2>4. RequestKnown'
    BY <1>0, <1>28 DEF CrashAndRestart, RequestKnown, Saving, Workers
  <2>5. BulkKnown'
    BY <1>0, <1>28 DEF CrashAndRestart, BulkKnown, Workers
  <2> QED BY <1>a, <2>1, <2>2, <2>3, <2>4, <2>5
<1> QED BY <1>1, <1>2, <1>3, <1>4, <1>5, <1>6, <1>7, <1>8, <1>9, <1>10, <1>11, <1>12,
       <1>13, <1>14, <1>15, <1>16, <1>17, <1>18, <1>19, <1>20, <1>21, <1>22, <1>23,
       <1>24, <1>25, <1>26, <1>27, <1>28 DEF Next, Stage, Approve, SaveProposals,
       Command, Handle

\* What a step does to files, hashes and histories.
FileStep ==
  \/ UNCHANGED <<ver, dbVer, expected, landed, twice, refused>>
  \/ \E c \in Calls : ResolveEdits(c)
  \/ \E w \in Workers : WriteEdit(w) \/ WriteRefused(w)
  \/ Rescan
  \/ \E f \in Files : ExternalEdit(f)

LEMMA FileSteps ==
  ASSUME TInv, Next
  PROVE  FileStep
<1> USE DEF taskVars, bulkVars, fileVars, callVars
<1>1. ASSUME NEW c \in Calls, ToolCallRequested(c) PROVE FileStep
    BY <1>1 DEF FileStep, ToolCallRequested
<1>2. ASSUME NEW c \in Calls, CheckDuplicate(c) PROVE FileStep
    BY <1>2 DEF FileStep, CheckDuplicate
<1>3. ASSUME NEW c \in Calls, StagingFails(c) PROVE FileStep
    BY <1>3 DEF FileStep, StagingFails
<1>4. ASSUME NEW c \in Calls, ResolveEdits(c) PROVE FileStep
    BY <1>4 DEF FileStep
<1>5. ASSUME NEW c \in Calls, StageProposal(c) PROVE FileStep
    BY <1>5 DEF FileStep, StageProposal
<1>6. ASSUME NEW c \in Calls, AnnounceStaged(c) PROVE FileStep
    BY <1>6 DEF FileStep, AnnounceStaged
<1>7. ASSUME NEW w \in Workers, ApproveRead(w) PROVE FileStep
    BY <1>7 DEF FileStep, ApproveRead
<1>8. ASSUME NEW w \in Workers, WriteEdit(w) PROVE FileStep
    BY <1>8 DEF FileStep
<1>9. ASSUME NEW w \in Workers, SkipMismatch(w) PROVE FileStep
    BY <1>9 DEF FileStep, SkipMismatch
<1>10. ASSUME NEW w \in Workers, WriteRefused(w) PROVE FileStep
    BY <1>10 DEF FileStep
<1>11. ASSUME NEW w \in Workers, MarkApplied(w) PROVE FileStep
    BY <1>11 DEF FileStep, MarkApplied
<1>12. ASSUME NEW w \in Workers, MarkFailed(w) PROVE FileStep
    BY <1>12 DEF FileStep, MarkFailed
<1>13. ASSUME NEW w \in Workers, SpawnRescan(w) PROVE FileStep
    BY <1>13 DEF FileStep, SpawnRescan
<1>14. ASSUME NEW w \in Workers, SaveSnapshot(w) PROVE FileStep
    BY <1>14 DEF FileStep, SaveSnapshot
<1>15. ASSUME NEW w \in Workers, SaveTruncate(w) PROVE FileStep
    BY <1>15 DEF FileStep, SaveTruncate
<1>16. ASSUME NEW w \in Workers, SaveFlush(w) PROVE FileStep
    BY <1>16 DEF FileStep, SaveFlush
<1>17. ASSUME NEW r \in Reqs, ApproveEdits(r) PROVE FileStep
    BY <1>17 DEF FileStep, ApproveEdits
<1>18. ASSUME NEW r \in Reqs, DenyEdits(r) PROVE FileStep
    BY <1>18 DEF FileStep, DenyEdits
<1>19. ASSUME DenyRead PROVE FileStep
    BY <1>19 DEF FileStep, DenyRead
<1>20. ASSUME MarkDenied PROVE FileStep
    BY <1>20 DEF FileStep, MarkDenied
<1>21. ASSUME ApprovePendingEdits PROVE FileStep
    BY <1>21 DEF FileStep, ApprovePendingEdits
<1>22. ASSUME MarkStale PROVE FileStep
    BY <1>22 DEF FileStep, MarkStale
<1>23. ASSUME DenyPendingEdits PROVE FileStep
    BY <1>23 DEF FileStep, DenyPendingEdits
<1>24. ASSUME NEW c \in Calls, BulkNext(c) PROVE FileStep
    BY <1>24 DEF FileStep, BulkNext
<1>25. ASSUME BulkEnd PROVE FileStep
    BY <1>25 DEF FileStep, BulkEnd
<1>26. ASSUME Rescan PROVE FileStep
    BY <1>26 DEF FileStep
<1>27. ASSUME NEW f \in Files, ExternalEdit(f) PROVE FileStep
    BY <1>27 DEF FileStep
<1>28. ASSUME CrashAndRestart PROVE FileStep
    BY <1>28 DEF FileStep, CrashAndRestart
<1> QED BY <1>1, <1>2, <1>3, <1>4, <1>5, <1>6, <1>7, <1>8, <1>9, <1>10, <1>11, <1>12,
       <1>13, <1>14, <1>15, <1>16, <1>17, <1>18, <1>19, <1>20, <1>21, <1>22, <1>23,
       <1>24, <1>25, <1>26, <1>27, <1>28 DEF Next, Stage, Approve, SaveProposals,
       Command, Handle, FileStep

\* A call that has staged its proposal never returns to staging it.
NoRestaging == \A c \in Calls : pc'[c] \in Early => pc[c] \in Early

LEMMA EarlyBack ==
  ASSUME TInv, Next
  PROVE  NoRestaging
<1> USE DEF taskVars, bulkVars, fileVars, callVars
<1>0. TaskTypes /\ RequestKnown /\ BulkKnown
    BY TypeParts DEF TInv
<1> USE DEF TaskTypes
<1>1. ASSUME NEW c \in Calls, ToolCallRequested(c) PROVE NoRestaging
    BY <1>0, <1>1, ConstantsAssumption DEF NoRestaging, ToolCallRequested, Early,
       Workers, Goto
<1>2. ASSUME NEW c \in Calls, CheckDuplicate(c) PROVE NoRestaging
    BY <1>0, <1>2, ConstantsAssumption DEF NoRestaging, CheckDuplicate, Early,
       Workers, Goto, Return, Answer
<1>3. ASSUME NEW c \in Calls, StagingFails(c) PROVE NoRestaging
  <2>1. c \in Workers /\ Return(c)
    BY <1>3 DEF StagingFails, Workers
  <2> QED BY <2>1, ReturnTypes, ConstantsAssumption DEF NoRestaging, Early, Workers
<1>4. ASSUME NEW c \in Calls, ResolveEdits(c) PROVE NoRestaging
    BY <1>0, <1>4, ConstantsAssumption DEF NoRestaging, ResolveEdits, Early,
       Workers, Goto
<1>5. ASSUME NEW c \in Calls, StageProposal(c) PROVE NoRestaging
    BY <1>0, <1>5, ConstantsAssumption DEF NoRestaging, StageProposal, Early,
       Workers, Save, Goto
<1>6. ASSUME NEW c \in Calls, AnnounceStaged(c) PROVE NoRestaging
    BY <1>0, <1>6, ConstantsAssumption DEF NoRestaging, AnnounceStaged, Early,
       Workers, Goto, Return, Answer
<1>7. ASSUME NEW w \in Workers, ApproveRead(w) PROVE NoRestaging
    BY <1>0, <1>7, ConstantsAssumption DEF NoRestaging, ApproveRead, Early, Workers,
       Goto, Return
<1>8. ASSUME NEW w \in Workers, WriteEdit(w) PROVE NoRestaging
    BY <1>8 DEF NoRestaging, WriteEdit
<1>9. ASSUME NEW w \in Workers, SkipMismatch(w) PROVE NoRestaging
    BY <1>9 DEF NoRestaging, SkipMismatch
<1>10. ASSUME NEW w \in Workers, WriteRefused(w) PROVE NoRestaging
    BY <1>10 DEF NoRestaging, WriteRefused
<1>11. ASSUME NEW w \in Workers, MarkApplied(w) PROVE NoRestaging
    BY <1>0, <1>11, ConstantsAssumption DEF NoRestaging, MarkApplied, Early,
       Workers, Save, Answer, Insert, Goto
<1>12. ASSUME NEW w \in Workers, MarkFailed(w) PROVE NoRestaging
    BY <1>0, <1>12, ConstantsAssumption DEF NoRestaging, MarkFailed, Early, Workers,
       Save, Answer, Insert, Goto
<1>13. ASSUME NEW w \in Workers, SpawnRescan(w) PROVE NoRestaging
  <2>1. w \in Workers /\ Return(w)
    BY <1>13 DEF SpawnRescan, Workers
  <2> QED BY <2>1, ReturnTypes, ConstantsAssumption DEF NoRestaging, Early, Workers
<1>14. ASSUME NEW w \in Workers, SaveSnapshot(w) PROVE NoRestaging
    BY <1>0, <1>14, ConstantsAssumption DEF NoRestaging, SaveSnapshot, Early,
       Workers, Goto
<1>15. ASSUME NEW w \in Workers, SaveTruncate(w) PROVE NoRestaging
    BY <1>0, <1>15, ConstantsAssumption DEF NoRestaging, SaveTruncate, Early,
       Workers, Goto
<1>16. ASSUME NEW w \in Workers, SaveFlush(w) PROVE NoRestaging
    BY <1>0, <1>16, ConstantsAssumption DEF NoRestaging, SaveFlush, Early, Workers,
       Goto, Return
<1>17. ASSUME NEW r \in Reqs, ApproveEdits(r) PROVE NoRestaging
    BY <1>0, <1>17, ConstantsAssumption DEF NoRestaging, ApproveEdits, Early,
       Workers, Goto, UserCommand
<1>18. ASSUME NEW r \in Reqs, DenyEdits(r) PROVE NoRestaging
    BY <1>0, <1>18, ConstantsAssumption DEF NoRestaging, DenyEdits, Early, Workers,
       Goto, UserCommand
<1>19. ASSUME DenyRead PROVE NoRestaging
    BY <1>0, <1>19, ConstantsAssumption DEF NoRestaging, DenyRead, Early, Workers,
       Goto, Return
<1>20. ASSUME MarkDenied PROVE NoRestaging
    BY <1>0, <1>20, ConstantsAssumption DEF NoRestaging, MarkDenied, Early, Workers,
       Save, Answer, Insert, Goto
<1>21. ASSUME ApprovePendingEdits PROVE NoRestaging
    BY <1>0, <1>21, ConstantsAssumption DEF NoRestaging, ApprovePendingEdits, Early,
       Workers, Goto, UserCommand
<1>22. ASSUME MarkStale PROVE NoRestaging
    BY <1>0, <1>22, ConstantsAssumption DEF NoRestaging, MarkStale, Early, Workers,
       Goto
<1>23. ASSUME DenyPendingEdits PROVE NoRestaging
    BY <1>0, <1>23, ConstantsAssumption DEF NoRestaging, DenyPendingEdits, Early,
       Workers, Goto, UserCommand
<1>24. ASSUME NEW c \in Calls, BulkNext(c) PROVE NoRestaging
    BY <1>0, <1>24, ConstantsAssumption DEF NoRestaging, BulkNext, Early, Workers,
       Goto
<1>25. ASSUME BulkEnd PROVE NoRestaging
    BY <1>0, <1>25, ConstantsAssumption DEF NoRestaging, BulkEnd, Early, Workers,
       Goto, Save
<1>26. ASSUME Rescan PROVE NoRestaging
    BY <1>26 DEF NoRestaging, Rescan
<1>27. ASSUME NEW f \in Files, ExternalEdit(f) PROVE NoRestaging
    BY <1>27 DEF NoRestaging, ExternalEdit
<1>28. ASSUME CrashAndRestart PROVE NoRestaging
  <2>1. \A c \in Calls : pc'[c] = IF pc[c] = "idle" THEN "idle" ELSE "done"
    BY <1>28, ConstantsAssumption DEF CrashAndRestart, Workers
  <2> QED BY <2>1 DEF NoRestaging, Early
<1> QED BY <1>1, <1>2, <1>3, <1>4, <1>5, <1>6, <1>7, <1>8, <1>9, <1>10, <1>11, <1>12,
       <1>13, <1>14, <1>15, <1>16, <1>17, <1>18, <1>19, <1>20, <1>21, <1>22, <1>23,
       <1>24, <1>25, <1>26, <1>27, <1>28 DEF Next, Stage, Approve, SaveProposals,
       Command, Handle, NoRestaging

\* A new copy of a proposal is made from a copy, or by the call that stages it.
CopiesFromCopies == \A c \in Calls : Copied(c)' => Copied(c) \/ pc'[c] \notin Early

LEMMA CopyStep ==
  ASSUME TInv, Next
  PROVE  CopiesFromCopies
<1> USE DEF taskVars, bulkVars, fileVars, callVars
<1>0. TaskTypes /\ RegistryTypes /\ RequestKnown /\ BulkKnown
    BY TypeParts DEF TInv
<1> USE DEF TaskTypes, RegistryTypes, RequestKnown
<1>1. ASSUME NEW c \in Calls, ToolCallRequested(c) PROVE CopiesFromCopies
    BY <1>1 DEF CopiesFromCopies, Copied, HeldIn, ToolCallRequested
<1>2. ASSUME NEW c \in Calls, CheckDuplicate(c) PROVE CopiesFromCopies
    BY <1>0, <1>2, ConstantsAssumption DEF CopiesFromCopies, Copied, HeldIn,
       CheckDuplicate, NoProposal, Proposal, Registry, EmptyRegistry, Early, Workers,
       Goto, Return, Answer
<1>3. ASSUME NEW c \in Calls, StagingFails(c) PROVE CopiesFromCopies
    BY <1>0, <1>3, ConstantsAssumption DEF CopiesFromCopies, Copied, HeldIn, StagingFails,
       NoProposal, Proposal, Registry, EmptyRegistry, Early, Workers, Return, Answer
<1>4. ASSUME NEW c \in Calls, ResolveEdits(c) PROVE CopiesFromCopies
    BY <1>4 DEF CopiesFromCopies, Copied, HeldIn, ResolveEdits
<1>5. ASSUME NEW c \in Calls, StageProposal(c) PROVE CopiesFromCopies
    BY <1>0, <1>5, ConstantsAssumption DEF CopiesFromCopies, Copied, HeldIn,
       StageProposal, NoProposal, Proposal, Registry, EmptyRegistry, Early, Workers,
       Save, Goto
<1>6. ASSUME NEW c \in Calls, AnnounceStaged(c) PROVE CopiesFromCopies
    BY <1>0, <1>6, ConstantsAssumption DEF CopiesFromCopies, Copied, HeldIn,
       AnnounceStaged, NoProposal, Proposal, Registry, EmptyRegistry, Early, Workers,
       Goto, Return, Answer
<1>7. ASSUME NEW w \in Workers, ApproveRead(w) PROVE CopiesFromCopies
  <2>1. w \in Workers /\ req[w] \in Reqs
    BY <1>0, <1>7 DEF ApproveRead, Workers
  <2>2. UNCHANGED <<proposals, snap, disk>>
    BY <1>7 DEF ApproveRead
  <2>3. \/ prop' = [prop EXCEPT ![w] = None]
        \/ prop' = [prop EXCEPT ![w] = proposals[req[w]]]
    BY <1>7 DEF ApproveRead, Return
  <2>4. \A v \in Workers : prop'[v] \in {prop[v], None, proposals[req[w]]}
    BY <2>1, <2>3, <1>0
  <2> QED BY <2>1, <2>2, <2>4 DEF CopiesFromCopies, Copied, HeldIn
<1>8. ASSUME NEW w \in Workers, WriteEdit(w) PROVE CopiesFromCopies
    BY <1>8 DEF CopiesFromCopies, Copied, HeldIn, WriteEdit
<1>9. ASSUME NEW w \in Workers, SkipMismatch(w) PROVE CopiesFromCopies
    BY <1>9 DEF CopiesFromCopies, Copied, HeldIn, SkipMismatch
<1>10. ASSUME NEW w \in Workers, WriteRefused(w) PROVE CopiesFromCopies
    BY <1>10 DEF CopiesFromCopies, Copied, HeldIn, WriteRefused
<1>11. ASSUME NEW w \in Workers, MarkApplied(w) PROVE CopiesFromCopies
  <2>1. w \in Workers /\ prop[w] \in Proposal /\ prop[w] # None /\ req[w] \in Reqs
    BY <1>0, <1>11, NoneAssumption DEF MarkApplied, Workers
  <2>2. proposals' = [proposals EXCEPT ![req[w]] = [prop[w] EXCEPT !.status = "Applied"]]
    BY <1>11 DEF MarkApplied, Insert
  <2>3. UNCHANGED <<snap, disk, prop>>
    BY <1>11 DEF MarkApplied
  <2>4. \A c \in Calls : HeldIn(proposals', c) => HeldIn(proposals, c) \/ prop[w].call = c
    BY <2>1, <2>2, <1>0 DEF HeldIn, Registry, Proposal
  <2> QED BY <2>1, <2>3, <2>4 DEF CopiesFromCopies, Copied, HeldIn
<1>12. ASSUME NEW w \in Workers, MarkFailed(w) PROVE CopiesFromCopies
  <2>1. w \in Workers /\ prop[w] \in Proposal /\ prop[w] # None /\ req[w] \in Reqs
    BY <1>0, <1>12, NoneAssumption DEF MarkFailed, Workers
  <2>2. proposals' = [proposals EXCEPT ![req[w]] = [prop[w] EXCEPT !.status = "Failed"]]
    BY <1>12 DEF MarkFailed, Insert
  <2>3. UNCHANGED <<snap, disk, prop>>
    BY <1>12 DEF MarkFailed
  <2>4. \A c \in Calls : HeldIn(proposals', c) => HeldIn(proposals, c) \/ prop[w].call = c
    BY <2>1, <2>2, <1>0 DEF HeldIn, Registry, Proposal
  <2> QED BY <2>1, <2>3, <2>4 DEF CopiesFromCopies, Copied, HeldIn
<1>13. ASSUME NEW w \in Workers, SpawnRescan(w) PROVE CopiesFromCopies
    BY <1>0, <1>13, ConstantsAssumption DEF CopiesFromCopies, Copied, HeldIn, SpawnRescan,
       NoProposal, Proposal, Registry, EmptyRegistry, Early, Workers, Return
<1>14. ASSUME NEW w \in Workers, SaveSnapshot(w) PROVE CopiesFromCopies
    BY <1>0, <1>14, ConstantsAssumption DEF CopiesFromCopies, Copied, HeldIn,
       SaveSnapshot, NoProposal, Proposal, Registry, EmptyRegistry, Early, Workers,
       Goto
<1>15. ASSUME NEW w \in Workers, SaveTruncate(w) PROVE CopiesFromCopies
    BY <1>0, <1>15, ConstantsAssumption DEF CopiesFromCopies, Copied, HeldIn,
       SaveTruncate, NoProposal, Proposal, Registry, EmptyRegistry, Early, Workers,
       Goto
<1>16. ASSUME NEW w \in Workers, SaveFlush(w) PROVE CopiesFromCopies
    BY <1>0, <1>16, ConstantsAssumption DEF CopiesFromCopies, Copied, HeldIn, SaveFlush,
       NoProposal, Proposal, Registry, EmptyRegistry, Early, Workers, Goto, Return
<1>17. ASSUME NEW r \in Reqs, ApproveEdits(r) PROVE CopiesFromCopies
    BY <1>17 DEF CopiesFromCopies, Copied, HeldIn, ApproveEdits, UserCommand
<1>18. ASSUME NEW r \in Reqs, DenyEdits(r) PROVE CopiesFromCopies
    BY <1>18 DEF CopiesFromCopies, Copied, HeldIn, DenyEdits, UserCommand
<1>19. ASSUME DenyRead PROVE CopiesFromCopies
  <2>1. Commander \in Workers /\ req[Commander] \in Reqs
    BY <1>0, <1>19 DEF DenyRead, Workers
  <2>2. UNCHANGED <<proposals, snap, disk>>
    BY <1>19 DEF DenyRead
  <2>3. \/ prop' = [prop EXCEPT ![Commander] = None]
        \/ prop' = [prop EXCEPT ![Commander] = proposals[req[Commander]]]
    BY <1>19 DEF DenyRead, Return
  <2>4. \A v \in Workers : prop'[v] \in {prop[v], None, proposals[req[Commander]]}
    BY <2>1, <2>3, <1>0
  <2> QED BY <2>1, <2>2, <2>4 DEF CopiesFromCopies, Copied, HeldIn
<1>20. ASSUME MarkDenied PROVE CopiesFromCopies
  <2>1. Commander \in Workers /\ prop[Commander] \in Proposal /\ prop[Commander] # None /\ req[Commander] \in Reqs
    BY <1>0, <1>20, NoneAssumption DEF MarkDenied, Workers
  <2>2. proposals' = [proposals EXCEPT ![req[Commander]] = [prop[Commander] EXCEPT !.status = "Denied"]]
    BY <1>20 DEF MarkDenied, Insert
  <2>3. UNCHANGED <<snap, disk, prop>>
    BY <1>20 DEF MarkDenied
  <2>4. \A c \in Calls : HeldIn(proposals', c) => HeldIn(proposals, c) \/ prop[Commander].call = c
    BY <2>1, <2>2, <1>0 DEF HeldIn, Registry, Proposal
  <2> QED BY <2>1, <2>3, <2>4 DEF CopiesFromCopies, Copied, HeldIn
<1>21. ASSUME ApprovePendingEdits PROVE CopiesFromCopies
    BY <1>21 DEF CopiesFromCopies, Copied, HeldIn, ApprovePendingEdits, UserCommand
<1>22. ASSUME MarkStale PROVE CopiesFromCopies
    BY <1>0, <1>22, ConstantsAssumption DEF CopiesFromCopies, Copied, HeldIn, MarkStale,
       NoProposal, Proposal, Registry, EmptyRegistry, Early, Workers, Goto
<1>23. ASSUME DenyPendingEdits PROVE CopiesFromCopies
    BY <1>23 DEF CopiesFromCopies, Copied, HeldIn, DenyPendingEdits, UserCommand
<1>24. ASSUME NEW c \in Calls, BulkNext(c) PROVE CopiesFromCopies
    BY <1>24 DEF CopiesFromCopies, Copied, HeldIn, BulkNext
<1>25. ASSUME BulkEnd PROVE CopiesFromCopies
    BY <1>25 DEF CopiesFromCopies, Copied, HeldIn, BulkEnd
<1>26. ASSUME Rescan PROVE CopiesFromCopies
    BY <1>26 DEF CopiesFromCopies, Copied, HeldIn, Rescan
<1>27. ASSUME NEW f \in Files, ExternalEdit(f) PROVE CopiesFromCopies
    BY <1>27 DEF CopiesFromCopies, Copied, HeldIn, ExternalEdit
<1>28. ASSUME CrashAndRestart PROVE CopiesFromCopies
    BY <1>0, <1>28, ConstantsAssumption DEF CopiesFromCopies, Copied, HeldIn,
       CrashAndRestart, NoProposal, Proposal, Registry, EmptyRegistry, Early, Workers
<1> QED BY <1>1, <1>2, <1>3, <1>4, <1>5, <1>6, <1>7, <1>8, <1>9, <1>10, <1>11, <1>12,
       <1>13, <1>14, <1>15, <1>16, <1>17, <1>18, <1>19, <1>20, <1>21, <1>22, <1>23,
       <1>24, <1>25, <1>26, <1>27, <1>28 DEF Next, Stage, Approve, SaveProposals,
       Command, Handle, CopiesFromCopies

\* Only MarkApplied makes an Applied proposal of one that was not.
AppliedOnlyByMark ==
  \A c \in Calls : AppliedSomewhere(c)' =>
    \/ AppliedSomewhere(c)
    \/ \E w \in Workers : MarkApplied(w) /\ prop[w].call = c

LEMMA AppliedStep ==
  ASSUME TInv, Next
  PROVE  AppliedOnlyByMark
<1> USE DEF taskVars, bulkVars, fileVars, callVars
<1>0. TaskTypes /\ RegistryTypes /\ RequestKnown /\ BulkKnown
    BY TypeParts DEF TInv
<1> USE DEF TaskTypes, RegistryTypes, RequestKnown
<1>1. ASSUME NEW c \in Calls, ToolCallRequested(c) PROVE AppliedOnlyByMark
    BY <1>1 DEF AppliedOnlyByMark, AppliedSomewhere, AppliedIn, ToolCallRequested
<1>2. ASSUME NEW c \in Calls, CheckDuplicate(c) PROVE AppliedOnlyByMark
    BY <1>0, <1>2, ConstantsAssumption DEF AppliedOnlyByMark, AppliedSomewhere,
       AppliedIn, CheckDuplicate, NoProposal, Proposal, Registry, EmptyRegistry,
       Workers, Goto, Return, Answer
<1>3. ASSUME NEW c \in Calls, StagingFails(c) PROVE AppliedOnlyByMark
    BY <1>0, <1>3, ConstantsAssumption DEF AppliedOnlyByMark, AppliedSomewhere,
       AppliedIn, StagingFails, NoProposal, Proposal, Registry, EmptyRegistry,
       Workers, Return, Answer
<1>4. ASSUME NEW c \in Calls, ResolveEdits(c) PROVE AppliedOnlyByMark
    BY <1>4 DEF AppliedOnlyByMark, AppliedSomewhere, AppliedIn, ResolveEdits
<1>5. ASSUME NEW c \in Calls, StageProposal(c) PROVE AppliedOnlyByMark
    BY <1>0, <1>5, ConstantsAssumption DEF AppliedOnlyByMark, AppliedSomewhere,
       AppliedIn, StageProposal, NoProposal, Proposal, Registry, EmptyRegistry,
       Workers, Save, Goto
<1>6. ASSUME NEW c \in Calls, AnnounceStaged(c) PROVE AppliedOnlyByMark
    BY <1>0, <1>6, ConstantsAssumption DEF AppliedOnlyByMark, AppliedSomewhere,
       AppliedIn, AnnounceStaged, NoProposal, Proposal, Registry, EmptyRegistry,
       Workers, Goto, Return, Answer
<1>7. ASSUME NEW w \in Workers, ApproveRead(w) PROVE AppliedOnlyByMark
    BY <1>0, <1>7, ConstantsAssumption DEF AppliedOnlyByMark, AppliedSomewhere,
       AppliedIn, ApproveRead, NoProposal, Proposal, Registry, EmptyRegistry, Workers,
       Goto, Return
<1>8. ASSUME NEW w \in Workers, WriteEdit(w) PROVE AppliedOnlyByMark
    BY <1>8 DEF AppliedOnlyByMark, AppliedSomewhere, AppliedIn, WriteEdit
<1>9. ASSUME NEW w \in Workers, SkipMismatch(w) PROVE AppliedOnlyByMark
    BY <1>9 DEF AppliedOnlyByMark, AppliedSomewhere, AppliedIn, SkipMismatch
<1>10. ASSUME NEW w \in Workers, WriteRefused(w) PROVE AppliedOnlyByMark
    BY <1>10 DEF AppliedOnlyByMark, AppliedSomewhere, AppliedIn, WriteRefused
<1>11. ASSUME NEW w \in Workers, MarkApplied(w) PROVE AppliedOnlyByMark
    BY <1>0, <1>11, ConstantsAssumption DEF AppliedOnlyByMark, AppliedSomewhere,
       AppliedIn, MarkApplied, NoProposal, Proposal, Registry, EmptyRegistry, Workers,
       Save, Answer, Insert, Goto
<1>12. ASSUME NEW w \in Workers, MarkFailed(w) PROVE AppliedOnlyByMark
    BY <1>0, <1>12, ConstantsAssumption DEF AppliedOnlyByMark, AppliedSomewhere,
       AppliedIn, MarkFailed, NoProposal, Proposal, Registry, EmptyRegistry, Workers,
       Save, Answer, Insert, Goto
<1>13. ASSUME NEW w \in Workers, SpawnRescan(w) PROVE AppliedOnlyByMark
    BY <1>0, <1>13, ConstantsAssumption DEF AppliedOnlyByMark, AppliedSomewhere,
       AppliedIn, SpawnRescan, NoProposal, Proposal, Registry, EmptyRegistry, Workers,
       Return
<1>14. ASSUME NEW w \in Workers, SaveSnapshot(w) PROVE AppliedOnlyByMark
    BY <1>0, <1>14, ConstantsAssumption DEF AppliedOnlyByMark, AppliedSomewhere,
       AppliedIn, SaveSnapshot, NoProposal, Proposal, Registry, EmptyRegistry,
       Workers, Goto
<1>15. ASSUME NEW w \in Workers, SaveTruncate(w) PROVE AppliedOnlyByMark
    BY <1>0, <1>15, ConstantsAssumption DEF AppliedOnlyByMark, AppliedSomewhere,
       AppliedIn, SaveTruncate, NoProposal, Proposal, Registry, EmptyRegistry,
       Workers, Goto
<1>16. ASSUME NEW w \in Workers, SaveFlush(w) PROVE AppliedOnlyByMark
    BY <1>0, <1>16, ConstantsAssumption DEF AppliedOnlyByMark, AppliedSomewhere,
       AppliedIn, SaveFlush, NoProposal, Proposal, Registry, EmptyRegistry, Workers,
       Goto, Return
<1>17. ASSUME NEW r \in Reqs, ApproveEdits(r) PROVE AppliedOnlyByMark
    BY <1>17 DEF AppliedOnlyByMark, AppliedSomewhere, AppliedIn, ApproveEdits,
       UserCommand
<1>18. ASSUME NEW r \in Reqs, DenyEdits(r) PROVE AppliedOnlyByMark
    BY <1>18 DEF AppliedOnlyByMark, AppliedSomewhere, AppliedIn, DenyEdits, UserCommand
<1>19. ASSUME DenyRead PROVE AppliedOnlyByMark
    BY <1>0, <1>19, ConstantsAssumption DEF AppliedOnlyByMark, AppliedSomewhere,
       AppliedIn, DenyRead, NoProposal, Proposal, Registry, EmptyRegistry, Workers,
       Goto, Return
<1>20. ASSUME MarkDenied PROVE AppliedOnlyByMark
    BY <1>0, <1>20, ConstantsAssumption DEF AppliedOnlyByMark, AppliedSomewhere,
       AppliedIn, MarkDenied, NoProposal, Proposal, Registry, EmptyRegistry, Workers,
       Save, Answer, Insert, Goto
<1>21. ASSUME ApprovePendingEdits PROVE AppliedOnlyByMark
    BY <1>21 DEF AppliedOnlyByMark, AppliedSomewhere, AppliedIn, ApprovePendingEdits,
       UserCommand
<1>22. ASSUME MarkStale PROVE AppliedOnlyByMark
    BY <1>0, <1>22, ConstantsAssumption DEF AppliedOnlyByMark, AppliedSomewhere,
       AppliedIn, MarkStale, NoProposal, Proposal, Registry, EmptyRegistry, Workers,
       Goto
<1>23. ASSUME DenyPendingEdits PROVE AppliedOnlyByMark
    BY <1>23 DEF AppliedOnlyByMark, AppliedSomewhere, AppliedIn, DenyPendingEdits,
       UserCommand
<1>24. ASSUME NEW c \in Calls, BulkNext(c) PROVE AppliedOnlyByMark
    BY <1>24 DEF AppliedOnlyByMark, AppliedSomewhere, AppliedIn, BulkNext
<1>25. ASSUME BulkEnd PROVE AppliedOnlyByMark
    BY <1>25 DEF AppliedOnlyByMark, AppliedSomewhere, AppliedIn, BulkEnd
<1>26. ASSUME Rescan PROVE AppliedOnlyByMark
    BY <1>26 DEF AppliedOnlyByMark, AppliedSomewhere, AppliedIn, Rescan
<1>27. ASSUME NEW f \in Files, ExternalEdit(f) PROVE AppliedOnlyByMark
    BY <1>27 DEF AppliedOnlyByMark, AppliedSomewhere, AppliedIn, ExternalEdit
<1>28. ASSUME CrashAndRestart PROVE AppliedOnlyByMark
    BY <1>0, <1>28, ConstantsAssumption DEF AppliedOnlyByMark, AppliedSomewhere,
       AppliedIn, CrashAndRestart, NoProposal, Proposal, Registry, EmptyRegistry,
       Workers
<1> QED BY <1>1, <1>2, <1>3, <1>4, <1>5, <1>6, <1>7, <1>8, <1>9, <1>10, <1>11, <1>12,
       <1>13, <1>14, <1>15, <1>16, <1>17, <1>18, <1>19, <1>20, <1>21, <1>22, <1>23,
       <1>24, <1>25, <1>26, <1>27, <1>28 DEF Next, Stage, Approve, SaveProposals,
       Command, Handle, AppliedOnlyByMark

\* A batch starts at its first edit and goes on by one edit at a time.
BatchProgress ==
  \A v \in Workers : pc'[v] = "write" =>
    \/ pos'[v] = 1
    \/ /\ pc[v] = "write" /\ prop'[v] = prop[v]
       /\ pos'[v] = pos[v] \/ WriteEdit(v) \/ SkipMismatch(v) \/ WriteRefused(v)

LEMMA BatchStep ==
  ASSUME TInv, Next
  PROVE  BatchProgress
<1> USE DEF taskVars, bulkVars, fileVars, callVars
<1>0. TaskTypes /\ RequestKnown /\ BulkKnown
    BY TypeParts DEF TInv
<1> USE DEF TaskTypes, BulkKnown
<1>1. ASSUME NEW c \in Calls, ToolCallRequested(c) PROVE BatchProgress
    BY <1>0, <1>1, ConstantsAssumption DEF BatchProgress, ToolCallRequested, Workers,
       Goto
<1>2. ASSUME NEW c \in Calls, CheckDuplicate(c) PROVE BatchProgress
    BY <1>0, <1>2, ConstantsAssumption DEF BatchProgress, CheckDuplicate, Workers,
       Goto, Return, Answer
<1>3. ASSUME NEW c \in Calls, StagingFails(c) PROVE BatchProgress
  <2>1. c \in Workers /\ Return(c)
    BY <1>3 DEF StagingFails, Workers
  <2> QED BY <2>1, ReturnTypes DEF BatchProgress
<1>4. ASSUME NEW c \in Calls, ResolveEdits(c) PROVE BatchProgress
    BY <1>0, <1>4, ConstantsAssumption DEF BatchProgress, ResolveEdits, Workers, Goto
<1>5. ASSUME NEW c \in Calls, StageProposal(c) PROVE BatchProgress
    BY <1>0, <1>5, ConstantsAssumption DEF BatchProgress, StageProposal, Workers,
       Save, Goto
<1>6. ASSUME NEW c \in Calls, AnnounceStaged(c) PROVE BatchProgress
    BY <1>0, <1>6, ConstantsAssumption DEF BatchProgress, AnnounceStaged, Workers,
       Goto, Return, Answer
<1>7. ASSUME NEW w \in Workers, ApproveRead(w) PROVE BatchProgress
    BY <1>0, <1>7, ConstantsAssumption DEF BatchProgress, ApproveRead, Workers, Goto,
       Return
<1>8. ASSUME NEW w \in Workers, WriteEdit(w) PROVE BatchProgress
  <2>1. prop' = prop /\ pc' = pc /\ \A v \in Workers \ {w} : pos'[v] = pos[v]
    BY <1>0, <1>8 DEF WriteEdit
  <2> QED BY <1>8, <2>1 DEF BatchProgress
<1>9. ASSUME NEW w \in Workers, SkipMismatch(w) PROVE BatchProgress
  <2>1. prop' = prop /\ pc' = pc /\ \A v \in Workers \ {w} : pos'[v] = pos[v]
    BY <1>0, <1>9 DEF SkipMismatch
  <2> QED BY <1>9, <2>1 DEF BatchProgress
<1>10. ASSUME NEW w \in Workers, WriteRefused(w) PROVE BatchProgress
  <2>1. prop' = prop /\ pc' = pc /\ \A v \in Workers \ {w} : pos'[v] = pos[v]
    BY <1>0, <1>10 DEF WriteRefused
  <2> QED BY <1>10, <2>1 DEF BatchProgress
<1>11. ASSUME NEW w \in Workers, MarkApplied(w) PROVE BatchProgress
    BY <1>0, <1>11, ConstantsAssumption DEF BatchProgress, MarkApplied, Workers, Save,
       Answer, Insert, Goto
<1>12. ASSUME NEW w \in Workers, MarkFailed(w) PROVE BatchProgress
    BY <1>0, <1>12, ConstantsAssumption DEF BatchProgress, MarkFailed, Workers, Save,
       Answer, Insert, Goto
<1>13. ASSUME NEW w \in Workers, SpawnRescan(w) PROVE BatchProgress
  <2>1. w \in Workers /\ Return(w)
    BY <1>13 DEF SpawnRescan, Workers
  <2> QED BY <2>1, ReturnTypes DEF BatchProgress
<1>14. ASSUME NEW w \in Workers, SaveSnapshot(w) PROVE BatchProgress
    BY <1>0, <1>14, ConstantsAssumption DEF BatchProgress, SaveSnapshot, Workers, Goto
<1>15. ASSUME NEW w \in Workers, SaveTruncate(w) PROVE BatchProgress
    BY <1>0, <1>15, ConstantsAssumption DEF BatchProgress, SaveTruncate, Workers, Goto
<1>16. ASSUME NEW w \in Workers, SaveFlush(w) PROVE BatchProgress
    BY <1>0, <1>16, ConstantsAssumption DEF BatchProgress, SaveFlush, Workers, Goto,
       Return
<1>17. ASSUME NEW r \in Reqs, ApproveEdits(r) PROVE BatchProgress
    BY <1>0, <1>17, ConstantsAssumption DEF BatchProgress, ApproveEdits, Workers,
       Goto, UserCommand
<1>18. ASSUME NEW r \in Reqs, DenyEdits(r) PROVE BatchProgress
    BY <1>0, <1>18, ConstantsAssumption DEF BatchProgress, DenyEdits, Workers, Goto,
       UserCommand
<1>19. ASSUME DenyRead PROVE BatchProgress
    BY <1>0, <1>19, ConstantsAssumption DEF BatchProgress, DenyRead, Workers, Goto,
       Return
<1>20. ASSUME MarkDenied PROVE BatchProgress
    BY <1>0, <1>20, ConstantsAssumption DEF BatchProgress, MarkDenied, Workers, Save,
       Answer, Insert, Goto
<1>21. ASSUME ApprovePendingEdits PROVE BatchProgress
    BY <1>0, <1>21, ConstantsAssumption DEF BatchProgress, ApprovePendingEdits,
       Workers, Goto, UserCommand
<1>22. ASSUME MarkStale PROVE BatchProgress
    BY <1>0, <1>22, ConstantsAssumption DEF BatchProgress, MarkStale, Workers, Goto
<1>23. ASSUME DenyPendingEdits PROVE BatchProgress
    BY <1>0, <1>23, ConstantsAssumption DEF BatchProgress, DenyPendingEdits, Workers,
       Goto, UserCommand
<1>24. ASSUME NEW c \in Calls, BulkNext(c) PROVE BatchProgress
    BY <1>0, <1>24, ConstantsAssumption DEF BatchProgress, BulkNext, Workers, Goto
<1>25. ASSUME BulkEnd PROVE BatchProgress
    BY <1>0, <1>25, ConstantsAssumption DEF BatchProgress, BulkEnd, Workers, Goto,
       Save
<1>26. ASSUME Rescan PROVE BatchProgress
    BY <1>26 DEF BatchProgress, Rescan
<1>27. ASSUME NEW f \in Files, ExternalEdit(f) PROVE BatchProgress
    BY <1>27 DEF BatchProgress, ExternalEdit
<1>28. ASSUME CrashAndRestart PROVE BatchProgress
    BY <1>0, <1>28, ConstantsAssumption DEF BatchProgress, CrashAndRestart, Workers
<1> QED BY <1>1, <1>2, <1>3, <1>4, <1>5, <1>6, <1>7, <1>8, <1>9, <1>10, <1>11, <1>12,
       <1>13, <1>14, <1>15, <1>16, <1>17, <1>18, <1>19, <1>20, <1>21, <1>22, <1>23,
       <1>24, <1>25, <1>26, <1>27, <1>28 DEF Next, Stage, Approve, SaveProposals,
       Command, Handle, BatchProgress

-----------------------------------------------------------------------------
(* From the kinds of steps to the inductive invariant.                     *)

\* Versions and refusals only grow, and the expected hashes of a call are
\* chosen only while it resolves its edits.
LEMMA Monotone ==
  ASSUME TInv, Next
  PROVE  /\ \A f \in Files : ver[f] <= ver'[f]
         /\ landed \subseteq landed' /\ refused \subseteq refused'
         /\ \A c \in Calls : pc[c] # "resolve" => expected'[c] = expected[c]
<1> USE DEF fileVars, callVars
<1>0. OtherTypes
      BY TypeParts DEF TInv
<1>1. CASE UNCHANGED <<ver, dbVer, expected, landed, twice, refused>>
      BY <1>0, <1>1 DEF OtherTypes
<1>2. ASSUME NEW c \in Calls, ResolveEdits(c)
      PROVE  UNCHANGED <<ver, landed, refused>> /\ \A d \in Calls \ {c} : expected'[d] = expected[d]
      BY <1>0, <1>2 DEF OtherTypes, ResolveEdits
<1>3. ASSUME NEW w \in Workers, WriteEdit(w)
      PROVE  /\ UNCHANGED <<expected, refused>> /\ landed \subseteq landed'
             /\ \A f \in Files : ver[f] <= ver'[f]
      BY <1>0, <1>3, NextEdit DEF OtherTypes, WriteEdit
<1>4. ASSUME NEW w \in Workers, WriteRefused(w)
      PROVE  UNCHANGED <<expected, ver, landed>> /\ refused \subseteq refused'
      BY <1>4 DEF WriteRefused
<1>5. ASSUME Rescan
      PROVE  UNCHANGED <<expected, ver, landed, refused>>
      BY <1>5 DEF Rescan
<1>6. ASSUME NEW f \in Files, ExternalEdit(f)
      PROVE  UNCHANGED <<expected, landed, refused>> /\ \A g \in Files : ver[g] <= ver'[g]
      BY <1>0, <1>6 DEF OtherTypes, ExternalEdit
<1>7. \A f \in Files : ver[f] \in Nat
      BY <1>0 DEF OtherTypes
<1>8. \A c \in Calls : ResolveEdits(c) => pc[c] = "resolve"
      BY DEF ResolveEdits
<1> QED BY <1>1, <1>2, <1>3, <1>4, <1>5, <1>6, <1>7, <1>8, FileSteps DEF FileStep

\* What is settled stays settled.
LEMMA SettledStays ==
  ASSUME TInv, Next, NEW c \in Calls, pc[c] \notin Early,
         NEW i \in DOMAIN EditsOf[c], EditSettled(c, i)
  PROVE  EditSettled(c, i)'
<1>1. EditAt(c, i).file \in Files /\ EditAt(c, i)' = EditAt(c, i)
      BY EditFile DEF EditAt
<1>2. expected'[c] = expected[c]
      BY Monotone DEF Early
<1>3. OtherTypes /\ OtherTypes'
      BY TInvStep, TypeParts, TypePartsNext DEF TInv
<1> DEFINE f == EditAt(c, i).file
<1>4. ver[f] <= ver'[f] /\ landed \subseteq landed' /\ refused \subseteq refused'
      BY <1>1, Monotone
<1>5. ver[f] \in Nat /\ ver'[f] \in Nat /\ expected[c][f] \in Nat
      BY <1>1, <1>3 DEF OtherTypes
<1>6. expected[c][f] < ver[f] => expected'[c][f] < ver'[f]
      BY <1>2, <1>4, <1>5
<1> QED BY <1>1, <1>2, <1>4, <1>6 DEF EditSettled, Landed, EditAt

LEMMA HashesPastStep == ASSUME TInv, HashesPast, Next PROVE HashesPast'
<1> USE DEF fileVars, callVars, HashesPast
<1>0. OtherTypes
      BY TypeParts DEF TInv
<1>1. CASE UNCHANGED <<ver, dbVer, expected, landed, twice, refused>>
      BY <1>1
<1>2. ASSUME NEW c \in Calls, ResolveEdits(c) PROVE HashesPast'
  <2>1. UNCHANGED <<ver, dbVer>>
    BY <1>2 DEF ResolveEdits
  <2>2. \A f \in Files : ver[f] <= ver[f]
    BY <1>0 DEF OtherTypes
  <2>3. expected' = [expected EXCEPT ![c] = IF c \in NsCalls THEN ver ELSE dbVer]
    BY <1>2 DEF ResolveEdits
  <2>4. \A d \in Calls, f \in Files : expected'[d][f] <= ver[f]
    BY <2>2, <2>3, <1>0 DEF OtherTypes
  <2> QED BY <2>1, <2>4
<1>3. CASE \E w \in Workers : WriteEdit(w) \/ WriteRefused(w)
  <2>1. UNCHANGED <<expected, dbVer>>
    BY <1>3 DEF WriteEdit, WriteRefused
  <2> QED BY <2>1, <1>0, Monotone, TInvStep DEF TInv, TypeOK
<1>4. CASE Rescan
  <2>1. UNCHANGED <<expected, ver>> /\ dbVer' \in {dbVer, ver}
    BY <1>4 DEF Rescan
  <2> QED BY <2>1, <1>0 DEF OtherTypes
<1>5. CASE \E f \in Files : ExternalEdit(f)
  <2>1. UNCHANGED <<expected, dbVer>>
    BY <1>5 DEF ExternalEdit
  <2> QED BY <2>1, <1>0, Monotone, TInvStep DEF TInv, TypeOK
<1> QED BY <1>1, <1>2, <1>3, <1>4, <1>5, FileSteps DEF FileStep

\* Who writes an edit has a copy of its proposal, so the call is past staging.
LEMMA WriterHasCopy ==
  ASSUME TInv, Fresh, NEW w \in Workers, pc[w] = "write", ~NoMoreEdits(w)
  PROVE  pc[prop[w].call] \notin Early
<1>1. prop[w] \in Proposal /\ prop[w] # None
      BY NoneAssumption DEF TInv, RequestKnown
<1>2. prop[w].call \in Calls /\ Copied(prop[w].call)
      BY <1>1 DEF Copied, Proposal
<1> QED BY <1>2 DEF Fresh

LEMMA FreshStep == ASSUME TInv, Fresh, Next PROVE Fresh'
<1> SUFFICES ASSUME NEW c \in Calls, pc'[c] \in Early
             PROVE  ~Copied(c)' /\ \A x \in landed' : x[1] # c
    BY DEF Fresh, Early
<1>1. pc[c] \in Early
      BY EarlyBack DEF NoRestaging
<1>2. ~Copied(c) /\ \A x \in landed : x[1] # c
      BY <1>1 DEF Fresh
<1>3. ~Copied(c)'
      BY <1>2, CopyStep DEF CopiesFromCopies
<1>4. CASE UNCHANGED landed
      BY <1>2, <1>3, <1>4
<1>5. ASSUME NEW w \in Workers, WriteEdit(w) PROVE \A x \in landed' : x[1] # c
  <2>1. landed' = landed \cup {<<prop[w].call, pos[w], ver[EditAt(prop[w].call, pos[w]).file]>>}
    BY <1>5 DEF WriteEdit
  <2>2. prop[w].call # c
    BY <1>1, <1>5, WriterHasCopy DEF WriteEdit
  <2> QED BY <1>2, <2>1, <2>2
<1>6. UNCHANGED landed \/ \E w \in Workers : WriteEdit(w)
      BY FileSteps DEF FileStep, ResolveEdits, WriteRefused, Rescan, ExternalEdit, fileVars
<1> QED BY <1>3, <1>4, <1>5, <1>6

LEMMA LandedStep ==
  ASSUME TInv, Fresh, LandedAtExpected, Next
  PROVE  LandedAtExpected'
<1>0. OtherTypes /\ OtherTypes'
      BY TInvStep, TypeParts, TypePartsNext DEF TInv
<1> SUFFICES ASSUME NEW x \in landed'
             PROVE  /\ x[2] \in DOMAIN EditsOf[x[1]]
                    /\ x[3] = expected'[x[1]][EditAt(x[1], x[2]).file]
                    /\ <<x[1], x[2]>> \notin Cosmetic => x[3] < ver'[EditAt(x[1], x[2]).file]
    BY DEF LandedAtExpected, EditAt
<1>1. CASE x \in landed
  <2>1. x[1] \in Calls /\ x[3] \in Nat
    BY <1>0, <1>1 DEF OtherTypes
  <2>2. /\ x[2] \in DOMAIN EditsOf[x[1]]
        /\ x[3] = expected[x[1]][EditAt(x[1], x[2]).file]
        /\ <<x[1], x[2]>> \notin Cosmetic => x[3] < ver[EditAt(x[1], x[2]).file]
    BY <1>1 DEF LandedAtExpected
  <2>3. EditAt(x[1], x[2]).file \in Files
    BY <2>1, <2>2, EditFile
  <2>4. expected'[x[1]] = expected[x[1]]
    BY <1>1, <2>1, Monotone DEF Fresh, Early
  <2> DEFINE f == EditAt(x[1], x[2]).file
  <2>5. ver[f] \in Nat /\ ver'[f] \in Nat /\ ver[f] <= ver'[f]
    BY <1>0, <2>3, Monotone DEF OtherTypes
  <2>6. <<x[1], x[2]>> \notin Cosmetic => x[3] < ver'[f]
    BY <2>1, <2>2, <2>5
  <2> QED BY <2>2, <2>4, <2>6
<1>2. CASE x \notin landed
  <2>1. PICK w \in Workers : WriteEdit(w)
    BY <1>2, FileSteps DEF FileStep, ResolveEdits, WriteRefused, Rescan, ExternalEdit, fileVars
  <2> DEFINE c == prop[w].call
             f == EditAt(c, pos[w]).file
  <2>2. x = <<c, pos[w], ver[f]>>
    BY <1>2, <2>1 DEF WriteEdit
  <2>3. c \in Calls /\ pos[w] \in DOMAIN EditsOf[c] /\ f \in Files
    BY <2>1, NextEdit DEF WriteEdit
  <2>4. /\ ver[f] = expected[c][f] /\ expected' = expected
        /\ <<c, pos[w]>> \notin Cosmetic => ver' = [ver EXCEPT ![f] = @ + 1]
    BY <2>1 DEF WriteEdit, callVars
  <2>5. <<c, pos[w]>> \notin Cosmetic => ver[f] < ver'[f]
    BY <1>0, <2>3, <2>4 DEF OtherTypes
  <2> QED BY <2>2, <2>3, <2>4, <2>5
<1> QED BY <1>1, <1>2

\* A second write of an edit would have to find the version the first has replaced.
LEMMA OnceStep ==
  ASSUME TInv, LandedAtExpected, AtMostOnce, Next
  PROVE  AtMostOnce'
<1>0. OtherTypes
      BY TypeParts DEF TInv
<1>1. UNCHANGED twice \/ \E w \in Workers : WriteEdit(w)
      BY FileSteps DEF FileStep, ResolveEdits, WriteRefused, Rescan, ExternalEdit, fileVars
<1>2. ASSUME NEW w \in Workers, WriteEdit(w), twice' # twice
      PROVE  twice' = twice \cup {<<prop[w].call, pos[w]>>} /\ <<prop[w].call, pos[w]>> \in Cosmetic
  <2> DEFINE c == prop[w].call
             f == EditAt(c, pos[w]).file
  <2>1. /\ twice' = twice \cup {<<c, pos[w]>>} /\ Landed(c, pos[w])
        /\ ver[f] = expected[c][f]
    BY <1>2 DEF WriteEdit
  <2>2. PICK x \in landed : x[1] = c /\ x[2] = pos[w]
    BY <2>1 DEF Landed
  <2>3. x[3] = ver[f] /\ (<<c, pos[w]>> \notin Cosmetic => x[3] < ver[f])
    BY <2>1, <2>2 DEF LandedAtExpected
  <2>4. ver[f] \in Nat
    BY <1>0, <1>2, NextEdit DEF OtherTypes, WriteEdit
  <2> QED BY <2>1, <2>3, <2>4
<1> QED BY <1>1, <1>2 DEF AtMostOnce

\* However an edit is tried, it is settled afterwards.
LEMMA TriedEditSettled ==
  ASSUME TInv, HashesPast, NEW w \in Workers,
         WriteEdit(w) \/ SkipMismatch(w) \/ WriteRefused(w),
         NEW c, c = prop[w].call, NEW i, i = pos[w]
  PROVE  /\ EditSettled(c, i)'
         /\ pos'[w] = pos[w] + 1
<1> DEFINE f == EditAt(c, i).file
<1> USE DEF fileVars, callVars
<1>0. OtherTypes /\ TaskTypes
      BY TypeParts DEF TInv
<1>1. c \in Calls /\ i \in DOMAIN EditsOf[c] /\ f \in Files
      BY NextEdit DEF WriteEdit, SkipMismatch, WriteRefused
<1>2. pos'[w] = pos[w] + 1 /\ expected' = expected
      BY <1>0 DEF TaskTypes, WriteEdit, SkipMismatch, WriteRefused
<1>3. ver[f] \in Nat /\ expected[c][f] \in Nat /\ expected[c][f] <= ver[f]
      BY <1>0, <1>1 DEF OtherTypes, HashesPast
<1>4. CASE WriteEdit(w)
  <2>1. <<c, i, ver[f]>> \in landed'
    BY <1>4 DEF WriteEdit
  <2> QED BY <1>2, <2>1 DEF EditSettled, Landed
<1>5. CASE SkipMismatch(w)
  <2>1. ver[f] # expected[c][f] /\ ver' = ver
    BY <1>5 DEF SkipMismatch
  <2>2. expected'[c][f] < ver'[f]
    BY <1>2, <1>3, <2>1
  <2> QED BY <1>2, <2>2 DEF EditSettled, EditAt
<1>6. CASE WriteRefused(w)
  <2>1. <<c, i>> \in refused'
    BY <1>6 DEF WriteRefused
  <2> QED BY <1>2, <2>1 DEF EditSettled
<1> QED BY <1>4, <1>5, <1>6

LEMMA TriedStep ==
  ASSUME TInv, Fresh, HashesPast, TriedSettled, Next
  PROVE  TriedSettled'
<1> SUFFICES ASSUME NEW w \in Workers, NEW c \in Calls, pc'[w] = "write",
                    prop'[w].call = c, NEW i \in DOMAIN EditsOf[c], i < pos'[w]
             PROVE  EditSettled(c, i)'
    BY DEF TriedSettled
<1>0. TaskTypes /\ TaskTypes' /\ RequestKnown
      BY TInvStep, TypeParts, TypePartsNext DEF TInv
<1>1. i \in Nat \ {0}
      BY ConstantsAssumption
<1>2. pos'[w] # 1
      BY <1>1
<1>3. /\ pc[w] = "write" /\ prop[w].call = c
      /\ pos'[w] = pos[w] \/ WriteEdit(w) \/ SkipMismatch(w) \/ WriteRefused(w)
      BY <1>2, BatchStep DEF BatchProgress
<1>4. pc[c] \notin Early
  <2>1. prop[w] \in Proposal /\ prop[w] # None
    BY <1>0, <1>3, NoneAssumption DEF RequestKnown
  <2> QED BY <1>3, <2>1 DEF Fresh, Copied
<1>5. CASE i < pos[w]
  <2>1. EditSettled(c, i)
    BY <1>3, <1>5 DEF TriedSettled
  <2> QED BY <1>4, <2>1, SettledStays
<1>6. CASE ~(i < pos[w])
  <2>1. WriteEdit(w) \/ SkipMismatch(w) \/ WriteRefused(w)
    BY <1>3, <1>6
  <2>2. pos[w] \in Nat /\ pos'[w] \in Nat
    BY <1>0 DEF TaskTypes
  <2>3. pos'[w] = pos[w] + 1
    BY <1>0, <2>1 DEF TaskTypes, WriteEdit, SkipMismatch, WriteRefused
  <2>4. i = pos[w]
    BY <1>1, <1>6, <2>2, <2>3
  <2> QED BY <1>3, <2>1, <2>4, TriedEditSettled
<1> QED BY <1>5, <1>6

LEMMA CopiesStep ==
  ASSUME TInv, Fresh, HashesPast, TriedSettled, CopiesSettled, Next
  PROVE  CopiesSettled'
<1> SUFFICES ASSUME NEW c \in Calls, AppliedSomewhere(c)', NEW i \in DOMAIN EditsOf[c]
             PROVE  EditSettled(c, i)'
    BY DEF CopiesSettled, Settled
<1>1. CASE AppliedSomewhere(c)
  <2>1. Copied(c)
    BY <1>1 DEF AppliedSomewhere, AppliedIn, Copied, HeldIn
  <2>2. pc[c] \notin Early
    BY <2>1 DEF Fresh
  <2>3. EditSettled(c, i)
    BY <1>1 DEF CopiesSettled, Settled
  <2> QED BY <2>2, <2>3, SettledStays
<1>2. ASSUME NEW w \in Workers, MarkApplied(w), prop[w].call = c
      PROVE  EditSettled(c, i)'
  <2>1. pc[w] = "write" /\ pos[w] > Len(EditsOf[c]) /\ pos[w] \in Nat
    BY <1>2 DEF MarkApplied, NoMoreEdits, TInv, TypeOK
  <2>2. i < pos[w]
    BY <2>1, ConstantsAssumption
  <2>3. EditSettled(c, i)
    BY <1>2, <2>1, <2>2 DEF TriedSettled
  <2>4. prop[w] \in Proposal /\ prop[w] # None
    BY <2>1, NoneAssumption DEF TInv, RequestKnown
  <2>5. pc[c] \notin Early
    BY <1>2, <2>4 DEF Fresh, Copied
  <2> QED BY <2>3, <2>5, SettledStays
<1> QED BY <1>1, <1>2, AppliedStep DEF AppliedOnlyByMark

LEMMA IInvInit == Init => IInv
<1> SUFFICES ASSUME Init PROVE IInv
    OBVIOUS
<1>1. Fresh
      BY DEF Init, Fresh, Copied, HeldIn, EmptyRegistry
<1>2. HashesPast
      BY DEF Init, HashesPast
<1>3. LandedAtExpected
      BY DEF Init, LandedAtExpected
<1>4. TriedSettled
      BY DEF Init, TriedSettled
<1>5. CopiesSettled
      BY DEF Init, CopiesSettled, AppliedSomewhere, AppliedIn, EmptyRegistry
<1>6. AtMostOnce
      BY DEF Init, AtMostOnce
<1> QED BY <1>1, <1>2, <1>3, <1>4, <1>5, <1>6, TInvInit DEF IInv

LEMMA IInvStep == IInv /\ [Next]_vars => IInv'
<1> SUFFICES ASSUME IInv, [Next]_vars PROVE IInv'
    OBVIOUS
<1>1. CASE Next
      BY <1>1, TInvStep, FreshStep, HashesPastStep, LandedStep, OnceStep,
         TriedStep, CopiesStep DEF IInv
<1>2. CASE UNCHANGED vars
  <2> USE <1>2 DEF vars, taskVars, bulkVars, fileVars, callVars
  <2>1. TInv'
    BY DEF IInv, TInv, TypeOK, RequestKnown, BulkKnown
  <2>2. Fresh'
    BY DEF IInv, Fresh, Copied, HeldIn
  <2>3. HashesPast' /\ LandedAtExpected' /\ AtMostOnce'
    BY DEF IInv, HashesPast, LandedAtExpected, AtMostOnce, EditAt
  <2>4. TriedSettled' /\ CopiesSettled'
    BY DEF IInv, TriedSettled, CopiesSettled, AppliedSomewhere, AppliedIn, Settled,
       EditSettled, Landed, EditAt
  <2> QED BY <2>1, <2>2, <2>3, <2>4 DEF IInv
<1> QED BY <1>1, <1>2

\* The inductive invariant holds in every reachable state.
THEOREM Invariance == Spec => []IInv
BY IInvInit, IInvStep, PTL DEF Spec

\* The registry, the tasks' locals and proposals.json always have the types the
\* code gives them: no task works on a request or a clone it does not have.
THEOREM TypeCorrect == Spec => []TypeOK
<1>1. IInv => TypeOK
      BY DEF IInv, TInv
<1> QED BY <1>1, Invariance, PTL

\* However many approvals, retries and restarts there are, an edit the tracking
\* hash can see is written once at most: process_one_write finds the expected
\* hash at the first write only.
THEOREM EditsLandOnce == Spec => []AtMostOnce
<1>1. IInv => AtMostOnce
      BY DEF IInv
<1> QED BY <1>1, Invariance, PTL

\* A proposal that reads Applied, in the registry or in proposals.json, has had
\* every one of its edits tried.
THEOREM AppliedMeansSettled == Spec => []AppliedIsSettled
<1>1. ASSUME IInv PROVE AppliedIsSettled
  <2>0. RegistryTypes
    BY <1>1, TypeParts DEF IInv, TInv
  <2>1. ASSUME NEW r \in Reqs PROVE SettledIfApplied(proposals[r])
    BY <1>1, <2>0 DEF IInv, CopiesSettled, AppliedSomewhere, AppliedIn, SettledIfApplied,
       RegistryTypes, Registry, Proposal
  <2>2. ASSUME NEW r \in Reqs, disk # Torn PROVE SettledIfApplied(disk[r])
    BY <1>1, <2>0, <2>2 DEF IInv, CopiesSettled, AppliedSomewhere, AppliedIn, SettledIfApplied,
       RegistryTypes, Registry, Proposal
  <2> QED BY <2>1, <2>2 DEF AppliedIsSettled
<1> QED BY <1>1, Invariance, PTL

(***************************************************************************)
(* Requests, and what a proposal that is resolved stays.                   *)
(***************************************************************************)

\* A registry that keeps every proposal under the request id of its call.
KeyedIn(reg) == \A r \in Reqs : reg[r] # None => ReqOf[reg[r].call] = r

\* The registry is keyed, and so is every copy of it.
Keyed ==
  /\ KeyedIn(proposals)
  /\ disk # Torn => KeyedIn(disk)
  /\ \A w \in Workers : KeyedIn(snap[w])

\* A tool call works on its own request, an approval or a denial on that of its clone.
RequestIsOwn ==
  /\ \A c \in Calls : pc[c] \in {"check", "resolve", "insert"} => req[c] = ReqOf[c]
  /\ \A w \in Workers : pc[w] \in {"write", "denied"} => ReqOf[prop[w].call] = req[w]

KInv == Keyed /\ RequestIsOwn

\* A task that returns has no request and no clone.
LEMMA ReturnOwnRequest ==
  ASSUME TInv, RequestIsOwn, NEW w \in Workers, Return(w)
  PROVE  RequestIsOwn'
<1>1. pc'[w] \in {"done", "idle", "bulk"}
    BY ReturnTypes
<1>2. \A v \in Workers \ {w} : pc'[v] = pc[v] /\ req'[v] = req[v] /\ prop'[v] = prop[v]
    BY ReturnTypes
<1> QED BY <1>1, <1>2 DEF RequestIsOwn, Workers

LEMMA RequestIsOwnStep == ASSUME TInv, KInv, Next PROVE RequestIsOwn'
<1> USE DEF taskVars, bulkVars, fileVars, callVars
<1>0. TaskTypes /\ RegistryTypes /\ RequestKnown /\ BulkKnown /\ Keyed /\ RequestIsOwn
    BY TypeParts DEF TInv, KInv
<1> USE DEF TaskTypes, RegistryTypes, RequestKnown
<1>1. ASSUME NEW c \in Calls, ToolCallRequested(c) PROVE RequestIsOwn'
  BY <1>0, ConstantsAssumption, NoneAssumption, <1>1 DEF ToolCallRequested, Goto,
     RequestIsOwn, Keyed, KeyedIn, Workers, Registry, Proposal
<1>2. ASSUME NEW c \in Calls, CheckDuplicate(c) PROVE RequestIsOwn'
  <2>0. c \in Workers
    BY DEF Workers
  <2>1. CASE Return(c)
    BY <2>0, <2>1, <1>0, ReturnOwnRequest
  <2>2. CASE Goto(c, "resolve") /\ UNCHANGED <<req, prop>>
    BY <2>0, <2>2, <1>2, <1>0, ConstantsAssumption, NoneAssumption DEF CheckDuplicate, RequestIsOwn,
       Keyed, KeyedIn, Workers, Registry, Proposal, NoProposal, Goto
  <2> QED BY <2>1, <2>2, <1>2 DEF CheckDuplicate
<1>3. ASSUME NEW c \in Calls, StagingFails(c) PROVE RequestIsOwn'
  BY <1>0, ConstantsAssumption, NoneAssumption, <1>3 DEF StagingFails, Return, Answer,
     Goto, RequestIsOwn, Keyed, KeyedIn, Workers, Registry, Proposal
<1>4. ASSUME NEW c \in Calls, ResolveEdits(c) PROVE RequestIsOwn'
  BY <1>0, ConstantsAssumption, NoneAssumption, <1>4 DEF ResolveEdits, Goto, RequestIsOwn,
     Keyed, KeyedIn, Workers, Registry, Proposal
<1>5. ASSUME NEW c \in Calls, StageProposal(c) PROVE RequestIsOwn'
  BY <1>0, ConstantsAssumption, NoneAssumption, <1>5 DEF StageProposal, Save, LockFree,
     Pending, Goto, RequestIsOwn, Keyed, KeyedIn, Workers, Registry, Proposal
<1>6. ASSUME NEW c \in Calls, AnnounceStaged(c) PROVE RequestIsOwn'
  BY <1>0, ConstantsAssumption, NoneAssumption, <1>6 DEF AnnounceStaged, Goto, Return,
     Answer, RequestIsOwn, Keyed, KeyedIn, Workers, Registry, Proposal
<1>7. ASSUME NEW w \in Workers, ApproveRead(w) PROVE RequestIsOwn'
  <2>0. w \in Workers /\ req[w] \in Reqs
    BY <1>7, <1>0 DEF ApproveRead, Workers
  <2>1. CASE Return(w)
    BY <2>0, <2>1, <1>0, ReturnOwnRequest
  <2>2. CASE /\ proposals[req[w]] # None /\ Goto(w, "write")
             /\ prop' = [prop EXCEPT ![w] = proposals[req[w]]] /\ UNCHANGED req
    <3>1. pc'[w] = "write" /\ prop'[w] = proposals[req[w]] /\ req'[w] = req[w]
      BY <2>0, <2>2, <1>0 DEF Goto
    <3>2. \A v \in Workers \ {w} : pc'[v] = pc[v] /\ prop'[v] = prop[v] /\ req'[v] = req[v]
      BY <2>0, <2>2, <1>0 DEF Goto
    <3>3. ReqOf[proposals[req[w]].call] = req[w]
      BY <2>0, <2>2, <1>0 DEF Keyed, KeyedIn
    <3> QED BY <3>1, <3>2, <3>3, <1>0 DEF RequestIsOwn, Workers
  <2> QED BY <2>1, <2>2, <1>7 DEF ApproveRead, NoProposal
<1>8. ASSUME NEW w \in Workers, WriteEdit(w) PROVE RequestIsOwn'
  BY <1>0, ConstantsAssumption, NoneAssumption, <1>8 DEF WriteEdit, NoMoreEdits,
     RequestIsOwn, Keyed, KeyedIn, Workers, Registry, Proposal
<1>9. ASSUME NEW w \in Workers, SkipMismatch(w) PROVE RequestIsOwn'
  BY <1>0, ConstantsAssumption, NoneAssumption, <1>9 DEF SkipMismatch, NoMoreEdits,
     RequestIsOwn, Keyed, KeyedIn, Workers, Registry, Proposal
<1>10. ASSUME NEW w \in Workers, WriteRefused(w) PROVE RequestIsOwn'
  BY <1>0, ConstantsAssumption, NoneAssumption, <1>10 DEF WriteRefused, NoMoreEdits,
     RequestIsOwn, Keyed, KeyedIn, Workers, Registry, Proposal
<1>11. ASSUME NEW w \in Workers, MarkApplied(w) PROVE RequestIsOwn'
  BY <1>0, ConstantsAssumption, NoneAssumption, <1>11 DEF MarkApplied, Save, Answer,
     Insert, LockFree, NoMoreEdits, Goto, RequestIsOwn, Keyed, KeyedIn, Workers, Registry,
     Proposal
<1>12. ASSUME NEW w \in Workers, MarkFailed(w) PROVE RequestIsOwn'
  BY <1>0, ConstantsAssumption, NoneAssumption, <1>12 DEF MarkFailed, Save, Answer,
     Insert, LockFree, Goto, RequestIsOwn, Keyed, KeyedIn, Workers, Registry, Proposal
<1>13. ASSUME NEW w \in Workers, SpawnRescan(w) PROVE RequestIsOwn'
  BY <1>0, ConstantsAssumption, NoneAssumption, <1>13 DEF SpawnRescan, Return, Goto,
     RequestIsOwn, Keyed, KeyedIn, Workers, Registry, Proposal
<1>14. ASSUME NEW w \in Workers, SaveSnapshot(w) PROVE RequestIsOwn'
  BY <1>0, ConstantsAssumption, NoneAssumption, <1>14 DEF SaveSnapshot, Goto, LockFree,
     RequestIsOwn, Keyed, KeyedIn, Workers, Registry, Proposal
<1>15. ASSUME NEW w \in Workers, SaveTruncate(w) PROVE RequestIsOwn'
  BY <1>0, ConstantsAssumption, NoneAssumption, <1>15 DEF SaveTruncate, Goto,
     RequestIsOwn, Keyed, KeyedIn, Workers, Registry, Proposal
<1>16. ASSUME NEW w \in Workers, SaveFlush(w) PROVE RequestIsOwn'
  <2>0. w \in Workers
    BY DEF Workers
  <2>1. CASE Return(w)
    BY <2>0, <2>1, <1>0, ReturnOwnRequest
  <2>2. CASE Goto(w, then[w]) /\ UNCHANGED <<req, prop>>
    BY <2>0, <2>2, <1>16, <1>0, ConstantsAssumption, NoneAssumption DEF SaveFlush, RequestIsOwn,
       Keyed, KeyedIn, Workers, Registry, Proposal, NoProposal, Goto
  <2> QED BY <2>1, <2>2, <1>16 DEF SaveFlush
<1>17. ASSUME NEW r \in Reqs, ApproveEdits(r) PROVE RequestIsOwn'
  BY <1>0, ConstantsAssumption, NoneAssumption, <1>17 DEF ApproveEdits, Goto,
     UserCommand, RequestIsOwn, Keyed, KeyedIn, Workers, Registry, Proposal
<1>18. ASSUME NEW r \in Reqs, DenyEdits(r) PROVE RequestIsOwn'
  BY <1>0, ConstantsAssumption, NoneAssumption, <1>18 DEF DenyEdits, Goto, UserCommand,
     RequestIsOwn, Keyed, KeyedIn, Workers, Registry, Proposal
<1>19. ASSUME DenyRead PROVE RequestIsOwn'
  <2>0. Commander \in Workers /\ req[Commander] \in Reqs
    BY <1>19, <1>0 DEF DenyRead, Workers
  <2>1. CASE Return(Commander)
    BY <2>0, <2>1, <1>0, ReturnOwnRequest
  <2>2. CASE /\ proposals[req[Commander]] # None /\ Goto(Commander, "denied")
             /\ prop' = [prop EXCEPT ![Commander] = proposals[req[Commander]]] /\ UNCHANGED req
    <3>1. pc'[Commander] = "denied" /\ prop'[Commander] = proposals[req[Commander]] /\ req'[Commander] = req[Commander]
      BY <2>0, <2>2, <1>0 DEF Goto
    <3>2. \A v \in Workers \ {Commander} : pc'[v] = pc[v] /\ prop'[v] = prop[v] /\ req'[v] = req[v]
      BY <2>0, <2>2, <1>0 DEF Goto
    <3>3. ReqOf[proposals[req[Commander]].call] = req[Commander]
      BY <2>0, <2>2, <1>0 DEF Keyed, KeyedIn
    <3> QED BY <3>1, <3>2, <3>3, <1>0 DEF RequestIsOwn, Workers
  <2> QED BY <2>1, <2>2, <1>19 DEF DenyRead, NoProposal
<1>20. ASSUME MarkDenied PROVE RequestIsOwn'
  BY <1>0, ConstantsAssumption, NoneAssumption, <1>20 DEF MarkDenied, Save, Answer,
     Insert, LockFree, Goto, RequestIsOwn, Keyed, KeyedIn, Workers, Registry, Proposal
<1>21. ASSUME ApprovePendingEdits PROVE RequestIsOwn'
  BY <1>0, ConstantsAssumption, NoneAssumption, <1>21 DEF ApprovePendingEdits, Goto,
     UserCommand, LockFree, Pending, RequestIsOwn, Keyed, KeyedIn, Workers, Registry,
     Proposal
<1>22. ASSUME MarkStale PROVE RequestIsOwn'
  BY <1>0, ConstantsAssumption, NoneAssumption, <1>22 DEF MarkStale, Goto, LockFree,
     NoProposal, RequestIsOwn, Keyed, KeyedIn, Workers, Registry, Proposal
<1>23. ASSUME DenyPendingEdits PROVE RequestIsOwn'
  BY <1>0, ConstantsAssumption, NoneAssumption, <1>23 DEF DenyPendingEdits, Goto,
     UserCommand, LockFree, Pending, RequestIsOwn, Keyed, KeyedIn, Workers, Registry,
     Proposal
<1>24. ASSUME NEW c \in Calls, BulkNext(c) PROVE RequestIsOwn'
  <2>1. Commander \in Workers /\ bulk \in {"approve", "deny"}
    BY <1>24, <1>0 DEF BulkNext, BulkKnown, Workers
  <2>2. pc' = [pc EXCEPT ![Commander] = bulk] /\ req' = [req EXCEPT ![Commander] = ReqOf[c]]
        /\ UNCHANGED prop
    BY <1>24 DEF BulkNext, Goto
  <2> QED BY <2>1, <2>2, <1>0, ConstantsAssumption DEF RequestIsOwn, Workers
<1>25. ASSUME BulkEnd PROVE RequestIsOwn'
  BY <1>0, ConstantsAssumption, NoneAssumption, <1>25 DEF BulkEnd, Goto, Save,
     RequestIsOwn, Keyed, KeyedIn, Workers, Registry, Proposal
<1>26. ASSUME Rescan PROVE RequestIsOwn'
  BY <1>0, ConstantsAssumption, NoneAssumption, <1>26 DEF Rescan, RequestIsOwn, Keyed,
     KeyedIn, Workers, Registry, Proposal
<1>27. ASSUME NEW f \in Files, ExternalEdit(f) PROVE RequestIsOwn'
  BY <1>0, ConstantsAssumption, NoneAssumption, <1>27 DEF ExternalEdit, RequestIsOwn,
     Keyed, KeyedIn, Workers, Registry, Proposal
<1>28. ASSUME CrashAndRestart PROVE RequestIsOwn'
  BY <1>0, ConstantsAssumption, NoneAssumption, <1>28 DEF CrashAndRestart,
     EmptyRegistry, RequestIsOwn, Keyed, KeyedIn, Workers, Registry, Proposal
<1> QED BY <1>1, <1>2, <1>3, <1>4, <1>5, <1>6, <1>7, <1>8, <1>9, <1>10, <1>11, <1>12,
   <1>13, <1>14, <1>15, <1>16, <1>17, <1>18, <1>19, <1>20, <1>21, <1>22, <1>23, <1>24,
   <1>25, <1>26, <1>27, <1>28 DEF Next, Stage, Approve, SaveProposals, Command, Handle

LEMMA KeyedStep == ASSUME TInv, KInv, Next PROVE Keyed'
<1> USE DEF taskVars, bulkVars, fileVars, callVars
<1>0. TaskTypes /\ RegistryTypes /\ RequestKnown /\ BulkKnown /\ Keyed /\ RequestIsOwn
    BY TypeParts DEF TInv, KInv
<1> USE DEF TaskTypes, RegistryTypes, RequestKnown
<1>1. ASSUME NEW c \in Calls, ToolCallRequested(c) PROVE Keyed'
  BY <1>1, <1>0 DEF ToolCallRequested, Keyed, KeyedIn
<1>2. ASSUME NEW c \in Calls, CheckDuplicate(c) PROVE Keyed'
  BY <1>2, <1>0 DEF CheckDuplicate, Keyed, KeyedIn
<1>3. ASSUME NEW c \in Calls, StagingFails(c) PROVE Keyed'
  BY <1>3, <1>0 DEF StagingFails, Keyed, KeyedIn
<1>4. ASSUME NEW c \in Calls, ResolveEdits(c) PROVE Keyed'
  BY <1>4, <1>0 DEF ResolveEdits, Keyed, KeyedIn
<1>5. ASSUME NEW c \in Calls, StageProposal(c) PROVE Keyed'
  BY <1>0, ConstantsAssumption, NoneAssumption, <1>5 DEF StageProposal, Save, LockFree,
     Pending, Goto, RequestIsOwn, Keyed, KeyedIn, Workers, Registry, Proposal
<1>6. ASSUME NEW c \in Calls, AnnounceStaged(c) PROVE Keyed'
  BY <1>6, <1>0 DEF AnnounceStaged, Keyed, KeyedIn
<1>7. ASSUME NEW w \in Workers, ApproveRead(w) PROVE Keyed'
  BY <1>7, <1>0 DEF ApproveRead, Keyed, KeyedIn
<1>8. ASSUME NEW w \in Workers, WriteEdit(w) PROVE Keyed'
  BY <1>8, <1>0 DEF WriteEdit, Keyed, KeyedIn
<1>9. ASSUME NEW w \in Workers, SkipMismatch(w) PROVE Keyed'
  BY <1>9, <1>0 DEF SkipMismatch, Keyed, KeyedIn
<1>10. ASSUME NEW w \in Workers, WriteRefused(w) PROVE Keyed'
  BY <1>10, <1>0 DEF WriteRefused, Keyed, KeyedIn
<1>11. ASSUME NEW w \in Workers, MarkApplied(w) PROVE Keyed'
  BY <1>0, ConstantsAssumption, NoneAssumption, <1>11 DEF MarkApplied, Save, Answer,
     Insert, LockFree, NoMoreEdits, Goto, RequestIsOwn, Keyed, KeyedIn, Workers, Registry,
     Proposal
<1>12. ASSUME NEW w \in Workers, MarkFailed(w) PROVE Keyed'
  BY <1>0, ConstantsAssumption, NoneAssumption, <1>12 DEF MarkFailed, Save, Answer,
     Insert, LockFree, Goto, RequestIsOwn, Keyed, KeyedIn, Workers, Registry, Proposal
<1>13. ASSUME NEW w \in Workers, SpawnRescan(w) PROVE Keyed'
  BY <1>13, <1>0 DEF SpawnRescan, Keyed, KeyedIn
<1>14. ASSUME NEW w \in Workers, SaveSnapshot(w) PROVE Keyed'
  BY <1>0, ConstantsAssumption, NoneAssumption, <1>14 DEF SaveSnapshot, Goto, LockFree,
     RequestIsOwn, Keyed, KeyedIn, Workers, Registry, Proposal
<1>15. ASSUME NEW w \in Workers, SaveTruncate(w) PROVE Keyed'
  BY <1>0, ConstantsAssumption, NoneAssumption, <1>15 DEF SaveTruncate, Goto,
     RequestIsOwn, Keyed, KeyedIn, Workers, Registry, Proposal
<1>16. ASSUME NEW w \in Workers, SaveFlush(w) PROVE Keyed'
  BY <1>0, ConstantsAssumption, NoneAssumption, <1>16 DEF SaveFlush, Goto, Return,
     EmptyRegistry, RequestIsOwn, Keyed, KeyedIn, Workers, Registry, Proposal
<1>17. ASSUME NEW r \in Reqs, ApproveEdits(r) PROVE Keyed'
  BY <1>17, <1>0 DEF ApproveEdits, Keyed, KeyedIn, UserCommand
<1>18. ASSUME NEW r \in Reqs, DenyEdits(r) PROVE Keyed'
  BY <1>18, <1>0 DEF DenyEdits, Keyed, KeyedIn, UserCommand
<1>19. ASSUME DenyRead PROVE Keyed'
  BY <1>19, <1>0 DEF DenyRead, Keyed, KeyedIn
<1>20. ASSUME MarkDenied PROVE Keyed'
  BY <1>0, ConstantsAssumption, NoneAssumption, <1>20 DEF MarkDenied, Save, Answer,
     Insert, LockFree, Goto, RequestIsOwn, Keyed, KeyedIn, Workers, Registry, Proposal
<1>21. ASSUME ApprovePendingEdits PROVE Keyed'
  BY <1>21, <1>0 DEF ApprovePendingEdits, Keyed, KeyedIn, UserCommand
<1>22. ASSUME MarkStale PROVE Keyed'
  BY <1>0, ConstantsAssumption, NoneAssumption, <1>22 DEF MarkStale, Goto, LockFree,
     NoProposal, RequestIsOwn, Keyed, KeyedIn, Workers, Registry, Proposal
<1>23. ASSUME DenyPendingEdits PROVE Keyed'
  BY <1>23, <1>0 DEF DenyPendingEdits, Keyed, KeyedIn, UserCommand
<1>24. ASSUME NEW c \in Calls, BulkNext(c) PROVE Keyed'
  BY <1>24, <1>0 DEF BulkNext, Keyed, KeyedIn
<1>25. ASSUME BulkEnd PROVE Keyed'
  BY <1>25, <1>0 DEF BulkEnd, Keyed, KeyedIn
<1>26. ASSUME Rescan PROVE Keyed'
  BY <1>26, <1>0 DEF Rescan, Keyed, KeyedIn
<1>27. ASSUME NEW f \in Files, ExternalEdit(f) PROVE Keyed'
  BY <1>27, <1>0 DEF ExternalEdit, Keyed, KeyedIn
<1>28. ASSUME CrashAndRestart PROVE Keyed'
  BY <1>0, ConstantsAssumption, NoneAssumption, <1>28 DEF CrashAndRestart,
     EmptyRegistry, RequestIsOwn, Keyed, KeyedIn, Workers, Registry, Proposal
<1> QED BY <1>1, <1>2, <1>3, <1>4, <1>5, <1>6, <1>7, <1>8, <1>9, <1>10, <1>11, <1>12,
   <1>13, <1>14, <1>15, <1>16, <1>17, <1>18, <1>19, <1>20, <1>21, <1>22, <1>23, <1>24,
   <1>25, <1>26, <1>27, <1>28 DEF Next, Stage, Approve, SaveProposals, Command, Handle

\* The chat loop never puts two edit calls into one step.
Distinct == \A c, d \in Calls : ReqOf[c] = ReqOf[d] => c = d
\* No edit call approves its own proposal: config.editing.auto_confirm_edits is off.
Manual == AutoCalls \subseteq NsCalls

\* With request ids of their own, the slot of a call that has not staged is empty.
LEMMA FreshSlot ==
  ASSUME TInv, KInv, Fresh, Distinct, NEW c \in Calls, pc[c] \in Early
  PROVE  proposals[ReqOf[c]] = None
<1>1. ~HeldIn(proposals, c)
    BY DEF Fresh, Copied
<1>2. RegistryTypes
    BY TypeParts DEF TInv
<1>3. ReqOf[c] \in Reqs
    BY ConstantsAssumption
<1> SUFFICES ASSUME proposals[ReqOf[c]] # None PROVE FALSE
    OBVIOUS
<1>4. proposals[ReqOf[c]] \in Proposal
    BY <1>2, <1>3 DEF RegistryTypes, Registry
<1>5. proposals[ReqOf[c]].call \in Calls /\ ReqOf[proposals[ReqOf[c]].call] = ReqOf[c]
    BY <1>3, <1>4 DEF KInv, Keyed, KeyedIn, Proposal
<1> QED BY <1>1, <1>3, <1>5 DEF Distinct, HeldIn

\* A proposal whose status is set is a proposal of the same call.
LEMMA StatusSet ==
  ASSUME NEW p \in Proposal, NEW s \in Status
  PROVE  /\ [p EXCEPT !.status = s] \in Proposal
         /\ [p EXCEPT !.status = s] # None
         /\ [p EXCEPT !.status = s].call = p.call
         /\ [p EXCEPT !.status = s].status = s
<1>1. /\ [p EXCEPT !.status = s] \in Proposal
      /\ [p EXCEPT !.status = s].call = p.call
      /\ [p EXCEPT !.status = s].status = s
    BY DEF Proposal
<1> QED BY <1>1, NoneAssumption

\* A call that is to be told, or was told, that its proposal is staged has an entry.
Registered ==
  crashes = 0 =>
    \A c \in Calls : answer[c] = "staged" \/ pc[c] = "announce" \/ then[c] = "announce" =>
      proposals[ReqOf[c]] # None

\* Only a restart takes an entry out of the registry.
Keeps == \A r \in Reqs : crashes' = crashes /\ proposals[r] # None => proposals'[r] # None

LEMMA KeepsStep == ASSUME TInv, Next PROVE Keeps
<1> USE DEF taskVars, bulkVars, fileVars, callVars
<1>0. TaskTypes /\ RegistryTypes /\ RequestKnown /\ OtherTypes
    BY TypeParts DEF TInv
<1> USE DEF TaskTypes, RegistryTypes, RequestKnown, OtherTypes
<1>1. ASSUME NEW c \in Calls, ToolCallRequested(c) PROVE Keeps
  BY <1>0, ConstantsAssumption, NoneAssumption, <1>1 DEF ToolCallRequested, Goto, Keeps,
     Workers, Registry, Proposal
<1>2. ASSUME NEW c \in Calls, CheckDuplicate(c) PROVE Keeps
  BY <1>0, ConstantsAssumption, NoneAssumption, <1>2 DEF CheckDuplicate, Goto, Return,
     Answer, LockFree, NoProposal, Keeps, Workers, Registry, Proposal
<1>3. ASSUME NEW c \in Calls, StagingFails(c) PROVE Keeps
  BY <1>0, ConstantsAssumption, NoneAssumption, <1>3 DEF StagingFails, Return, Answer,
     Goto, Keeps, Workers, Registry, Proposal
<1>4. ASSUME NEW c \in Calls, ResolveEdits(c) PROVE Keeps
  BY <1>0, ConstantsAssumption, NoneAssumption, <1>4 DEF ResolveEdits, Goto, Keeps,
     Workers, Registry, Proposal
<1>5. ASSUME NEW c \in Calls, StageProposal(c) PROVE Keeps
  <2>1. [call |-> c, status |-> "Pending"] \in Proposal
    BY DEF Proposal, Status
  <2>2. PICK q : q # None /\ proposals' = [proposals EXCEPT ![req[c]] = q]
    BY <1>5, <2>1, NoneAssumption DEF StageProposal
  <2> QED BY <2>2, <1>0 DEF Keeps, Registry
<1>6. ASSUME NEW c \in Calls, AnnounceStaged(c) PROVE Keeps
  BY <1>0, ConstantsAssumption, NoneAssumption, <1>6 DEF AnnounceStaged, Goto, Return,
     Answer, Keeps, Workers, Registry, Proposal
<1>7. ASSUME NEW w \in Workers, ApproveRead(w) PROVE Keeps
  BY <1>0, ConstantsAssumption, NoneAssumption, <1>7 DEF ApproveRead, Goto, Return,
     LockFree, NoProposal, Keeps, Workers, Registry, Proposal
<1>8. ASSUME NEW w \in Workers, WriteEdit(w) PROVE Keeps
  BY <1>0, ConstantsAssumption, NoneAssumption, <1>8 DEF WriteEdit, NoMoreEdits, Keeps,
     Workers, Registry, Proposal
<1>9. ASSUME NEW w \in Workers, SkipMismatch(w) PROVE Keeps
  BY <1>0, ConstantsAssumption, NoneAssumption, <1>9 DEF SkipMismatch, NoMoreEdits,
     Keeps, Workers, Registry, Proposal
<1>10. ASSUME NEW w \in Workers, WriteRefused(w) PROVE Keeps
  BY <1>0, ConstantsAssumption, NoneAssumption, <1>10 DEF WriteRefused, NoMoreEdits,
     Keeps, Workers, Registry, Proposal
<1>11. ASSUME NEW w \in Workers, MarkApplied(w) PROVE Keeps
  <2>1. w \in Workers /\ req[w] \in Reqs /\ prop[w] \in Proposal
    BY <1>11, <1>0 DEF MarkApplied, Workers
  <2>2. PICK q : q # None /\ proposals' = [proposals EXCEPT ![req[w]] = q]
    BY <1>11, <2>1, StatusSet DEF MarkApplied, Insert, Status
  <2> QED BY <2>1, <2>2, <1>0 DEF Keeps, Registry
<1>12. ASSUME NEW w \in Workers, MarkFailed(w) PROVE Keeps
  <2>1. w \in Workers /\ req[w] \in Reqs /\ prop[w] \in Proposal
    BY <1>12, <1>0 DEF MarkFailed, Workers
  <2>2. PICK q : q # None /\ proposals' = [proposals EXCEPT ![req[w]] = q]
    BY <1>12, <2>1, StatusSet DEF MarkFailed, Insert, Status
  <2> QED BY <2>1, <2>2, <1>0 DEF Keeps, Registry
<1>13. ASSUME NEW w \in Workers, SpawnRescan(w) PROVE Keeps
  BY <1>0, ConstantsAssumption, NoneAssumption, <1>13 DEF SpawnRescan, Return, Goto,
     Keeps, Workers, Registry, Proposal
<1>14. ASSUME NEW w \in Workers, SaveSnapshot(w) PROVE Keeps
  BY <1>0, ConstantsAssumption, NoneAssumption, <1>14 DEF SaveSnapshot, Goto, LockFree,
     Keeps, Workers, Registry, Proposal
<1>15. ASSUME NEW w \in Workers, SaveTruncate(w) PROVE Keeps
  BY <1>0, ConstantsAssumption, NoneAssumption, <1>15 DEF SaveTruncate, Goto, Keeps,
     Workers, Registry, Proposal
<1>16. ASSUME NEW w \in Workers, SaveFlush(w) PROVE Keeps
  BY <1>0, ConstantsAssumption, NoneAssumption, <1>16 DEF SaveFlush, Goto, Return,
     EmptyRegistry, Keeps, Workers, Registry, Proposal
<1>17. ASSUME NEW r \in Reqs, ApproveEdits(r) PROVE Keeps
  BY <1>0, ConstantsAssumption, NoneAssumption, <1>17 DEF ApproveEdits, Goto,
     UserCommand, Keeps, Workers, Registry, Proposal
<1>18. ASSUME NEW r \in Reqs, DenyEdits(r) PROVE Keeps
  BY <1>0, ConstantsAssumption, NoneAssumption, <1>18 DEF DenyEdits, Goto, UserCommand,
     Keeps, Workers, Registry, Proposal
<1>19. ASSUME DenyRead PROVE Keeps
  BY <1>0, ConstantsAssumption, NoneAssumption, <1>19 DEF DenyRead, Goto, Return,
     LockFree, NoProposal, Keeps, Workers, Registry, Proposal
<1>20. ASSUME MarkDenied PROVE Keeps
  <2>1. Commander \in Workers /\ req[Commander] \in Reqs /\ prop[Commander] \in Proposal
    BY <1>20, <1>0 DEF MarkDenied, Workers
  <2>2. PICK q : q # None /\ proposals' = [proposals EXCEPT ![req[Commander]] = q]
    BY <1>20, <2>1, StatusSet DEF MarkDenied, Insert, Status
  <2> QED BY <2>1, <2>2, <1>0 DEF Keeps, Registry
<1>21. ASSUME ApprovePendingEdits PROVE Keeps
  BY <1>0, ConstantsAssumption, NoneAssumption, <1>21 DEF ApprovePendingEdits, Goto,
     UserCommand, LockFree, Pending, Keeps, Workers, Registry, Proposal
<1>22. ASSUME MarkStale PROVE Keeps
  <2> SUFFICES ASSUME NEW r \in Reqs, proposals[r] # None PROVE proposals'[r] # None
    BY DEF Keeps
  <2>1. proposals[r] \in Proposal
    BY <1>0 DEF Registry
  <2>2. proposals'[r] \in {proposals[r], [proposals[r] EXCEPT !.status = "Stale"]}
    BY <1>22 DEF MarkStale
  <2>3. [proposals[r] EXCEPT !.status = "Stale"] # None
    BY <2>1, StatusSet DEF Status
  <2> QED BY <2>2, <2>3
<1>23. ASSUME DenyPendingEdits PROVE Keeps
  BY <1>0, ConstantsAssumption, NoneAssumption, <1>23 DEF DenyPendingEdits, Goto,
     UserCommand, LockFree, Pending, Keeps, Workers, Registry, Proposal
<1>24. ASSUME NEW c \in Calls, BulkNext(c) PROVE Keeps
  BY <1>0, ConstantsAssumption, NoneAssumption, <1>24 DEF BulkNext, Goto, Keeps,
     Workers, Registry, Proposal
<1>25. ASSUME BulkEnd PROVE Keeps
  BY <1>0, ConstantsAssumption, NoneAssumption, <1>25 DEF BulkEnd, Goto, Save, Keeps,
     Workers, Registry, Proposal
<1>26. ASSUME Rescan PROVE Keeps
  BY <1>0, ConstantsAssumption, NoneAssumption, <1>26 DEF Rescan, Keeps, Workers,
     Registry, Proposal
<1>27. ASSUME NEW f \in Files, ExternalEdit(f) PROVE Keeps
  BY <1>0, ConstantsAssumption, NoneAssumption, <1>27 DEF ExternalEdit, Keeps, Workers,
     Registry, Proposal
<1>28. ASSUME CrashAndRestart PROVE Keeps
  BY <1>0, ConstantsAssumption, NoneAssumption, <1>28 DEF CrashAndRestart,
     EmptyRegistry, Keeps, Workers, Registry, Proposal
<1> QED BY <1>1, <1>2, <1>3, <1>4, <1>5, <1>6, <1>7, <1>8, <1>9, <1>10, <1>11, <1>12,
   <1>13, <1>14, <1>15, <1>16, <1>17, <1>18, <1>19, <1>20, <1>21, <1>22, <1>23, <1>24,
   <1>25, <1>26, <1>27, <1>28 DEF Next, Stage, Approve, SaveProposals, Command, Handle

LEMMA RegisteredStep == ASSUME TInv, KInv, Registered, Next PROVE Registered'
<1> USE DEF taskVars, bulkVars, fileVars, callVars
<1>0. TaskTypes /\ RegistryTypes /\ RequestKnown /\ OtherTypes /\ Keeps /\ RequestIsOwn /\ crashes \in Nat
    BY TypeParts, KeepsStep DEF TInv, KInv, OtherTypes
<1> USE DEF TaskTypes, RegistryTypes, RequestKnown, OtherTypes
<1>1. ASSUME NEW c \in Calls, ToolCallRequested(c) PROVE Registered'
  BY <1>0, ConstantsAssumption, NoneAssumption, <1>1 DEF ToolCallRequested, Goto,
     Registered, RequestIsOwn, Keeps, Workers, Registry, Proposal
<1>2. ASSUME NEW c \in Calls, CheckDuplicate(c) PROVE Registered'
  BY <1>0, ConstantsAssumption, NoneAssumption, <1>2 DEF CheckDuplicate, Goto, Return,
     Answer, LockFree, NoProposal, Registered, RequestIsOwn, Keeps, Workers, Registry,
     Proposal
<1>3. ASSUME NEW c \in Calls, StagingFails(c) PROVE Registered'
  BY <1>0, ConstantsAssumption, NoneAssumption, <1>3 DEF StagingFails, Return, Answer,
     Goto, Registered, RequestIsOwn, Keeps, Workers, Registry, Proposal
<1>4. ASSUME NEW c \in Calls, ResolveEdits(c) PROVE Registered'
  BY <1>0, ConstantsAssumption, NoneAssumption, <1>4 DEF ResolveEdits, Goto, Registered,
     RequestIsOwn, Keeps, Workers, Registry, Proposal
<1>5. ASSUME NEW c \in Calls, StageProposal(c) PROVE Registered'
  <2>1. [call |-> c, status |-> "Pending"] # None
    BY NoneAssumption DEF Proposal, Status
  <2>2. c \in Workers /\ req[c] = ReqOf[c] /\ ReqOf[c] \in Reqs
    BY <1>5, <1>0, ConstantsAssumption DEF StageProposal, RequestIsOwn, Workers
  <2>3. proposals'[ReqOf[c]] # None
    BY <1>5, <2>1, <2>2, <1>0 DEF StageProposal, Registry
  <2>4. /\ UNCHANGED <<answer, crashes>>
        /\ \A d \in Calls \ {c} : pc'[d] = pc[d] /\ then'[d] = then[d]
    BY <1>5, <1>0, <2>2 DEF StageProposal, Save, Goto, Workers
  <2> QED BY <2>3, <2>4, <1>0, ConstantsAssumption DEF Registered, Keeps
<1>6. ASSUME NEW c \in Calls, AnnounceStaged(c) PROVE Registered'
  BY <1>0, ConstantsAssumption, NoneAssumption, <1>6 DEF AnnounceStaged, Goto, Return,
     Answer, Registered, RequestIsOwn, Keeps, Workers, Registry, Proposal
<1>7. ASSUME NEW w \in Workers, ApproveRead(w) PROVE Registered'
  BY <1>0, ConstantsAssumption, NoneAssumption, <1>7 DEF ApproveRead, Goto, Return,
     LockFree, NoProposal, Registered, RequestIsOwn, Keeps, Workers, Registry, Proposal
<1>8. ASSUME NEW w \in Workers, WriteEdit(w) PROVE Registered'
  BY <1>0, ConstantsAssumption, NoneAssumption, <1>8 DEF WriteEdit, NoMoreEdits,
     Registered, RequestIsOwn, Keeps, Workers, Registry, Proposal
<1>9. ASSUME NEW w \in Workers, SkipMismatch(w) PROVE Registered'
  BY <1>0, ConstantsAssumption, NoneAssumption, <1>9 DEF SkipMismatch, NoMoreEdits,
     Registered, RequestIsOwn, Keeps, Workers, Registry, Proposal
<1>10. ASSUME NEW w \in Workers, WriteRefused(w) PROVE Registered'
  BY <1>0, ConstantsAssumption, NoneAssumption, <1>10 DEF WriteRefused, NoMoreEdits,
     Registered, RequestIsOwn, Keeps, Workers, Registry, Proposal
<1>11. ASSUME NEW w \in Workers, MarkApplied(w) PROVE Registered'
  <2>1. w \in Workers /\ prop[w].call \in Calls
    BY <1>11, <1>0 DEF MarkApplied, Proposal
  <2>2. \A c \in Calls : /\ answer'[c] = "staged" => answer[c] = "staged"
                         /\ pc'[c] = "announce" => pc[c] = "announce"
                         /\ then'[c] = "announce" => then[c] = "announce"
    BY <1>11, <1>0, <2>1 DEF MarkApplied, Answer, Save, Goto, Workers
  <2>3. crashes' = crashes
    BY <1>11 DEF MarkApplied
  <2> QED BY <2>2, <2>3, <1>0, ConstantsAssumption DEF Registered, Keeps
<1>12. ASSUME NEW w \in Workers, MarkFailed(w) PROVE Registered'
  <2>1. w \in Workers /\ prop[w].call \in Calls
    BY <1>12, <1>0 DEF MarkFailed, Proposal
  <2>2. \A c \in Calls : /\ answer'[c] = "staged" => answer[c] = "staged"
                         /\ pc'[c] = "announce" => pc[c] = "announce"
                         /\ then'[c] = "announce" => then[c] = "announce"
    BY <1>12, <1>0, <2>1 DEF MarkFailed, Answer, Save, Goto, Workers
  <2>3. crashes' = crashes
    BY <1>12 DEF MarkFailed
  <2> QED BY <2>2, <2>3, <1>0, ConstantsAssumption DEF Registered, Keeps
<1>13. ASSUME NEW w \in Workers, SpawnRescan(w) PROVE Registered'
  BY <1>0, ConstantsAssumption, NoneAssumption, <1>13 DEF SpawnRescan, Return, Goto,
     Registered, RequestIsOwn, Keeps, Workers, Registry, Proposal
<1>14. ASSUME NEW w \in Workers, SaveSnapshot(w) PROVE Registered'
  BY <1>0, ConstantsAssumption, NoneAssumption, <1>14 DEF SaveSnapshot, Goto, LockFree,
     Registered, RequestIsOwn, Keeps, Workers, Registry, Proposal
<1>15. ASSUME NEW w \in Workers, SaveTruncate(w) PROVE Registered'
  BY <1>0, ConstantsAssumption, NoneAssumption, <1>15 DEF SaveTruncate, Goto,
     Registered, RequestIsOwn, Keeps, Workers, Registry, Proposal
<1>16. ASSUME NEW w \in Workers, SaveFlush(w) PROVE Registered'
  BY <1>0, ConstantsAssumption, NoneAssumption, <1>16 DEF SaveFlush, Goto, Return,
     EmptyRegistry, Registered, RequestIsOwn, Keeps, Workers, Registry, Proposal
<1>17. ASSUME NEW r \in Reqs, ApproveEdits(r) PROVE Registered'
  BY <1>0, ConstantsAssumption, NoneAssumption, <1>17 DEF ApproveEdits, Goto,
     UserCommand, Registered, RequestIsOwn, Keeps, Workers, Registry, Proposal
<1>18. ASSUME NEW r \in Reqs, DenyEdits(r) PROVE Registered'
  BY <1>0, ConstantsAssumption, NoneAssumption, <1>18 DEF DenyEdits, Goto, UserCommand,
     Registered, RequestIsOwn, Keeps, Workers, Registry, Proposal
<1>19. ASSUME DenyRead PROVE Registered'
  BY <1>0, ConstantsAssumption, NoneAssumption, <1>19 DEF DenyRead, Goto, Return,
     LockFree, NoProposal, Registered, RequestIsOwn, Keeps, Workers, Registry, Proposal
<1>20. ASSUME MarkDenied PROVE Registered'
  BY <1>0, ConstantsAssumption, NoneAssumption, <1>20 DEF MarkDenied, Save, Answer,
     Insert, LockFree, Goto, Registered, RequestIsOwn, Keeps, Workers, Registry, Proposal
<1>21. ASSUME ApprovePendingEdits PROVE Registered'
  BY <1>0, ConstantsAssumption, NoneAssumption, <1>21 DEF ApprovePendingEdits, Goto,
     UserCommand, LockFree, Pending, Registered, RequestIsOwn, Keeps, Workers, Registry,
     Proposal
<1>22. ASSUME MarkStale PROVE Registered'
  BY <1>0, ConstantsAssumption, NoneAssumption, <1>22 DEF MarkStale, Goto, LockFree,
     NoProposal, Registered, RequestIsOwn, Keeps, Workers, Registry, Proposal
<1>23. ASSUME DenyPendingEdits PROVE Registered'
  BY <1>0, ConstantsAssumption, NoneAssumption, <1>23 DEF DenyPendingEdits, Goto,
     UserCommand, LockFree, Pending, Registered, RequestIsOwn, Keeps, Workers, Registry,
     Proposal
<1>24. ASSUME NEW c \in Calls, BulkNext(c) PROVE Registered'
  BY <1>0, ConstantsAssumption, NoneAssumption, <1>24 DEF BulkNext, Goto, Registered,
     RequestIsOwn, Keeps, Workers, Registry, Proposal
<1>25. ASSUME BulkEnd PROVE Registered'
  BY <1>0, ConstantsAssumption, NoneAssumption, <1>25 DEF BulkEnd, Goto, Save,
     Registered, RequestIsOwn, Keeps, Workers, Registry, Proposal
<1>26. ASSUME Rescan PROVE Registered'
  BY <1>0, ConstantsAssumption, NoneAssumption, <1>26 DEF Rescan, Registered,
     RequestIsOwn, Keeps, Workers, Registry, Proposal
<1>27. ASSUME NEW f \in Files, ExternalEdit(f) PROVE Registered'
  BY <1>0, ConstantsAssumption, NoneAssumption, <1>27 DEF ExternalEdit, Registered,
     RequestIsOwn, Keeps, Workers, Registry, Proposal
<1>28. ASSUME CrashAndRestart PROVE Registered'
  BY <1>0, ConstantsAssumption, NoneAssumption, <1>28 DEF CrashAndRestart,
     EmptyRegistry, Registered, RequestIsOwn, Keeps, Workers, Registry, Proposal
<1> QED BY <1>1, <1>2, <1>3, <1>4, <1>5, <1>6, <1>7, <1>8, <1>9, <1>10, <1>11, <1>12,
   <1>13, <1>14, <1>15, <1>16, <1>17, <1>18, <1>19, <1>20, <1>21, <1>22, <1>23, <1>24,
   <1>25, <1>26, <1>27, <1>28 DEF Next, Stage, Approve, SaveProposals, Command, Handle

\* The operations that change the registry.
RegistryChange ==
  \/ proposals' = proposals
  \/ \E c \in Calls : StageProposal(c)
  \/ \E w \in Workers : MarkApplied(w) \/ MarkFailed(w)
  \/ MarkDenied
  \/ MarkStale
  \/ CrashAndRestart

LEMMA RegistryStep == ASSUME Next PROVE RegistryChange
<1>1. ASSUME NEW c \in Calls, ToolCallRequested(c) PROVE RegistryChange
  BY <1>1 DEF ToolCallRequested, Goto, RegistryChange
<1>2. ASSUME NEW c \in Calls, CheckDuplicate(c) PROVE RegistryChange
  BY <1>2 DEF CheckDuplicate, Goto, Return, Answer, LockFree, NoProposal,
     RegistryChange
<1>3. ASSUME NEW c \in Calls, StagingFails(c) PROVE RegistryChange
  BY <1>3 DEF StagingFails, Return, Answer, Goto, RegistryChange
<1>4. ASSUME NEW c \in Calls, ResolveEdits(c) PROVE RegistryChange
  BY <1>4 DEF ResolveEdits, Goto, RegistryChange
<1>5. ASSUME NEW c \in Calls, StageProposal(c) PROVE RegistryChange
  BY <1>5 DEF StageProposal, Save, LockFree, Pending, Goto, RegistryChange
<1>6. ASSUME NEW c \in Calls, AnnounceStaged(c) PROVE RegistryChange
  BY <1>6 DEF AnnounceStaged, Goto, Return, Answer, RegistryChange
<1>7. ASSUME NEW w \in Workers, ApproveRead(w) PROVE RegistryChange
  BY <1>7 DEF ApproveRead, Goto, Return, LockFree, NoProposal, RegistryChange
<1>8. ASSUME NEW w \in Workers, WriteEdit(w) PROVE RegistryChange
  BY <1>8 DEF WriteEdit, NoMoreEdits, RegistryChange
<1>9. ASSUME NEW w \in Workers, SkipMismatch(w) PROVE RegistryChange
  BY <1>9 DEF SkipMismatch, NoMoreEdits, RegistryChange
<1>10. ASSUME NEW w \in Workers, WriteRefused(w) PROVE RegistryChange
  BY <1>10 DEF WriteRefused, NoMoreEdits, RegistryChange
<1>11. ASSUME NEW w \in Workers, MarkApplied(w) PROVE RegistryChange
  BY <1>11 DEF MarkApplied, Save, Answer, Insert, LockFree, NoMoreEdits, Goto,
     RegistryChange
<1>12. ASSUME NEW w \in Workers, MarkFailed(w) PROVE RegistryChange
  BY <1>12 DEF MarkFailed, Save, Answer, Insert, LockFree, Goto, RegistryChange
<1>13. ASSUME NEW w \in Workers, SpawnRescan(w) PROVE RegistryChange
  BY <1>13 DEF SpawnRescan, Return, Goto, RegistryChange
<1>14. ASSUME NEW w \in Workers, SaveSnapshot(w) PROVE RegistryChange
  BY <1>14 DEF SaveSnapshot, Goto, LockFree, RegistryChange
<1>15. ASSUME NEW w \in Workers, SaveTruncate(w) PROVE RegistryChange
  BY <1>15 DEF SaveTruncate, Goto, RegistryChange
<1>16. ASSUME NEW w \in Workers, SaveFlush(w) PROVE RegistryChange
  BY <1>16 DEF SaveFlush, Goto, Return, EmptyRegistry, RegistryChange
<1>17. ASSUME NEW r \in Reqs, ApproveEdits(r) PROVE RegistryChange
  BY <1>17 DEF ApproveEdits, Goto, UserCommand, RegistryChange
<1>18. ASSUME NEW r \in Reqs, DenyEdits(r) PROVE RegistryChange
  BY <1>18 DEF DenyEdits, Goto, UserCommand, RegistryChange
<1>19. ASSUME DenyRead PROVE RegistryChange
  BY <1>19 DEF DenyRead, Goto, Return, LockFree, NoProposal, RegistryChange
<1>20. ASSUME MarkDenied PROVE RegistryChange
  BY <1>20 DEF MarkDenied, Save, Answer, Insert, LockFree, Goto, RegistryChange
<1>21. ASSUME ApprovePendingEdits PROVE RegistryChange
  BY <1>21 DEF ApprovePendingEdits, Goto, UserCommand, LockFree, Pending,
     RegistryChange
<1>22. ASSUME MarkStale PROVE RegistryChange
  BY <1>22 DEF MarkStale, Goto, LockFree, NoProposal, RegistryChange
<1>23. ASSUME DenyPendingEdits PROVE RegistryChange
  BY <1>23 DEF DenyPendingEdits, Goto, UserCommand, LockFree, Pending,
     RegistryChange
<1>24. ASSUME NEW c \in Calls, BulkNext(c) PROVE RegistryChange
  BY <1>24 DEF BulkNext, Goto, RegistryChange
<1>25. ASSUME BulkEnd PROVE RegistryChange
  BY <1>25 DEF BulkEnd, Goto, Save, RegistryChange
<1>26. ASSUME Rescan PROVE RegistryChange
  BY <1>26 DEF Rescan, RegistryChange
<1>27. ASSUME NEW f \in Files, ExternalEdit(f) PROVE RegistryChange
  BY <1>27 DEF ExternalEdit, RegistryChange
<1>28. ASSUME CrashAndRestart PROVE RegistryChange
  BY <1>28 DEF CrashAndRestart, EmptyRegistry, RegistryChange
<1> QED BY <1>1, <1>2, <1>3, <1>4, <1>5, <1>6, <1>7, <1>8, <1>9, <1>10, <1>11, <1>12,
   <1>13, <1>14, <1>15, <1>16, <1>17, <1>18, <1>19, <1>20, <1>21, <1>22, <1>23, <1>24,
   <1>25, <1>26, <1>27, <1>28 DEF Next, Stage, Approve, SaveProposals, Command, Handle

\* Without auto-confirm a tool call stages and saves, and is never an approver.
CallsOnlyStage ==
  \A c \in Calls :
    /\ pc[c] \in Early \cup Saving \cup {"announce", "done"}
    /\ then[c] # "rescan"

\* The commander's clone is what the registry holds, and it is not resolved.
CloneCurrent ==
  pc[Commander] \in {"write", "denied"} =>
    prop[Commander] = proposals[req[Commander]] /\ prop[Commander].status \notin {"Applied", "Denied"}

\* What a bulk approval is about to mark stale is still pending.
StalePending ==
  pc[Commander] = "stale" =>
    \A c \in toStale : proposals[ReqOf[c]] = [call |-> c, status |-> "Pending"]

LEMMA CallsStep == ASSUME TInv, Manual, CallsOnlyStage, Next PROVE CallsOnlyStage'
<1> USE DEF taskVars, bulkVars, fileVars, callVars
<1>0. TaskTypes /\ RequestKnown
    BY TypeParts DEF TInv
<1> USE DEF TaskTypes, RequestKnown
<1>1. ASSUME NEW c \in Calls, ToolCallRequested(c) PROVE CallsOnlyStage'
  BY <1>0, ConstantsAssumption, NoneAssumption, <1>1 DEF ToolCallRequested, Goto,
     CallsOnlyStage, Manual, Workers, Early, Saving
<1>2. ASSUME NEW c \in Calls, CheckDuplicate(c) PROVE CallsOnlyStage'
  BY <1>0, ConstantsAssumption, NoneAssumption, <1>2 DEF CheckDuplicate, Goto, Return,
     Answer, LockFree, NoProposal, CallsOnlyStage, Manual, Workers, Early, Saving
<1>3. ASSUME NEW c \in Calls, StagingFails(c) PROVE CallsOnlyStage'
  BY <1>0, ConstantsAssumption, NoneAssumption, <1>3 DEF StagingFails, Return, Answer,
     Goto, CallsOnlyStage, Manual, Workers, Early, Saving
<1>4. ASSUME NEW c \in Calls, ResolveEdits(c) PROVE CallsOnlyStage'
  BY <1>0, ConstantsAssumption, NoneAssumption, <1>4 DEF ResolveEdits, Goto,
     CallsOnlyStage, Manual, Workers, Early, Saving
<1>5. ASSUME NEW c \in Calls, StageProposal(c) PROVE CallsOnlyStage'
  BY <1>0, ConstantsAssumption, NoneAssumption, <1>5 DEF StageProposal, Save, LockFree,
     Pending, Goto, CallsOnlyStage, Manual, Workers, Early, Saving
<1>6. ASSUME NEW c \in Calls, AnnounceStaged(c) PROVE CallsOnlyStage'
  BY <1>0, ConstantsAssumption, NoneAssumption, <1>6 DEF AnnounceStaged, Goto, Return,
     Answer, CallsOnlyStage, Manual, Workers, Early, Saving
<1>7. ASSUME NEW w \in Workers, ApproveRead(w) PROVE CallsOnlyStage'
  BY <1>0, ConstantsAssumption, NoneAssumption, <1>7 DEF ApproveRead, Goto, Return,
     LockFree, NoProposal, CallsOnlyStage, Manual, Workers, Early, Saving
<1>8. ASSUME NEW w \in Workers, WriteEdit(w) PROVE CallsOnlyStage'
  BY <1>0, ConstantsAssumption, NoneAssumption, <1>8 DEF WriteEdit, NoMoreEdits,
     CallsOnlyStage, Manual, Workers, Early, Saving
<1>9. ASSUME NEW w \in Workers, SkipMismatch(w) PROVE CallsOnlyStage'
  BY <1>0, ConstantsAssumption, NoneAssumption, <1>9 DEF SkipMismatch, NoMoreEdits,
     CallsOnlyStage, Manual, Workers, Early, Saving
<1>10. ASSUME NEW w \in Workers, WriteRefused(w) PROVE CallsOnlyStage'
  BY <1>0, ConstantsAssumption, NoneAssumption, <1>10 DEF WriteRefused, NoMoreEdits,
     CallsOnlyStage, Manual, Workers, Early, Saving
<1>11. ASSUME NEW w \in Workers, MarkApplied(w) PROVE CallsOnlyStage'
  BY <1>0, ConstantsAssumption, NoneAssumption, <1>11 DEF MarkApplied, Save, Answer,
     Insert, LockFree, NoMoreEdits, Goto, CallsOnlyStage, Manual, Workers, Early, Saving
<1>12. ASSUME NEW w \in Workers, MarkFailed(w) PROVE CallsOnlyStage'
  BY <1>0, ConstantsAssumption, NoneAssumption, <1>12 DEF MarkFailed, Save, Answer,
     Insert, LockFree, Goto, CallsOnlyStage, Manual, Workers, Early, Saving
<1>13. ASSUME NEW w \in Workers, SpawnRescan(w) PROVE CallsOnlyStage'
  BY <1>0, ConstantsAssumption, NoneAssumption, <1>13 DEF SpawnRescan, Return, Goto,
     CallsOnlyStage, Manual, Workers, Early, Saving
<1>14. ASSUME NEW w \in Workers, SaveSnapshot(w) PROVE CallsOnlyStage'
  BY <1>0, ConstantsAssumption, NoneAssumption, <1>14 DEF SaveSnapshot, Goto, LockFree,
     CallsOnlyStage, Manual, Workers, Early, Saving
<1>15. ASSUME NEW w \in Workers, SaveTruncate(w) PROVE CallsOnlyStage'
  BY <1>0, ConstantsAssumption, NoneAssumption, <1>15 DEF SaveTruncate, Goto,
     CallsOnlyStage, Manual, Workers, Early, Saving
<1>16. ASSUME NEW w \in Workers, SaveFlush(w) PROVE CallsOnlyStage'
  BY <1>0, ConstantsAssumption, NoneAssumption, <1>16 DEF SaveFlush, Goto, Return,
     EmptyRegistry, CallsOnlyStage, Manual, Workers, Early, Saving
<1>17. ASSUME NEW r \in Reqs, ApproveEdits(r) PROVE CallsOnlyStage'
  BY <1>0, ConstantsAssumption, NoneAssumption, <1>17 DEF ApproveEdits, Goto,
     UserCommand, CallsOnlyStage, Manual, Workers, Early, Saving
<1>18. ASSUME NEW r \in Reqs, DenyEdits(r) PROVE CallsOnlyStage'
  BY <1>0, ConstantsAssumption, NoneAssumption, <1>18 DEF DenyEdits, Goto, UserCommand,
     CallsOnlyStage, Manual, Workers, Early, Saving
<1>19. ASSUME DenyRead PROVE CallsOnlyStage'
  BY <1>0, ConstantsAssumption, NoneAssumption, <1>19 DEF DenyRead, Goto, Return,
     LockFree, NoProposal, CallsOnlyStage, Manual, Workers, Early, Saving
<1>20. ASSUME MarkDenied PROVE CallsOnlyStage'
  BY <1>0, ConstantsAssumption, NoneAssumption, <1>20 DEF MarkDenied, Save, Answer,
     Insert, LockFree, Goto, CallsOnlyStage, Manual, Workers, Early, Saving
<1>21. ASSUME ApprovePendingEdits PROVE CallsOnlyStage'
  BY <1>0, ConstantsAssumption, NoneAssumption, <1>21 DEF ApprovePendingEdits, Goto,
     UserCommand, LockFree, Pending, CallsOnlyStage, Manual, Workers, Early, Saving
<1>22. ASSUME MarkStale PROVE CallsOnlyStage'
  BY <1>0, ConstantsAssumption, NoneAssumption, <1>22 DEF MarkStale, Goto, LockFree,
     NoProposal, CallsOnlyStage, Manual, Workers, Early, Saving
<1>23. ASSUME DenyPendingEdits PROVE CallsOnlyStage'
  BY <1>0, ConstantsAssumption, NoneAssumption, <1>23 DEF DenyPendingEdits, Goto,
     UserCommand, LockFree, Pending, CallsOnlyStage, Manual, Workers, Early, Saving
<1>24. ASSUME NEW c \in Calls, BulkNext(c) PROVE CallsOnlyStage'
  BY <1>0, ConstantsAssumption, NoneAssumption, <1>24 DEF BulkNext, Goto,
     CallsOnlyStage, Manual, Workers, Early, Saving
<1>25. ASSUME BulkEnd PROVE CallsOnlyStage'
  BY <1>0, ConstantsAssumption, NoneAssumption, <1>25 DEF BulkEnd, Goto, Save,
     CallsOnlyStage, Manual, Workers, Early, Saving
<1>26. ASSUME Rescan PROVE CallsOnlyStage'
  BY <1>0, ConstantsAssumption, NoneAssumption, <1>26 DEF Rescan, CallsOnlyStage,
     Manual, Workers, Early, Saving
<1>27. ASSUME NEW f \in Files, ExternalEdit(f) PROVE CallsOnlyStage'
  BY <1>0, ConstantsAssumption, NoneAssumption, <1>27 DEF ExternalEdit, CallsOnlyStage,
     Manual, Workers, Early, Saving
<1>28. ASSUME CrashAndRestart PROVE CallsOnlyStage'
  BY <1>0, ConstantsAssumption, NoneAssumption, <1>28 DEF CrashAndRestart,
     EmptyRegistry, CallsOnlyStage, Manual, Workers, Early, Saving
<1> QED BY <1>1, <1>2, <1>3, <1>4, <1>5, <1>6, <1>7, <1>8, <1>9, <1>10, <1>11, <1>12,
   <1>13, <1>14, <1>15, <1>16, <1>17, <1>18, <1>19, <1>20, <1>21, <1>22, <1>23, <1>24,
   <1>25, <1>26, <1>27, <1>28 DEF Next, Stage, Approve, SaveProposals, Command, Handle

LEMMA CloneStep ==
  ASSUME TInv, KInv, Fresh, Distinct, CallsOnlyStage, CloneCurrent, Next PROVE CloneCurrent'
<1> USE DEF taskVars, bulkVars, fileVars, callVars
<1>0. TaskTypes /\ RegistryTypes /\ RequestKnown /\ BulkKnown /\ RequestIsOwn
    BY TypeParts DEF TInv, KInv
<1>f. \A c \in Calls : pc[c] \in Early => proposals[ReqOf[c]] = None
    BY FreshSlot
<1> USE DEF TaskTypes, RegistryTypes, RequestKnown
<1>1. ASSUME NEW c \in Calls, ToolCallRequested(c) PROVE CloneCurrent'
  BY <1>0, <1>f, ConstantsAssumption, NoneAssumption, <1>1 DEF ToolCallRequested, Goto,
     CloneCurrent, CallsOnlyStage, RequestIsOwn, BulkKnown, Workers, Early, Saving,
     Registry, Proposal
<1>2. ASSUME NEW c \in Calls, CheckDuplicate(c) PROVE CloneCurrent'
  BY <1>0, <1>f, ConstantsAssumption, NoneAssumption, <1>2 DEF CheckDuplicate, Goto,
     Return, Answer, LockFree, NoProposal, CloneCurrent, CallsOnlyStage, RequestIsOwn,
     BulkKnown, Workers, Early, Saving, Registry, Proposal
<1>3. ASSUME NEW c \in Calls, StagingFails(c) PROVE CloneCurrent'
  BY <1>0, <1>f, ConstantsAssumption, NoneAssumption, <1>3 DEF StagingFails, Return,
     Answer, Goto, CloneCurrent, CallsOnlyStage, RequestIsOwn, BulkKnown, Workers, Early,
     Saving, Registry, Proposal
<1>4. ASSUME NEW c \in Calls, ResolveEdits(c) PROVE CloneCurrent'
  BY <1>0, <1>f, ConstantsAssumption, NoneAssumption, <1>4 DEF ResolveEdits, Goto,
     CloneCurrent, CallsOnlyStage, RequestIsOwn, BulkKnown, Workers, Early, Saving,
     Registry, Proposal
<1>5. ASSUME NEW c \in Calls, StageProposal(c) PROVE CloneCurrent'
  BY <1>0, <1>f, ConstantsAssumption, NoneAssumption, <1>5 DEF StageProposal, Save,
     LockFree, Pending, Goto, CloneCurrent, CallsOnlyStage, RequestIsOwn, BulkKnown,
     Workers, Early, Saving, Registry, Proposal
<1>6. ASSUME NEW c \in Calls, AnnounceStaged(c) PROVE CloneCurrent'
  BY <1>0, <1>f, ConstantsAssumption, NoneAssumption, <1>6 DEF AnnounceStaged, Goto,
     Return, Answer, CloneCurrent, CallsOnlyStage, RequestIsOwn, BulkKnown, Workers,
     Early, Saving, Registry, Proposal
<1>7. ASSUME NEW w \in Workers, ApproveRead(w) PROVE CloneCurrent'
  BY <1>0, <1>f, ConstantsAssumption, NoneAssumption, <1>7 DEF ApproveRead, Goto,
     Return, LockFree, NoProposal, CloneCurrent, CallsOnlyStage, RequestIsOwn, BulkKnown,
     Workers, Early, Saving, Registry, Proposal
<1>8. ASSUME NEW w \in Workers, WriteEdit(w) PROVE CloneCurrent'
  BY <1>0, <1>f, ConstantsAssumption, NoneAssumption, <1>8 DEF WriteEdit, NoMoreEdits,
     CloneCurrent, CallsOnlyStage, RequestIsOwn, BulkKnown, Workers, Early, Saving,
     Registry, Proposal
<1>9. ASSUME NEW w \in Workers, SkipMismatch(w) PROVE CloneCurrent'
  BY <1>0, <1>f, ConstantsAssumption, NoneAssumption, <1>9 DEF SkipMismatch,
     NoMoreEdits, CloneCurrent, CallsOnlyStage, RequestIsOwn, BulkKnown, Workers, Early,
     Saving, Registry, Proposal
<1>10. ASSUME NEW w \in Workers, WriteRefused(w) PROVE CloneCurrent'
  BY <1>0, <1>f, ConstantsAssumption, NoneAssumption, <1>10 DEF WriteRefused,
     NoMoreEdits, CloneCurrent, CallsOnlyStage, RequestIsOwn, BulkKnown, Workers, Early,
     Saving, Registry, Proposal
<1>11. ASSUME NEW w \in Workers, MarkApplied(w) PROVE CloneCurrent'
  BY <1>0, <1>f, ConstantsAssumption, NoneAssumption, <1>11 DEF MarkApplied, Save,
     Answer, Insert, LockFree, NoMoreEdits, Goto, CloneCurrent, CallsOnlyStage,
     RequestIsOwn, BulkKnown, Workers, Early, Saving, Registry, Proposal
<1>12. ASSUME NEW w \in Workers, MarkFailed(w) PROVE CloneCurrent'
  BY <1>0, <1>f, ConstantsAssumption, NoneAssumption, <1>12 DEF MarkFailed, Save,
     Answer, Insert, LockFree, Goto, CloneCurrent, CallsOnlyStage, RequestIsOwn,
     BulkKnown, Workers, Early, Saving, Registry, Proposal
<1>13. ASSUME NEW w \in Workers, SpawnRescan(w) PROVE CloneCurrent'
  BY <1>0, <1>f, ConstantsAssumption, NoneAssumption, <1>13 DEF SpawnRescan, Return,
     Goto, CloneCurrent, CallsOnlyStage, RequestIsOwn, BulkKnown, Workers, Early, Saving,
     Registry, Proposal
<1>14. ASSUME NEW w \in Workers, SaveSnapshot(w) PROVE CloneCurrent'
  BY <1>0, <1>f, ConstantsAssumption, NoneAssumption, <1>14 DEF SaveSnapshot, Goto,
     LockFree, CloneCurrent, CallsOnlyStage, RequestIsOwn, BulkKnown, Workers, Early,
     Saving, Registry, Proposal
<1>15. ASSUME NEW w \in Workers, SaveTruncate(w) PROVE CloneCurrent'
  BY <1>0, <1>f, ConstantsAssumption, NoneAssumption, <1>15 DEF SaveTruncate, Goto,
     CloneCurrent, CallsOnlyStage, RequestIsOwn, BulkKnown, Workers, Early, Saving,
     Registry, Proposal
<1>16. ASSUME NEW w \in Workers, SaveFlush(w) PROVE CloneCurrent'
  BY <1>0, <1>f, ConstantsAssumption, NoneAssumption, <1>16 DEF SaveFlush, Goto, Return,
     EmptyRegistry, CloneCurrent, CallsOnlyStage, RequestIsOwn, BulkKnown, Workers, Early,
     Saving, Registry, Proposal
<1>17. ASSUME NEW r \in Reqs, ApproveEdits(r) PROVE CloneCurrent'
  BY <1>0, <1>f, ConstantsAssumption, NoneAssumption, <1>17 DEF ApproveEdits, Goto,
     UserCommand, CloneCurrent, CallsOnlyStage, RequestIsOwn, BulkKnown, Workers, Early,
     Saving, Registry, Proposal
<1>18. ASSUME NEW r \in Reqs, DenyEdits(r) PROVE CloneCurrent'
  BY <1>0, <1>f, ConstantsAssumption, NoneAssumption, <1>18 DEF DenyEdits, Goto,
     UserCommand, CloneCurrent, CallsOnlyStage, RequestIsOwn, BulkKnown, Workers, Early,
     Saving, Registry, Proposal
<1>19. ASSUME DenyRead PROVE CloneCurrent'
  BY <1>0, <1>f, ConstantsAssumption, NoneAssumption, <1>19 DEF DenyRead, Goto, Return,
     LockFree, NoProposal, CloneCurrent, CallsOnlyStage, RequestIsOwn, BulkKnown, Workers,
     Early, Saving, Registry, Proposal
<1>20. ASSUME MarkDenied PROVE CloneCurrent'
  BY <1>0, <1>f, ConstantsAssumption, NoneAssumption, <1>20 DEF MarkDenied, Save,
     Answer, Insert, LockFree, Goto, CloneCurrent, CallsOnlyStage, RequestIsOwn,
     BulkKnown, Workers, Early, Saving, Registry, Proposal
<1>21. ASSUME ApprovePendingEdits PROVE CloneCurrent'
  BY <1>0, <1>f, ConstantsAssumption, NoneAssumption, <1>21 DEF ApprovePendingEdits,
     Goto, UserCommand, LockFree, Pending, CloneCurrent, CallsOnlyStage, RequestIsOwn,
     BulkKnown, Workers, Early, Saving, Registry, Proposal
<1>22. ASSUME MarkStale PROVE CloneCurrent'
  BY <1>0, <1>f, ConstantsAssumption, NoneAssumption, <1>22 DEF MarkStale, Goto,
     LockFree, NoProposal, CloneCurrent, CallsOnlyStage, RequestIsOwn, BulkKnown, Workers,
     Early, Saving, Registry, Proposal
<1>23. ASSUME DenyPendingEdits PROVE CloneCurrent'
  BY <1>0, <1>f, ConstantsAssumption, NoneAssumption, <1>23 DEF DenyPendingEdits, Goto,
     UserCommand, LockFree, Pending, CloneCurrent, CallsOnlyStage, RequestIsOwn,
     BulkKnown, Workers, Early, Saving, Registry, Proposal
<1>24. ASSUME NEW c \in Calls, BulkNext(c) PROVE CloneCurrent'
  BY <1>0, <1>f, ConstantsAssumption, NoneAssumption, <1>24 DEF BulkNext, Goto,
     CloneCurrent, CallsOnlyStage, RequestIsOwn, BulkKnown, Workers, Early, Saving,
     Registry, Proposal
<1>25. ASSUME BulkEnd PROVE CloneCurrent'
  BY <1>0, <1>f, ConstantsAssumption, NoneAssumption, <1>25 DEF BulkEnd, Goto, Save,
     CloneCurrent, CallsOnlyStage, RequestIsOwn, BulkKnown, Workers, Early, Saving,
     Registry, Proposal
<1>26. ASSUME Rescan PROVE CloneCurrent'
  BY <1>0, <1>f, ConstantsAssumption, NoneAssumption, <1>26 DEF Rescan, CloneCurrent,
     CallsOnlyStage, RequestIsOwn, BulkKnown, Workers, Early, Saving, Registry, Proposal
<1>27. ASSUME NEW f \in Files, ExternalEdit(f) PROVE CloneCurrent'
  BY <1>0, <1>f, ConstantsAssumption, NoneAssumption, <1>27 DEF ExternalEdit,
     CloneCurrent, CallsOnlyStage, RequestIsOwn, BulkKnown, Workers, Early, Saving,
     Registry, Proposal
<1>28. ASSUME CrashAndRestart PROVE CloneCurrent'
  BY <1>0, <1>f, ConstantsAssumption, NoneAssumption, <1>28 DEF CrashAndRestart,
     EmptyRegistry, CloneCurrent, CallsOnlyStage, RequestIsOwn, BulkKnown, Workers, Early,
     Saving, Registry, Proposal
<1> QED BY <1>1, <1>2, <1>3, <1>4, <1>5, <1>6, <1>7, <1>8, <1>9, <1>10, <1>11, <1>12,
   <1>13, <1>14, <1>15, <1>16, <1>17, <1>18, <1>19, <1>20, <1>21, <1>22, <1>23, <1>24,
   <1>25, <1>26, <1>27, <1>28 DEF Next, Stage, Approve, SaveProposals, Command, Handle

\* The plan of a bulk approval is there from the snapshot to the stale marks.
PlanKept ==
  pc'[Commander] = "stale" =>
    ApprovePendingEdits \/ (pc[Commander] = "stale" /\ UNCHANGED <<todo, toStale>>)

LEMMA PlanKeptStep == ASSUME TInv, Next PROVE PlanKept
<1> USE DEF taskVars, bulkVars, fileVars, callVars
<1>0. TaskTypes /\ RequestKnown /\ BulkKnown
    BY TypeParts DEF TInv
<1> USE DEF TaskTypes, RequestKnown
<1>1. ASSUME NEW c \in Calls, ToolCallRequested(c) PROVE PlanKept
  BY <1>0, ConstantsAssumption, NoneAssumption, <1>1 DEF ToolCallRequested, Goto,
     PlanKept, BulkKnown, Workers, Saving
<1>2. ASSUME NEW c \in Calls, CheckDuplicate(c) PROVE PlanKept
  BY <1>0, ConstantsAssumption, NoneAssumption, <1>2 DEF CheckDuplicate, Goto, Return,
     Answer, LockFree, NoProposal, PlanKept, BulkKnown, Workers, Saving
<1>3. ASSUME NEW c \in Calls, StagingFails(c) PROVE PlanKept
  BY <1>0, ConstantsAssumption, NoneAssumption, <1>3 DEF StagingFails, Return, Answer,
     Goto, PlanKept, BulkKnown, Workers, Saving
<1>4. ASSUME NEW c \in Calls, ResolveEdits(c) PROVE PlanKept
  BY <1>0, ConstantsAssumption, NoneAssumption, <1>4 DEF ResolveEdits, Goto, PlanKept,
     BulkKnown, Workers, Saving
<1>5. ASSUME NEW c \in Calls, StageProposal(c) PROVE PlanKept
  BY <1>0, ConstantsAssumption, NoneAssumption, <1>5 DEF StageProposal, Save, LockFree,
     Pending, Goto, PlanKept, BulkKnown, Workers, Saving
<1>6. ASSUME NEW c \in Calls, AnnounceStaged(c) PROVE PlanKept
  BY <1>0, ConstantsAssumption, NoneAssumption, <1>6 DEF AnnounceStaged, Goto, Return,
     Answer, PlanKept, BulkKnown, Workers, Saving
<1>7. ASSUME NEW w \in Workers, ApproveRead(w) PROVE PlanKept
  BY <1>0, ConstantsAssumption, NoneAssumption, <1>7 DEF ApproveRead, Goto, Return,
     LockFree, NoProposal, PlanKept, BulkKnown, Workers, Saving
<1>8. ASSUME NEW w \in Workers, WriteEdit(w) PROVE PlanKept
  BY <1>0, ConstantsAssumption, NoneAssumption, <1>8 DEF WriteEdit, NoMoreEdits,
     PlanKept, BulkKnown, Workers, Saving
<1>9. ASSUME NEW w \in Workers, SkipMismatch(w) PROVE PlanKept
  BY <1>0, ConstantsAssumption, NoneAssumption, <1>9 DEF SkipMismatch, NoMoreEdits,
     PlanKept, BulkKnown, Workers, Saving
<1>10. ASSUME NEW w \in Workers, WriteRefused(w) PROVE PlanKept
  BY <1>0, ConstantsAssumption, NoneAssumption, <1>10 DEF WriteRefused, NoMoreEdits,
     PlanKept, BulkKnown, Workers, Saving
<1>11. ASSUME NEW w \in Workers, MarkApplied(w) PROVE PlanKept
  BY <1>0, ConstantsAssumption, NoneAssumption, <1>11 DEF MarkApplied, Save, Answer,
     Insert, LockFree, NoMoreEdits, Goto, PlanKept, BulkKnown, Workers, Saving
<1>12. ASSUME NEW w \in Workers, MarkFailed(w) PROVE PlanKept
  BY <1>0, ConstantsAssumption, NoneAssumption, <1>12 DEF MarkFailed, Save, Answer,
     Insert, LockFree, Goto, PlanKept, BulkKnown, Workers, Saving
<1>13. ASSUME NEW w \in Workers, SpawnRescan(w) PROVE PlanKept
  BY <1>0, ConstantsAssumption, NoneAssumption, <1>13 DEF SpawnRescan, Return, Goto,
     PlanKept, BulkKnown, Workers, Saving
<1>14. ASSUME NEW w \in Workers, SaveSnapshot(w) PROVE PlanKept
  BY <1>0, ConstantsAssumption, NoneAssumption, <1>14 DEF SaveSnapshot, Goto, LockFree,
     PlanKept, BulkKnown, Workers, Saving
<1>15. ASSUME NEW w \in Workers, SaveTruncate(w) PROVE PlanKept
  BY <1>0, ConstantsAssumption, NoneAssumption, <1>15 DEF SaveTruncate, Goto, PlanKept,
     BulkKnown, Workers, Saving
<1>16. ASSUME NEW w \in Workers, SaveFlush(w) PROVE PlanKept
  BY <1>0, ConstantsAssumption, NoneAssumption, <1>16 DEF SaveFlush, Goto, Return,
     EmptyRegistry, PlanKept, BulkKnown, Workers, Saving
<1>17. ASSUME NEW r \in Reqs, ApproveEdits(r) PROVE PlanKept
  BY <1>0, ConstantsAssumption, NoneAssumption, <1>17 DEF ApproveEdits, Goto,
     UserCommand, PlanKept, BulkKnown, Workers, Saving
<1>18. ASSUME NEW r \in Reqs, DenyEdits(r) PROVE PlanKept
  BY <1>0, ConstantsAssumption, NoneAssumption, <1>18 DEF DenyEdits, Goto, UserCommand,
     PlanKept, BulkKnown, Workers, Saving
<1>19. ASSUME DenyRead PROVE PlanKept
  BY <1>0, ConstantsAssumption, NoneAssumption, <1>19 DEF DenyRead, Goto, Return,
     LockFree, NoProposal, PlanKept, BulkKnown, Workers, Saving
<1>20. ASSUME MarkDenied PROVE PlanKept
  BY <1>0, ConstantsAssumption, NoneAssumption, <1>20 DEF MarkDenied, Save, Answer,
     Insert, LockFree, Goto, PlanKept, BulkKnown, Workers, Saving
<1>21. ASSUME ApprovePendingEdits PROVE PlanKept
  BY <1>0, ConstantsAssumption, NoneAssumption, <1>21 DEF ApprovePendingEdits, Goto,
     UserCommand, LockFree, Pending, PlanKept, BulkKnown, Workers, Saving
<1>22. ASSUME MarkStale PROVE PlanKept
  BY <1>0, ConstantsAssumption, NoneAssumption, <1>22 DEF MarkStale, Goto, LockFree,
     NoProposal, PlanKept, BulkKnown, Workers, Saving
<1>23. ASSUME DenyPendingEdits PROVE PlanKept
  BY <1>0, ConstantsAssumption, NoneAssumption, <1>23 DEF DenyPendingEdits, Goto,
     UserCommand, LockFree, Pending, PlanKept, BulkKnown, Workers, Saving
<1>24. ASSUME NEW c \in Calls, BulkNext(c) PROVE PlanKept
  BY <1>0, ConstantsAssumption, NoneAssumption, <1>24 DEF BulkNext, Goto, PlanKept,
     BulkKnown, Workers, Saving
<1>25. ASSUME BulkEnd PROVE PlanKept
  BY <1>0, ConstantsAssumption, NoneAssumption, <1>25 DEF BulkEnd, Goto, Save, PlanKept,
     BulkKnown, Workers, Saving
<1>26. ASSUME Rescan PROVE PlanKept
  BY <1>0, ConstantsAssumption, NoneAssumption, <1>26 DEF Rescan, PlanKept, BulkKnown,
     Workers, Saving
<1>27. ASSUME NEW f \in Files, ExternalEdit(f) PROVE PlanKept
  BY <1>0, ConstantsAssumption, NoneAssumption, <1>27 DEF ExternalEdit, PlanKept,
     BulkKnown, Workers, Saving
<1>28. ASSUME CrashAndRestart PROVE PlanKept
  BY <1>0, ConstantsAssumption, NoneAssumption, <1>28 DEF CrashAndRestart,
     EmptyRegistry, PlanKept, BulkKnown, Workers, Saving
<1>29. \A c \in Calls : ToolCallRequested(c) \/ Stage(c) => PlanKept
  BY <1>1, <1>2, <1>3, <1>4, <1>5, <1>6 DEF Stage
<1>30. \A w \in Workers : Approve(w) \/ SaveProposals(w) => PlanKept
  BY <1>7, <1>8, <1>9, <1>10, <1>11, <1>12, <1>13, <1>14, <1>15, <1>16 DEF Approve, SaveProposals
<1>31. Command => PlanKept
  BY <1>17, <1>18, <1>21, <1>23 DEF Command
<1>32. Handle => PlanKept
  BY <1>19, <1>20, <1>22, <1>24, <1>25 DEF Handle
<1> QED BY <1>26, <1>27, <1>28, <1>29, <1>30, <1>31, <1>32 DEF Next

LEMMA StaleStep ==
  ASSUME TInv, KInv, Fresh, Distinct, CallsOnlyStage, StalePending, Next PROVE StalePending'
<1> SUFFICES ASSUME pc'[Commander] = "stale", NEW c \in toStale'
             PROVE  proposals'[ReqOf[c]] = [call |-> c, status |-> "Pending"]
    BY DEF StalePending
<1>0. TaskTypes /\ RegistryTypes /\ RequestKnown /\ OtherTypes /\ TaskTypes' /\ OtherTypes'
    BY TypeParts, TypePartsNext, TInvStep DEF TInv
<1>1. CASE ApprovePendingEdits
    BY <1>0, <1>1 DEF ApprovePendingEdits, Pending
<1>2. CASE pc[Commander] = "stale" /\ UNCHANGED <<todo, toStale>>
  <2>1. ReqOf[c] \in Reqs /\ proposals[ReqOf[c]] = [call |-> c, status |-> "Pending"]
    BY <1>0, <1>2, ConstantsAssumption DEF StalePending, OtherTypes
  <2>2. CASE proposals' = proposals
    BY <2>1, <2>2
  <2>3. CASE \E d \in Calls : StageProposal(d)
    <3>1. PICK d \in Calls : StageProposal(d)
      BY <2>3
    <3>2. proposals[ReqOf[d]] = None /\ req[d] = ReqOf[d]
      BY <3>1, FreshSlot DEF StageProposal, Early, KInv, RequestIsOwn
    <3>3. [call |-> c, status |-> "Pending"] # None
      BY <1>0, NoneAssumption DEF Proposal, Status, OtherTypes
    <3>4. ReqOf[d] # ReqOf[c]
      BY <2>1, <3>2, <3>3
    <3> QED BY <2>1, <3>1, <3>2, <3>4, <1>0 DEF StageProposal, RegistryTypes, Registry
  <2> QED BY <2>2, <2>3, <1>2, RegistryStep DEF RegistryChange, CallsOnlyStage, MarkApplied, MarkFailed,
       MarkDenied, MarkStale, CrashAndRestart, Workers, Early, Saving
<1> QED BY <1>1, <1>2, PlanKeptStep DEF PlanKept

\* The part of the invariant that needs Manual and Distinct.
MInv == CallsOnlyStage /\ CloneCurrent /\ StalePending

LEMMA MInvStep ==
  ASSUME Manual, Distinct, IInv, KInv, MInv, [Next]_vars
  PROVE  MInv'
<1>1. CASE Next
    BY <1>1, CallsStep, CloneStep, StaleStep DEF IInv, MInv
<1>2. CASE UNCHANGED vars
    BY <1>2 DEF vars, taskVars, bulkVars, MInv, CallsOnlyStage, CloneCurrent, StalePending
<1> QED BY <1>1, <1>2

LEMMA KInvStep == ASSUME TInv, KInv, [Next]_vars PROVE KInv'
<1>1. CASE Next
    BY <1>1, KeyedStep, RequestIsOwnStep DEF KInv
<1>2. CASE UNCHANGED vars
    BY <1>2 DEF vars, taskVars, KInv, Keyed, KeyedIn, RequestIsOwn
<1> QED BY <1>1, <1>2

\* A batch or a denial is the commander's, and its clone is not resolved.
LEMMA MarkedUnresolved ==
  ASSUME TInv, MInv, NEW w \in Workers, pc[w] \in {"write", "denied"}
  PROVE  /\ w = Commander /\ req[w] \in Reqs
         /\ prop[w] = proposals[req[w]] /\ prop[w].status \notin {"Applied", "Denied"}
<1>1. w = Commander
    BY DEF MInv, CallsOnlyStage, Workers, Early, Saving
<1> QED BY <1>1 DEF MInv, CloneCurrent, TInv, RequestKnown

\* No step but a restart takes a resolved proposal back.
LEMMA ResolvedStep ==
  ASSUME Distinct, IInv, KInv, MInv, Next, crashes' = crashes,
         NEW r \in Reqs, NEW s \in {"Applied", "Denied"}, HasStatus(r, s)
  PROVE  HasStatus(r, s)'
<1>0. TInv /\ RegistryTypes /\ RequestKnown /\ OtherTypes
    BY TypeParts DEF IInv, TInv
<1>1. CASE proposals' = proposals
    BY <1>1 DEF HasStatus
<1>2. ASSUME NEW c \in Calls, StageProposal(c) PROVE HasStatus(r, s)'
  <2>1. proposals[ReqOf[c]] = None /\ req[c] = ReqOf[c]
    BY <1>2, FreshSlot DEF StageProposal, Early, IInv, KInv, RequestIsOwn
  <2>2. r # req[c]
    BY <2>1 DEF HasStatus, NoProposal
  <2> QED BY <1>2, <2>2, <1>0 DEF StageProposal, HasStatus, RegistryTypes, Registry
<1>3. ASSUME NEW w \in Workers, MarkApplied(w) \/ MarkFailed(w) PROVE HasStatus(r, s)'
  <2>1. r # req[w]
    BY <1>0, <1>3, MarkedUnresolved DEF MarkApplied, MarkFailed, HasStatus
  <2> QED BY <1>3, <2>1, <1>0 DEF MarkApplied, MarkFailed, Insert, HasStatus,
         RegistryTypes, Registry
<1>4. ASSUME MarkDenied PROVE HasStatus(r, s)'
  <2>1. r # req[Commander]
    BY <1>0, <1>4, MarkedUnresolved DEF MarkDenied, HasStatus, Workers
  <2> QED BY <1>4, <2>1, <1>0 DEF MarkDenied, Insert, HasStatus, RegistryTypes, Registry
<1>5. ASSUME MarkStale PROVE HasStatus(r, s)'
  <2>0. proposals[r].status # "Pending"
    BY DEF HasStatus
  <2>1. ~ \E c \in toStale : ReqOf[c] = r
    <3> SUFFICES ASSUME NEW c \in toStale, ReqOf[c] = r PROVE FALSE
      OBVIOUS
    <3>1. proposals[r] = [call |-> c, status |-> "Pending"]
      BY <1>5 DEF MarkStale, MInv, StalePending
    <3> QED BY <2>0, <3>1
  <2> QED BY <1>5, <2>1 DEF MarkStale, HasStatus, NoProposal
<1>6. ~CrashAndRestart
    BY <1>0 DEF CrashAndRestart, OtherTypes
<1> QED BY <1>1, <1>2, <1>3, <1>4, <1>5, <1>6, RegistryStep DEF RegistryChange

\* An edit that lands is not one of a denied proposal.
LEMMA DiscardedStep ==
  ASSUME IInv, KInv, MInv, Next, NEW r \in Reqs, HasStatus(r, "Denied"),
         NEW x \in landed' \ landed
  PROVE  x[1] # proposals[r].call
<1>0. TInv /\ RegistryTypes /\ RequestKnown
    BY TypeParts DEF IInv, TInv
<1>1. PICK w \in Workers : WriteEdit(w)
    BY <1>0, FileSteps DEF FileStep, ResolveEdits, WriteRefused, Rescan, ExternalEdit, fileVars
<1>2. x[1] = prop[w].call
    BY <1>1 DEF WriteEdit
<1>3. /\ req[w] \in Reqs /\ prop[w] = proposals[req[w]] /\ prop[w].status # "Denied"
    BY <1>0, <1>1, MarkedUnresolved DEF WriteEdit
<1>4. ReqOf[prop[w].call] = req[w]
    BY <1>1 DEF KInv, RequestIsOwn, WriteEdit
<1>5. ReqOf[proposals[r].call] = r
    BY DEF KInv, Keyed, KeyedIn, HasStatus, NoProposal
<1> QED BY <1>2, <1>3, <1>4, <1>5 DEF HasStatus

LEMMA KInvInit == Init => KInv
BY ConstantsAssumption DEF Init, KInv, Keyed, KeyedIn, RequestIsOwn, EmptyRegistry, Workers

LEMMA MInvInit == Init => MInv
BY ConstantsAssumption DEF Init, MInv, CallsOnlyStage, CloneCurrent, StalePending, Workers,
   Early, Saving

\* Every proposal is kept under the request id of its call, whatever the constants.
LEMMA KeysAlways == Spec => []KInv
<1>1. IInv => TInv
    BY DEF IInv
<1>2. IInv /\ KInv /\ [Next]_vars => KInv'
    BY <1>1, KInvStep
<1> QED BY <1>2, KInvInit, Invariance, PTL DEF Spec

\* As long as no call approves itself and every edit call has a chat step of its own,
\* Applied and Denied are final until a restart, and no edit of a denied proposal
\* reaches a file.  The lock that approve_edits lets go of between its read and its
\* insert, and the stale marks that do not look at a status, do no harm then, because
\* the state manager is the only one to approve and to deny.
THEOREM ResolvedForGood ==
  ASSUME Manual, Distinct
  PROVE  Spec => ResolvedIsFinal /\ DeniedStaysDiscarded
<1>1. MInv /\ IInv /\ KInv /\ [Next]_vars => MInv'
    BY MInvStep
<1>2. ASSUME IInv, KInv, MInv, [Next]_vars
      PROVE  [\A r \in Reqs, s \in {"Applied", "Denied"} :
                 HasStatus(r, s) /\ crashes' = crashes => HasStatus(r, s)']_vars
  <2>1. CASE Next
    BY <1>2, <2>1, ResolvedStep
  <2>2. CASE UNCHANGED vars
    BY <2>2
  <2> QED BY <1>2, <2>1, <2>2
<1>3. ASSUME IInv, KInv, MInv, [Next]_vars
      PROVE  [\A r \in Reqs : HasStatus(r, "Denied") =>
                 ~ \E x \in landed' \ landed : x[1] = proposals[r].call]_vars
  <2>1. CASE Next
    BY <1>3, <2>1, DiscardedStep
  <2>2. CASE UNCHANGED vars
    BY <2>2
  <2> QED BY <1>3, <2>1, <2>2
<1>4. Spec => []MInv
    BY <1>1, MInvInit, KeysAlways, Invariance, PTL DEF Spec
<1> QED BY <1>2, <1>3, <1>4, KeysAlways, Invariance, PTL DEF Spec, ResolvedIsFinal,
       DeniedStaysDiscarded

\* The second half by itself: what the user denied is not written, whatever approval
\* had read its proposal before.
THEOREM DeniedForGood == ASSUME Manual, Distinct PROVE Spec => DeniedStaysDiscarded
<1>1. Spec => ResolvedIsFinal /\ DeniedStaysDiscarded
    BY ResolvedForGood
<1> QED BY <1>1, PTL

\* A call that was told that its proposal is staged finds it in the registry until a
\* restart, if no other call has its request id: that the calls of a chat step share
\* one is the only way to lose a proposal, auto-confirm or not.
THEOREM StagedStays == ASSUME Distinct PROVE Spec => []StagedSurvives
<1>1. Init => Registered
    BY ConstantsAssumption DEF Init, Registered, Workers
<1>2. IInv /\ KInv /\ Registered /\ [Next]_vars => Registered'
  <2> SUFFICES ASSUME IInv, KInv, Registered, [Next]_vars PROVE Registered'
    OBVIOUS
  <2>1. CASE Next
    BY <2>1, RegisteredStep DEF IInv
  <2>2. CASE UNCHANGED vars
    BY <2>2 DEF vars, taskVars, Registered
  <2> QED BY <2>1, <2>2
<1>3. ASSUME IInv, KInv, Registered PROVE StagedSurvives
  <2> SUFFICES ASSUME crashes = 0, NEW c \in Calls, answer[c] = "staged"
               PROVE  ~NoProposal(proposals[ReqOf[c]]) /\ proposals[ReqOf[c]].call = c
    BY DEF StagedSurvives
  <2>1. RegistryTypes
    BY <1>3, TypeParts DEF IInv, TInv
  <2>2. ReqOf[c] \in Reqs /\ proposals[ReqOf[c]] # None
    BY <1>3, ConstantsAssumption DEF Registered
  <2>3. proposals[ReqOf[c]].call \in Calls
    BY <2>1, <2>2 DEF RegistryTypes, Registry, Proposal
  <2>4. ReqOf[proposals[ReqOf[c]].call] = ReqOf[c]
    BY <1>3, <2>2 DEF KInv, Keyed, KeyedIn
  <2> QED BY <2>2, <2>3, <2>4 DEF Distinct, NoProposal
<1> QED BY <1>1, <1>2, <1>3, KeysAlways, Invariance, PTL DEF Spec

\* What a bulk approval plans is staged: a call has chosen its time.
PlannedStaged ==
  pc[Commander] = "stale" => \A c \in todo \cup toStale : pc[c] \notin Early

PInv == PlannedStaged /\ BulkPlanSound

\* A call's time is chosen when it stages its proposal, and never again.
StampChange == stamp' = stamp \/ \E c \in Calls : StageProposal(c)

LEMMA StampStep == ASSUME Next PROVE StampChange
<1> USE DEF taskVars, bulkVars, fileVars, callVars
<1>1. ASSUME NEW c \in Calls, ToolCallRequested(c) PROVE StampChange
  BY <1>1 DEF ToolCallRequested, Goto, StampChange
<1>2. ASSUME NEW c \in Calls, CheckDuplicate(c) PROVE StampChange
  BY <1>2 DEF CheckDuplicate, Goto, Return, Answer, LockFree, NoProposal,
     StampChange
<1>3. ASSUME NEW c \in Calls, StagingFails(c) PROVE StampChange
  BY <1>3 DEF StagingFails, Return, Answer, Goto, StampChange
<1>4. ASSUME NEW c \in Calls, ResolveEdits(c) PROVE StampChange
  BY <1>4 DEF ResolveEdits, Goto, StampChange
<1>5. ASSUME NEW c \in Calls, StageProposal(c) PROVE StampChange
  BY <1>5 DEF StageProposal, Save, LockFree, Pending, Goto, StampChange
<1>6. ASSUME NEW c \in Calls, AnnounceStaged(c) PROVE StampChange
  BY <1>6 DEF AnnounceStaged, Goto, Return, Answer, StampChange
<1>7. ASSUME NEW w \in Workers, ApproveRead(w) PROVE StampChange
  BY <1>7 DEF ApproveRead, Goto, Return, LockFree, NoProposal, StampChange
<1>8. ASSUME NEW w \in Workers, WriteEdit(w) PROVE StampChange
  BY <1>8 DEF WriteEdit, NoMoreEdits, StampChange
<1>9. ASSUME NEW w \in Workers, SkipMismatch(w) PROVE StampChange
  BY <1>9 DEF SkipMismatch, NoMoreEdits, StampChange
<1>10. ASSUME NEW w \in Workers, WriteRefused(w) PROVE StampChange
  BY <1>10 DEF WriteRefused, NoMoreEdits, StampChange
<1>11. ASSUME NEW w \in Workers, MarkApplied(w) PROVE StampChange
  BY <1>11 DEF MarkApplied, Save, Answer, Insert, LockFree, NoMoreEdits, Goto,
     StampChange
<1>12. ASSUME NEW w \in Workers, MarkFailed(w) PROVE StampChange
  BY <1>12 DEF MarkFailed, Save, Answer, Insert, LockFree, Goto, StampChange
<1>13. ASSUME NEW w \in Workers, SpawnRescan(w) PROVE StampChange
  BY <1>13 DEF SpawnRescan, Return, Goto, StampChange
<1>14. ASSUME NEW w \in Workers, SaveSnapshot(w) PROVE StampChange
  BY <1>14 DEF SaveSnapshot, Goto, LockFree, StampChange
<1>15. ASSUME NEW w \in Workers, SaveTruncate(w) PROVE StampChange
  BY <1>15 DEF SaveTruncate, Goto, StampChange
<1>16. ASSUME NEW w \in Workers, SaveFlush(w) PROVE StampChange
  BY <1>16 DEF SaveFlush, Goto, Return, EmptyRegistry, StampChange
<1>17. ASSUME NEW r \in Reqs, ApproveEdits(r) PROVE StampChange
  BY <1>17 DEF ApproveEdits, Goto, UserCommand, StampChange
<1>18. ASSUME NEW r \in Reqs, DenyEdits(r) PROVE StampChange
  BY <1>18 DEF DenyEdits, Goto, UserCommand, StampChange
<1>19. ASSUME DenyRead PROVE StampChange
  BY <1>19 DEF DenyRead, Goto, Return, LockFree, NoProposal, StampChange
<1>20. ASSUME MarkDenied PROVE StampChange
  BY <1>20 DEF MarkDenied, Save, Answer, Insert, LockFree, Goto, StampChange
<1>21. ASSUME ApprovePendingEdits PROVE StampChange
  BY <1>21 DEF ApprovePendingEdits, Goto, UserCommand, LockFree, Pending,
     StampChange
<1>22. ASSUME MarkStale PROVE StampChange
  BY <1>22 DEF MarkStale, Goto, LockFree, NoProposal, StampChange
<1>23. ASSUME DenyPendingEdits PROVE StampChange
  BY <1>23 DEF DenyPendingEdits, Goto, UserCommand, LockFree, Pending, StampChange
<1>24. ASSUME NEW c \in Calls, BulkNext(c) PROVE StampChange
  BY <1>24 DEF BulkNext, Goto, StampChange
<1>25. ASSUME BulkEnd PROVE StampChange
  BY <1>25 DEF BulkEnd, Goto, Save, StampChange
<1>26. ASSUME Rescan PROVE StampChange
  BY <1>26 DEF Rescan, StampChange
<1>27. ASSUME NEW f \in Files, ExternalEdit(f) PROVE StampChange
  BY <1>27 DEF ExternalEdit, StampChange
<1>28. ASSUME CrashAndRestart PROVE StampChange
  BY <1>28 DEF CrashAndRestart, EmptyRegistry, StampChange
<1> QED BY <1>1, <1>2, <1>3, <1>4, <1>5, <1>6, <1>7, <1>8, <1>9, <1>10, <1>11, <1>12,
   <1>13, <1>14, <1>15, <1>16, <1>17, <1>18, <1>19, <1>20, <1>21, <1>22, <1>23, <1>24,
   <1>25, <1>26, <1>27, <1>28 DEF Next, Stage, Approve, SaveProposals, Command, Handle

LEMMA StampKept ==
  ASSUME TInv, Next
  PROVE  \A c \in Calls : pc[c] \notin Early => stamp'[c] = stamp[c]
<1>1. CASE stamp' = stamp
    BY <1>1
<1>2. ASSUME NEW c \in Calls, StageProposal(c)
      PROVE  \A d \in Calls : pc[d] \notin Early => stamp'[d] = stamp[d]
    BY <1>2, TypeParts DEF StageProposal, Early, TInv, OtherTypes
<1> QED BY <1>1, <1>2, StampStep DEF StampChange

LEMMA PlanStep ==
  ASSUME TInv, Fresh, PInv, Next
  PROVE  PInv'
<1>0. TaskTypes /\ OtherTypes /\ TaskTypes' /\ OtherTypes' /\ Commander \in Workers
    BY TypeParts, TypePartsNext, TInvStep DEF TInv, Workers
<1> SUFFICES ASSUME pc'[Commander] = "stale" PROVE PInv'
    BY DEF PInv, PlannedStaged, BulkPlanSound
<1>1. CASE ApprovePendingEdits
  <2>1. /\ todo' = PickNonOverlapping(Pending) /\ toStale' = Pending \ todo'
        /\ UNCHANGED <<proposals, stamp>>
    BY <1>1 DEF ApprovePendingEdits, callVars
  <2>2. StampType
    BY <1>0 DEF StampType, OtherTypes
  <2>3. PickNonOverlapping(Pending) \subseteq Pending
    BY <2>2, PendingApart, PickSound
  <2>4. \A c \in Pending : pc[c] \notin Early
    <3>1. ASSUME NEW c \in Pending PROVE HeldIn(proposals, c)
      <4>1. ReqOf[c] \in Reqs /\ proposals[ReqOf[c]] = [call |-> c, status |-> "Pending"]
        BY ConstantsAssumption DEF Pending
      <4>2. [call |-> c, status |-> "Pending"] # None
        BY NoneAssumption DEF Proposal, Status, Pending
      <4> QED BY <4>1, <4>2 DEF HeldIn
    <3> QED BY <3>1 DEF Fresh, Copied, Pending
  <2>5. PlannedStaged'
    <3>1. \A c \in Calls : pc'[c] \in Early => pc[c] \in Early
      BY EarlyBack DEF NoRestaging
    <3> QED BY <2>1, <2>3, <2>4, <3>1, PendingApart DEF PlannedStaged
  <2>6. /\ \A c, d \in todo' : c # d => ~Overlap(c, d)
        /\ \A c \in toStale' : \E d \in todo' : Newer(d, c) /\ Overlap(c, d)
    BY <2>1, <2>2, PendingApart, PickSound
  <2>7. \A c, d : Newer(d, c) => Newer(d, c)'
    BY <2>1 DEF Newer
  <2>8. BulkPlanSound'
    BY <2>6, <2>7 DEF BulkPlanSound, Overlap, OverlapsExisting, Touches, Ranges, NormalizeRange, EditAt
  <2> QED BY <2>5, <2>8 DEF PInv
<1>2. CASE pc[Commander] = "stale" /\ UNCHANGED <<todo, toStale>>
  <2>1. PlannedStaged'
    BY <1>0, <1>2, EarlyBack DEF PInv, PlannedStaged, NoRestaging, OtherTypes
  <2>2. \A c \in todo \cup toStale : c \in Calls /\ stamp'[c] = stamp[c]
    BY <1>0, <1>2, StampKept DEF PInv, PlannedStaged, OtherTypes
  <2>3. \A c, d \in todo \cup toStale : Newer(d, c) => Newer(d, c)'
    BY <2>2 DEF Newer
  <2>4. BulkPlanSound'
    BY <1>2, <2>3 DEF PInv, BulkPlanSound, Overlap, OverlapsExisting, Touches, Ranges, NormalizeRange, EditAt
  <2> QED BY <2>1, <2>4 DEF PInv
<1> QED BY <1>1, <1>2, PlanKeptStep DEF PlanKept

\* Whatever is staged, changed or answered meanwhile, the plan of a bulk approval
\* is sound: what it applies does not overlap, what it marks stale is overlapped by
\* a newer proposal that it applies.
THEOREM BulkPlansSound == Spec => []BulkPlanSound
<1>1. Init => PInv
    BY ConstantsAssumption DEF Init, PInv, PlannedStaged, BulkPlanSound, Workers
<1>2. IInv /\ PInv /\ [Next]_vars => PInv'
  <2> SUFFICES ASSUME IInv, PInv, [Next]_vars PROVE PInv'
    OBVIOUS
  <2>1. CASE Next
    BY <2>1, PlanStep DEF IInv
  <2>2. CASE UNCHANGED vars
    BY <2>2 DEF vars, taskVars, bulkVars, callVars, PInv, PlannedStaged, BulkPlanSound, Newer
  <2> QED BY <2>1, <2>2
<1>3. PInv => BulkPlanSound
    BY DEF PInv
<1> QED BY <1>1, <1>2, <1>3, Invariance, PTL DEF Spec

=============================================================================
