--------------------------- MODULE FileWrite_proofs ---------------------------
(***************************************************************************)
(* Proofs about FileWrite, for any batches, files, saves and hash: the     *)
(* locks are kept as TypeOK says, the write path implements FileStore, and  *)
(* of the requests made for one version of a file at most one is written.  *)
(***************************************************************************)
EXTENDS FileWrite, Induction, SequenceTheorems, TLAPS

Contents == Seq(Writes \cup Saves)

\* The contents the state holds are contents.
ContentsKnown ==
  /\ file \in [Files -> Contents] /\ since \in [Files -> SUBSET Contents]
  /\ seen \in [Batches -> Contents] /\ madeFor \in [Writes -> Contents]

\* A task that is inside process_one_write has a request to work on.
InHand == \A b \in Batches : pc[b] \in Holding => MoreRequests(b)

\* The requests are made in their order, and answered in it.
OrderAt(b, i) ==
  /\ pc[b] = "make" => outcome[<<b, i>>] = IF i < pos[b] THEN "open" ELSE "unsent"
  /\ pc[b] \in {"lock", "read", "check", "rename"} /\ i >= pos[b] => outcome[<<b,
     i>>] = "open"
  /\ pc[b] = "sync" /\ i = pos[b] => outcome[<<b, i>>] = "written"
  /\ pc[b] = "sync" /\ i > pos[b] => outcome[<<b, i>>] = "open"

InOrder == \A b \in Batches : \A i \in DOMAIN Requests[b] : OrderAt(b, i)

\* What a task has read under the lock is a content since the last write: nobody else
\* can rename over the file meanwhile.
SeenSince == \A b \in Batches : pc[b] \in {"check", "rename"} => seen[b] \in since[Path(b)]

\* The hash that was compared stays the one of the request.
HashChecked ==
  \A b \in Batches : pc[b] = "rename" => Hash(seen[b]) = Hash(madeFor[Current(b)])

IInv == TypeOK /\ ContentsKnown /\ InHand /\ InOrder /\ SeenSince /\ HashChecked

\* A write is a batch and a position in it.
LEMMA WritesArePairs ==
  /\ \A b \in Batches : \A i \in DOMAIN Requests[b] :
       /\ <<b, i>> \in Writes /\ FileOf[<<b,
          i>>] = Requests[b][i] /\ Requests[b][i] \in Files
  /\ \A w \in Writes : /\ w[1] \in Batches /\ w[2] \in DOMAIN Requests[w[1]]
                       /\ w = <<w[1], w[2]>>
  /\ \A b \in Batches : Len(Requests[b]) \in Nat /\ DOMAIN Requests[b] = 1 .. Len(Requests[b])
<1>1. ASSUME NEW b \in Batches
      PROVE  /\ Requests[b] \in Seq(Files) /\ Len(Requests[b]) \in Nat
             /\ DOMAIN Requests[b] = 1 .. Len(Requests[b])
  BY <1>1, ConstantsAssumption
<1>2. ASSUME NEW b \in Batches, NEW i \in DOMAIN Requests[b]
      PROVE  /\ <<b, i>> \in Writes /\ FileOf[<<b, i>>] = Requests[b][i]
             /\ Requests[b][i] \in Files
  <2>1. <<b, i>> \in {b} \X DOMAIN Requests[b]
    BY <1>2
  <2>2. <<b, i>> \in Writes
    BY <2>1 DEF Writes
  <2>3. Requests[b][i] \in Files
    BY <1>1, <1>2
  <2> QED BY <2>2, <2>3 DEF FileOf
<1>3. ASSUME NEW w \in Writes
      PROVE  /\ w[1] \in Batches /\ w[2] \in DOMAIN Requests[w[1]]
             /\ w = <<w[1], w[2]>>
  <2>1. PICK b \in Batches : w \in {b} \X DOMAIN Requests[b]
    BY <1>3 DEF Writes
  <2> QED BY <2>1
<1> QED BY <1>1, <1>2, <1>3

\* IInv holds at the start.
LEMMA Initially == Init => IInv
<1> SUFFICES ASSUME Init PROVE IInv
  OBVIOUS
<1>1. TypeOK
  BY WritesArePairs, ConstantsAssumption DEF Init, TypeOK, Holding, Path
<1>2. ContentsKnown
  BY DEF Init, ContentsKnown, Contents
<1>3. InHand /\ InOrder /\ SeenSince /\ HashChecked
  BY WritesArePairs DEF Init, InHand, InOrder, OrderAt, SeenSince, HashChecked, Holding
<1> QED BY <1>1, <1>2, <1>3 DEF IInv

\* The request in hand is one of the batch, for one of the files.
LEMMA InRange ==
  ASSUME IInv, NEW b \in Batches, MoreRequests(b)
  PROVE  /\ pos[b] \in DOMAIN Requests[b] /\ Path(b) \in Files
         /\ Current(b) \in Writes /\ FileOf[Current(b)] = Path(b)
<1>1. pos[b] \in DOMAIN Requests[b]
  BY WritesArePairs DEF IInv, TypeOK, MoreRequests
<1> QED BY <1>1, WritesArePairs DEF Path, Current

\* What a task inside process_one_write has in hand is in range, and the lock is its.
LEMMA Inside ==
  ASSUME IInv, NEW b \in Batches, pc[b] \in Holding
  PROVE  /\ pos[b] \in DOMAIN Requests[b] /\ Path(b) \in Files
         /\ Current(b) \in Writes /\ FileOf[Current(b)] = Path(b)
         /\ MoreRequests(b) /\ lock[Path(b)] = b
<1>1. MoreRequests(b)
  BY DEF IInv, InHand
<1> QED BY <1>1, InRange DEF IInv, TypeOK

\* No batch is the None of a free lock.
LEMMA NoneOutside == \A b \in Batches : b # None
BY ConstantsAssumption

\* Making a request keeps the order: the request in turn is open.
LEMMA MakeRequestKeeps ==
  ASSUME IInv, NEW b \in Batches, MakeRequest(b)
  PROVE  IInv'
<1>1. /\ pos[b] \in DOMAIN Requests[b] /\ Path(b) \in Files
      /\ Current(b) \in Writes
  BY InRange DEF MakeRequest
<1>2. TypeOK'
  BY <1>1, WritesArePairs, NoneOutside DEF MakeRequest, IInv, TypeOK, Holding, Path,
     Current, MoreRequests
<1>3. ContentsKnown'
  BY <1>1, WritesArePairs DEF MakeRequest, IInv, ContentsKnown, Contents, Path, Current
<1>4. InHand'
  BY <1>1, WritesArePairs DEF MakeRequest, IInv, TypeOK, InHand, Holding, MoreRequests
<1>5. InOrder'
  <2> SUFFICES ASSUME NEW c \in Batches, NEW i \in DOMAIN Requests[c]
               PROVE  OrderAt(c, i)'
    BY DEF InOrder
  <2>1. /\ <<c, i>> \in Writes /\ i \in 1 .. Len(Requests[c])
        /\ Len(Requests[c]) \in Nat /\ pos[c] \in Nat
    BY WritesArePairs DEF IInv, TypeOK
  <2>2. OrderAt(c, i) /\ TypeOK
    BY DEF IInv, InOrder
  <2>3. CASE c = b
    BY <1>1, <2>1, <2>2, <2>3 DEF MakeRequest, OrderAt, TypeOK, MoreRequests, Current
  <2>4. CASE c # b
    BY <1>1, <2>1, <2>2, <2>4 DEF MakeRequest, OrderAt, TypeOK, MoreRequests, Current
  <2> QED BY <2>3, <2>4
<1>6. SeenSince'
  BY <1>1, WritesArePairs DEF MakeRequest, IInv, TypeOK, InHand, SeenSince, Holding, Path,
     ContentsKnown, MoreRequests
<1>7. HashChecked'
  BY <1>1, WritesArePairs DEF MakeRequest, IInv, TypeOK, HashChecked, ContentsKnown, Current
<1> QED BY <1>2, <1>3, <1>4, <1>5, <1>6, <1>7 DEF IInv

\* Sending the batch starts it at its first request.
LEMMA WriteSnippetBatchKeeps ==
  ASSUME IInv, NEW b \in Batches, WriteSnippetBatch(b)
  PROVE  IInv'
<1>2. TypeOK'
  BY WritesArePairs, NoneOutside DEF WriteSnippetBatch, IInv, TypeOK, Holding, Path,
     Current, MoreRequests
<1>3. ContentsKnown'
  BY WritesArePairs DEF WriteSnippetBatch, IInv, ContentsKnown, Contents, Path, Current
<1>4. InHand'
  BY WritesArePairs DEF WriteSnippetBatch, IInv, TypeOK, InHand, Holding, MoreRequests
<1>5. InOrder'
  <2> SUFFICES ASSUME NEW c \in Batches, NEW i \in DOMAIN Requests[c]
               PROVE  OrderAt(c, i)'
    BY DEF InOrder
  <2>1. /\ <<c, i>> \in Writes /\ i \in 1 .. Len(Requests[c])
        /\ Len(Requests[c]) \in Nat /\ pos[c] \in Nat
    BY WritesArePairs DEF IInv, TypeOK
  <2>2. OrderAt(c, i) /\ TypeOK
    BY DEF IInv, InOrder
  <2>3. CASE c = b
    BY <2>1, <2>2, <2>3 DEF WriteSnippetBatch, OrderAt, TypeOK, MoreRequests, Current
  <2>4. CASE c # b
    BY <2>1, <2>2, <2>4 DEF WriteSnippetBatch, OrderAt, TypeOK, MoreRequests, Current
  <2> QED BY <2>3, <2>4
<1>6. SeenSince'
  BY WritesArePairs DEF WriteSnippetBatch, IInv, TypeOK, InHand, SeenSince, Holding, Path,
     ContentsKnown, MoreRequests
<1>7. HashChecked'
  BY WritesArePairs DEF WriteSnippetBatch, IInv, TypeOK, HashChecked, ContentsKnown, Current
<1> QED BY <1>2, <1>3, <1>4, <1>5, <1>6, <1>7 DEF IInv

\* A refused path ends the request without a lock.
LEMMA RefusePathKeeps ==
  ASSUME IInv, NEW b \in Batches, RefusePath(b)
  PROVE  IInv'
<1>1. /\ pos[b] \in DOMAIN Requests[b] /\ Path(b) \in Files
      /\ Current(b) \in Writes
  BY InRange DEF RefusePath
<1>2. TypeOK'
  BY <1>1, WritesArePairs, NoneOutside DEF RefusePath, Result, IInv, TypeOK, Holding, Path,
     Current, MoreRequests
<1>3. ContentsKnown'
  BY <1>1, WritesArePairs DEF RefusePath, Result, IInv, ContentsKnown, Contents, Path,
     Current
<1>4. InHand'
  BY <1>1, WritesArePairs DEF RefusePath, Result, IInv, TypeOK, InHand, Holding,
     MoreRequests
<1>5. InOrder'
  <2> SUFFICES ASSUME NEW c \in Batches, NEW i \in DOMAIN Requests[c]
               PROVE  OrderAt(c, i)'
    BY DEF InOrder
  <2>1. /\ <<c, i>> \in Writes /\ i \in 1 .. Len(Requests[c])
        /\ Len(Requests[c]) \in Nat /\ pos[c] \in Nat
    BY WritesArePairs DEF IInv, TypeOK
  <2>2. OrderAt(c, i) /\ TypeOK
    BY DEF IInv, InOrder
  <2>3. CASE c = b
    BY <1>1, <2>1, <2>2, <2>3 DEF RefusePath, Result, OrderAt, TypeOK, MoreRequests, Current
  <2>4. CASE c # b
    BY <1>1, <2>1, <2>2, <2>4 DEF RefusePath, Result, OrderAt, TypeOK, MoreRequests, Current
  <2> QED BY <2>3, <2>4
<1>6. SeenSince'
  BY <1>1, WritesArePairs DEF RefusePath, Result, IInv, TypeOK, InHand, SeenSince, Holding,
     Path, ContentsKnown, MoreRequests
<1>7. HashChecked'
  BY <1>1, WritesArePairs DEF RefusePath, Result, IInv, TypeOK, HashChecked, ContentsKnown,
     Current
<1> QED BY <1>2, <1>3, <1>4, <1>5, <1>6, <1>7 DEF IInv

\* The lock is taken by one task only.
LEMMA LockKeeps ==
  ASSUME IInv, NEW b \in Batches, Lock(b)
  PROVE  IInv'
<1>1. /\ pos[b] \in DOMAIN Requests[b] /\ Path(b) \in Files
      /\ Current(b) \in Writes
  BY InRange DEF Lock
<1>2. TypeOK'
  BY <1>1, WritesArePairs, NoneOutside DEF Lock, IInv, TypeOK, Holding, Path, Current,
     MoreRequests
<1>3. ContentsKnown'
  BY <1>1, WritesArePairs DEF Lock, IInv, ContentsKnown, Contents, Path, Current
<1>4. InHand'
  BY <1>1, WritesArePairs DEF Lock, IInv, TypeOK, InHand, Holding, MoreRequests
<1>5. InOrder'
  <2> SUFFICES ASSUME NEW c \in Batches, NEW i \in DOMAIN Requests[c]
               PROVE  OrderAt(c, i)'
    BY DEF InOrder
  <2>1. /\ <<c, i>> \in Writes /\ i \in 1 .. Len(Requests[c])
        /\ Len(Requests[c]) \in Nat /\ pos[c] \in Nat
    BY WritesArePairs DEF IInv, TypeOK
  <2>2. OrderAt(c, i) /\ TypeOK
    BY DEF IInv, InOrder
  <2>3. CASE c = b
    BY <1>1, <2>1, <2>2, <2>3 DEF Lock, OrderAt, TypeOK, MoreRequests, Current
  <2>4. CASE c # b
    BY <1>1, <2>1, <2>2, <2>4 DEF Lock, OrderAt, TypeOK, MoreRequests, Current
  <2> QED BY <2>3, <2>4
<1>6. SeenSince'
  BY <1>1, WritesArePairs DEF Lock, IInv, TypeOK, InHand, SeenSince, Holding, Path,
     ContentsKnown, MoreRequests
<1>7. HashChecked'
  BY <1>1, WritesArePairs DEF Lock, IInv, TypeOK, HashChecked, ContentsKnown, Current
<1> QED BY <1>2, <1>3, <1>4, <1>5, <1>6, <1>7 DEF IInv

\* What is read is the present content.
LEMMA ReadKeeps ==
  ASSUME IInv, NEW b \in Batches, Read(b)
  PROVE  IInv'
<1>1. /\ pos[b] \in DOMAIN Requests[b] /\ Path(b) \in Files
      /\ Current(b) \in Writes
  BY Inside DEF Read, Holding
<1>2. TypeOK'
  BY <1>1, WritesArePairs, NoneOutside DEF Read, IInv, TypeOK, Holding, Path, Current,
     MoreRequests
<1>3. ContentsKnown'
  BY <1>1, WritesArePairs DEF Read, IInv, ContentsKnown, Contents, Path, Current
<1>4. InHand'
  BY <1>1, WritesArePairs DEF Read, IInv, TypeOK, InHand, Holding, MoreRequests
<1>5. InOrder'
  <2> SUFFICES ASSUME NEW c \in Batches, NEW i \in DOMAIN Requests[c]
               PROVE  OrderAt(c, i)'
    BY DEF InOrder
  <2>1. /\ <<c, i>> \in Writes /\ i \in 1 .. Len(Requests[c])
        /\ Len(Requests[c]) \in Nat /\ pos[c] \in Nat
    BY WritesArePairs DEF IInv, TypeOK
  <2>2. OrderAt(c, i) /\ TypeOK
    BY DEF IInv, InOrder
  <2>3. CASE c = b
    BY <1>1, <2>1, <2>2, <2>3 DEF Read, OrderAt, TypeOK, MoreRequests, Current
  <2>4. CASE c # b
    BY <1>1, <2>1, <2>2, <2>4 DEF Read, OrderAt, TypeOK, MoreRequests, Current
  <2> QED BY <2>3, <2>4
<1>6. SeenSince'
  BY <1>1, WritesArePairs DEF Read, IInv, TypeOK, InHand, SeenSince, Holding, Path,
     ContentsKnown, MoreRequests
<1>7. HashChecked'
  BY <1>1, WritesArePairs DEF Read, IInv, TypeOK, HashChecked, ContentsKnown, Current
<1> QED BY <1>2, <1>3, <1>4, <1>5, <1>6, <1>7 DEF IInv

\* The comparison of the hashes makes HashChecked true.
LEMMA StageTmpKeeps ==
  ASSUME IInv, NEW b \in Batches, StageTmp(b)
  PROVE  IInv'
<1>1. /\ pos[b] \in DOMAIN Requests[b] /\ Path(b) \in Files
      /\ Current(b) \in Writes
  BY Inside DEF StageTmp, Holding
<1>2. TypeOK'
  BY <1>1, WritesArePairs, NoneOutside DEF StageTmp, IInv, TypeOK, Holding, Path, Current,
     MoreRequests
<1>3. ContentsKnown'
  BY <1>1, WritesArePairs DEF StageTmp, IInv, ContentsKnown, Contents, Path, Current
<1>4. InHand'
  BY <1>1, WritesArePairs DEF StageTmp, IInv, TypeOK, InHand, Holding, MoreRequests
<1>5. InOrder'
  <2> SUFFICES ASSUME NEW c \in Batches, NEW i \in DOMAIN Requests[c]
               PROVE  OrderAt(c, i)'
    BY DEF InOrder
  <2>1. /\ <<c, i>> \in Writes /\ i \in 1 .. Len(Requests[c])
        /\ Len(Requests[c]) \in Nat /\ pos[c] \in Nat
    BY WritesArePairs DEF IInv, TypeOK
  <2>2. OrderAt(c, i) /\ TypeOK
    BY DEF IInv, InOrder
  <2>3. CASE c = b
    BY <1>1, <2>1, <2>2, <2>3 DEF StageTmp, OrderAt, TypeOK, MoreRequests, Current
  <2>4. CASE c # b
    BY <1>1, <2>1, <2>2, <2>4 DEF StageTmp, OrderAt, TypeOK, MoreRequests, Current
  <2> QED BY <2>3, <2>4
<1>6. SeenSince'
  BY <1>1, WritesArePairs DEF StageTmp, IInv, TypeOK, InHand, SeenSince, Holding, Path,
     ContentsKnown, MoreRequests
<1>7. HashChecked'
  BY <1>1, WritesArePairs DEF StageTmp, IInv, TypeOK, HashChecked, ContentsKnown, Current
<1> QED BY <1>2, <1>3, <1>4, <1>5, <1>6, <1>7 DEF IInv

\* An error return drops the lock.
LEMMA RefuseKeeps ==
  ASSUME IInv, NEW b \in Batches, Refuse(b)
  PROVE  IInv'
<1>1. /\ pos[b] \in DOMAIN Requests[b] /\ Path(b) \in Files
      /\ Current(b) \in Writes
  BY Inside DEF Refuse, Holding
<1>2. TypeOK'
  BY <1>1, WritesArePairs, NoneOutside DEF Refuse, Result, IInv, TypeOK, Holding, Path,
     Current, MoreRequests
<1>3. ContentsKnown'
  BY <1>1, WritesArePairs DEF Refuse, Result, IInv, ContentsKnown, Contents, Path, Current
<1>4. InHand'
  BY <1>1, WritesArePairs DEF Refuse, Result, IInv, TypeOK, InHand, Holding, MoreRequests
<1>5. InOrder'
  <2> SUFFICES ASSUME NEW c \in Batches, NEW i \in DOMAIN Requests[c]
               PROVE  OrderAt(c, i)'
    BY DEF InOrder
  <2>1. /\ <<c, i>> \in Writes /\ i \in 1 .. Len(Requests[c])
        /\ Len(Requests[c]) \in Nat /\ pos[c] \in Nat
    BY WritesArePairs DEF IInv, TypeOK
  <2>2. OrderAt(c, i) /\ TypeOK
    BY DEF IInv, InOrder
  <2>3. CASE c = b
    BY <1>1, <2>1, <2>2, <2>3 DEF Refuse, Result, OrderAt, TypeOK, MoreRequests, Current
  <2>4. CASE c # b
    BY <1>1, <2>1, <2>2, <2>4 DEF Refuse, Result, OrderAt, TypeOK, MoreRequests, Current
  <2> QED BY <2>3, <2>4
<1>6. SeenSince'
  BY <1>1, WritesArePairs DEF Refuse, Result, IInv, TypeOK, InHand, SeenSince, Holding,
     Path, ContentsKnown, MoreRequests
<1>7. HashChecked'
  BY <1>1, WritesArePairs DEF Refuse, Result, IInv, TypeOK, HashChecked, ContentsKnown,
     Current
<1> QED BY <1>2, <1>3, <1>4, <1>5, <1>6, <1>7 DEF IInv

\* A rename replaces the content that it has read under the lock, which nobody else holds.
LEMMA RenameKeeps ==
  ASSUME IInv, NEW b \in Batches, Rename(b)
  PROVE  IInv'
<1>1. /\ pos[b] \in DOMAIN Requests[b] /\ Path(b) \in Files
      /\ Current(b) \in Writes
  BY Inside DEF Rename, Holding
<1>2. TypeOK'
  <2>1. \A f \in Files : \A c \in Batches :
          lock'[f] = c <=> pc'[c] \in Holding /\ Path(c)' = f
    BY <1>1 DEF Rename, IInv, TypeOK, Holding, Path
  <2>2. \A f \in Files : file'[f] \in since'[f]
    <3>1. /\ file \in [Files -> Contents] /\ since \in [Files -> SUBSET Contents]
          /\ \A f \in Files : file[f] \in since[f]
      BY DEF IInv, TypeOK, ContentsKnown
    <3> QED BY <1>1, <3>1 DEF Rename
  <2> QED BY <1>1, <2>1, <2>2 DEF Rename, IInv, TypeOK, Holding
<1>3. ContentsKnown'
  BY <1>1, WritesArePairs DEF Rename, ContentsKnown, IInv, ContentsKnown, Contents, Path,
     Current
<1>4. InHand'
  BY <1>1, WritesArePairs DEF Rename, ContentsKnown, IInv, TypeOK, InHand, Holding,
     MoreRequests
<1>5. InOrder'
  <2> SUFFICES ASSUME NEW c \in Batches, NEW i \in DOMAIN Requests[c]
               PROVE  OrderAt(c, i)'
    BY DEF InOrder
  <2>1. /\ <<c, i>> \in Writes /\ i \in 1 .. Len(Requests[c])
        /\ Len(Requests[c]) \in Nat /\ pos[c] \in Nat
    BY WritesArePairs DEF IInv, TypeOK
  <2>2. OrderAt(c, i) /\ TypeOK
    BY DEF IInv, InOrder
  <2>3. CASE c = b
    BY <1>1, <2>1, <2>2, <2>3 DEF Rename, ContentsKnown, OrderAt, TypeOK, MoreRequests,
       Current
  <2>4. CASE c # b
    BY <1>1, <2>1, <2>2, <2>4 DEF Rename, ContentsKnown, OrderAt, TypeOK, MoreRequests,
       Current
  <2> QED BY <2>3, <2>4
<1>6. SeenSince'
  BY <1>1, WritesArePairs DEF Rename, ContentsKnown, IInv, TypeOK, InHand, SeenSince,
     Holding, Path, ContentsKnown, MoreRequests
<1>7. HashChecked'
  BY <1>1, WritesArePairs DEF Rename, ContentsKnown, IInv, TypeOK, HashChecked,
     ContentsKnown, Current
<1> QED BY <1>2, <1>3, <1>4, <1>5, <1>6, <1>7 DEF IInv

\* The result drops the lock.
LEMMA SyncParentKeeps ==
  ASSUME IInv, NEW b \in Batches, SyncParent(b)
  PROVE  IInv'
<1>1. /\ pos[b] \in DOMAIN Requests[b] /\ Path(b) \in Files
      /\ Current(b) \in Writes
  BY Inside DEF SyncParent, Holding
<1>2. TypeOK'
  BY <1>1, WritesArePairs, NoneOutside DEF SyncParent, Result, IInv, TypeOK, Holding, Path,
     Current, MoreRequests
<1>3. ContentsKnown'
  BY <1>1, WritesArePairs DEF SyncParent, Result, IInv, ContentsKnown, Contents, Path,
     Current
<1>4. InHand'
  BY <1>1, WritesArePairs DEF SyncParent, Result, IInv, TypeOK, InHand, Holding,
     MoreRequests
<1>5. InOrder'
  <2> SUFFICES ASSUME NEW c \in Batches, NEW i \in DOMAIN Requests[c]
               PROVE  OrderAt(c, i)'
    BY DEF InOrder
  <2>1. /\ <<c, i>> \in Writes /\ i \in 1 .. Len(Requests[c])
        /\ Len(Requests[c]) \in Nat /\ pos[c] \in Nat
    BY WritesArePairs DEF IInv, TypeOK
  <2>2. OrderAt(c, i) /\ TypeOK
    BY DEF IInv, InOrder
  <2>3. CASE c = b
    BY <1>1, <2>1, <2>2, <2>3 DEF SyncParent, Result, OrderAt, TypeOK, MoreRequests, Current
  <2>4. CASE c # b
    BY <1>1, <2>1, <2>2, <2>4 DEF SyncParent, Result, OrderAt, TypeOK, MoreRequests, Current
  <2> QED BY <2>3, <2>4
<1>6. SeenSince'
  BY <1>1, WritesArePairs DEF SyncParent, Result, IInv, TypeOK, InHand, SeenSince, Holding,
     Path, ContentsKnown, MoreRequests
<1>7. HashChecked'
  BY <1>1, WritesArePairs DEF SyncParent, Result, IInv, TypeOK, HashChecked, ContentsKnown,
     Current
<1> QED BY <1>2, <1>3, <1>4, <1>5, <1>6, <1>7 DEF IInv

\* The end of a batch changes no lock.
LEMMA EndBatchKeeps ==
  ASSUME IInv, NEW b \in Batches, EndBatch(b)
  PROVE  IInv'
<1>2. TypeOK'
  BY WritesArePairs, NoneOutside DEF EndBatch, IInv, TypeOK, Holding, Path, Current,
     MoreRequests
<1>3. ContentsKnown'
  BY WritesArePairs DEF EndBatch, IInv, ContentsKnown, Contents, Path, Current
<1>4. InHand'
  BY WritesArePairs DEF EndBatch, IInv, TypeOK, InHand, Holding, MoreRequests
<1>5. InOrder'
  <2> SUFFICES ASSUME NEW c \in Batches, NEW i \in DOMAIN Requests[c]
               PROVE  OrderAt(c, i)'
    BY DEF InOrder
  <2>1. /\ <<c, i>> \in Writes /\ i \in 1 .. Len(Requests[c])
        /\ Len(Requests[c]) \in Nat /\ pos[c] \in Nat
    BY WritesArePairs DEF IInv, TypeOK
  <2>2. OrderAt(c, i) /\ TypeOK
    BY DEF IInv, InOrder
  <2>3. CASE c = b
    BY <2>1, <2>2, <2>3 DEF EndBatch, OrderAt, TypeOK, MoreRequests, Current
  <2>4. CASE c # b
    BY <2>1, <2>2, <2>4 DEF EndBatch, OrderAt, TypeOK, MoreRequests, Current
  <2> QED BY <2>3, <2>4
<1>6. SeenSince'
  BY WritesArePairs DEF EndBatch, IInv, TypeOK, InHand, SeenSince, Holding, Path,
     ContentsKnown, MoreRequests
<1>7. HashChecked'
  BY WritesArePairs DEF EndBatch, IInv, TypeOK, HashChecked, ContentsKnown, Current
<1> QED BY <1>2, <1>3, <1>4, <1>5, <1>6, <1>7 DEF IInv

\* So does a save by another program.
LEMMA SaveOutsideKeeps ==
  ASSUME IInv, NEW f \in Files, NEW s \in Saves, SaveOutside(f, s)
  PROVE  IInv'
<1> DEFINE new == Append(IF s \in Reverts THEN <<>> ELSE file[f], s)
<1>1. new \in Contents
  BY DEF IInv, ContentsKnown, Contents
<1>2. /\ saved' = saved \cup {s}
      /\ file' = [file EXCEPT ![f] = new] /\ since' = [since EXCEPT ![f] = @ \cup {new}]
      /\ UNCHANGED <<lock, pc, pos, seen, madeFor, outcome, crashes>>
  BY DEF SaveOutside
<1>3. file \in [Files -> Contents] /\ since \in [Files -> SUBSET Contents]
  BY DEF IInv, ContentsKnown
<1>4. TypeOK'
  <2>1. \A g \in Files : file'[g] \in since'[g]
    BY <1>2, <1>3 DEF IInv, TypeOK
  <2> HIDE DEF new
  <2>2. saved' \subseteq Saves
    BY <1>2 DEF IInv, TypeOK
  <2> QED BY <1>2, <2>1, <2>2 DEF IInv, TypeOK, Path
<1>5. ContentsKnown'
  BY <1>1, <1>2 DEF IInv, ContentsKnown
<1>6. SeenSince'
  <2> SUFFICES ASSUME NEW c \in Batches, pc[c] \in {"check", "rename"}
               PROVE  seen[c] \in since'[Path(c)]
    BY <1>2 DEF SeenSince, Path
  <2>1. Path(c) \in Files /\ seen[c] \in since[Path(c)]
    BY Inside DEF IInv, SeenSince, Holding
  <2> QED BY <1>2, <1>3, <2>1
<1>7. (InHand /\ InOrder /\ HashChecked)'
  BY <1>2 DEF IInv, InHand, MoreRequests, InOrder, OrderAt, HashChecked, Current
<1> QED BY <1>4, <1>5, <1>6, <1>7 DEF IInv

\* So does a crash: the locks are free and nobody is inside.
LEMMA CrashKeeps ==
  ASSUME IInv, Crash
  PROVE  IInv'
<1>1. TypeOK'
  BY NoneOutside DEF Crash, IInv, TypeOK, Holding, Path
<1>2. (ContentsKnown /\ InHand /\ InOrder /\ SeenSince /\ HashChecked)'
  BY DEF Crash, IInv, TypeOK, ContentsKnown, InHand, Holding, InOrder, OrderAt, SeenSince,
     HashChecked
<1> QED BY <1>1, <1>2 DEF IInv

\* IInv is inductive.
LEMMA Invariance == IInv /\ [Next]_vars => IInv'
<1> SUFFICES ASSUME IInv, [Next]_vars PROVE IInv'
  OBVIOUS
<1>1. ASSUME NEW b \in Batches,
             MakeRequest(b) \/ WriteSnippetBatch(b) \/ ProcessOneWrite(b) \/ EndBatch(b)
      PROVE  IInv'
  BY <1>1, MakeRequestKeeps, WriteSnippetBatchKeeps, RefusePathKeeps, LockKeeps, ReadKeeps,
     StageTmpKeeps, RefuseKeeps, RenameKeeps, SyncParentKeeps, EndBatchKeeps
     DEF ProcessOneWrite
<1>2. ASSUME NEW f \in Files, NEW s \in Saves, SaveOutside(f, s)
      PROVE  IInv'
  BY <1>2, SaveOutsideKeeps
<1>3. CASE Crash
  BY <1>3, CrashKeeps
<1>4. CASE UNCHANGED vars
  BY <1>4 DEF vars, IInv, TypeOK, Path, ContentsKnown, InHand, MoreRequests, InOrder,
     OrderAt,
     SeenSince, HashChecked, Current
<1> QED BY <1>1, <1>2, <1>3, <1>4 DEF Next

\* IInv holds of every reachable state.
THEOREM IInvAlways == Spec => []IInv
BY Initially, Invariance, PTL DEF Spec

\* A lock of process_one_write (write.rs) is held by the one task that is inside it for
\* that path, through every error return, save and crash.
THEOREM LocksHeldInside == Spec => []TypeOK
<1>1. IInv => TypeOK
  BY DEF IInv
<1> QED BY <1>1, IInvAlways, PTL

(***************************************************************************)
(* The refinement.                                                         *)
(***************************************************************************)

\* The initial states are those of the store.
LEMMA StartsAsStore == Init => Store!StoreInit
BY DEF Init, Store!StoreInit

\* A step that leaves the files, the requests and their outcomes alone is a stutter.
LEMMA Stutters ==
  ASSUME UNCHANGED <<file, since, madeFor, outcome>>
  PROVE  UNCHANGED Store!storeVars
BY DEF Store!storeVars

\* MakeRequest is Ask.
LEMMA MakeRequestAsks ==
  ASSUME IInv, NEW b \in Batches, MakeRequest(b)
  PROVE  Store!StoreNext
<1>1. /\ Current(b) \in Writes /\ FileOf[Current(b)] = Path(b)
      /\ pos[b] \in DOMAIN Requests[b]
  BY InRange DEF MakeRequest
<1>2. outcome[Current(b)] = "unsent"
  BY <1>1, WritesArePairs DEF MakeRequest, IInv, TypeOK, InOrder, OrderAt, Current
<1>3. [w \in Writes |-> Hash(madeFor'[w])]
        = [[w \in Writes |-> Hash(madeFor[w])] EXCEPT ![Current(b)] = Hash(file[Path(b)])]
  BY <1>1 DEF MakeRequest, IInv, ContentsKnown
<1>4. Store!Ask(Current(b))
  BY <1>1, <1>2, <1>3 DEF MakeRequest, Store!Ask
<1> QED BY <1>1, <1>4 DEF Store!StoreNext

\* An error return is Refuse.
LEMMA RefusalRefuses ==
  ASSUME IInv, NEW b \in Batches, RefusePath(b) \/ Refuse(b)
  PROVE  Store!StoreNext
<1>1. Current(b) \in Writes /\ pos[b] \in DOMAIN Requests[b]
  BY Inside, InRange DEF RefusePath, Refuse, Holding
<1>2. outcome[Current(b)] = "open"
  BY <1>1, WritesArePairs DEF RefusePath, Refuse, IInv, TypeOK, InOrder, OrderAt, Current
<1>3. Store!Refuse(Current(b))
  BY <1>1, <1>2 DEF RefusePath, Refuse, Result, Store!Refuse
<1> QED BY <1>1, <1>3 DEF Store!StoreNext

\* The rename is Apply: what was read has the wanted hash, and has been the content since
\* the last write of ploke-io.
LEMMA RenameApplies ==
  ASSUME IInv, NEW b \in Batches, Rename(b)
  PROVE  Store!StoreNext
<1>1. /\ Current(b) \in Writes /\ FileOf[Current(b)] = Path(b)
      /\ pos[b] \in DOMAIN Requests[b]
  BY Inside DEF Rename, Holding
<1>2. outcome[Current(b)] = "open"
  BY <1>1, WritesArePairs DEF Rename, IInv, TypeOK, InOrder, OrderAt, Current
<1>3. seen[b] \in since[FileOf[Current(b)]]
  BY <1>1 DEF Rename, IInv, SeenSince
<1>4. Hash(seen[b]) = [w \in Writes |-> Hash(madeFor[w])][Current(b)]
  BY <1>1 DEF Rename, IInv, HashChecked
<1>5. Store!Apply(Current(b))
  BY <1>1, <1>2, <1>3, <1>4 DEF Rename, Store!Apply
<1> QED BY <1>1, <1>5 DEF Store!StoreNext

\* The result that follows the rename says what is so already.
LEMMA SyncStutters ==
  ASSUME IInv, NEW b \in Batches, SyncParent(b)
  PROVE  UNCHANGED Store!storeVars
<1>1. Current(b) \in Writes /\ pos[b] \in DOMAIN Requests[b]
  BY Inside DEF SyncParent, Holding
<1>2. outcome[Current(b)] = "written"
  BY <1>1, WritesArePairs DEF SyncParent, IInv, TypeOK, InOrder, OrderAt, Current
<1>3. outcome' = outcome
  BY <1>2 DEF SyncParent, Result, IInv, TypeOK
<1> QED BY <1>3, Stutters DEF SyncParent

\* A save by another program is the store's SaveOutside.
LEMMA SavesOutside ==
  ASSUME IInv, NEW f \in Files, NEW s \in Saves, SaveOutside(f, s)
  PROVE  Store!StoreNext
<1>1. Store!SaveOutside(f, s)
  BY DEF SaveOutside, Store!SaveOutside
<1> QED BY <1>1 DEF Store!StoreNext

\* Every step is one of the store, or a stutter.
LEMMA StepsAsStore == IInv /\ [Next]_vars => [Store!StoreNext]_(Store!storeVars)
<1> SUFFICES ASSUME IInv, [Next]_vars PROVE [Store!StoreNext]_(Store!storeVars)
  OBVIOUS
<1>1. ASSUME NEW b \in Batches, MakeRequest(b) \/ RefusePath(b) \/ Refuse(b) \/ Rename(b)
      PROVE  Store!StoreNext
  BY <1>1, MakeRequestAsks, RefusalRefuses, RenameApplies
<1>2. ASSUME NEW b \in Batches,
             WriteSnippetBatch(b) \/ Lock(b) \/ Read(b) \/ StageTmp(b) \/ EndBatch(b)
      PROVE  UNCHANGED Store!storeVars
  BY <1>2, Stutters DEF WriteSnippetBatch, Lock, Read, StageTmp, EndBatch
<1>3. CASE Crash
  BY <1>3, Stutters DEF Crash
<1>4. CASE UNCHANGED vars
  BY <1>4, Stutters DEF vars
<1> QED BY <1>1, <1>2, <1>3, <1>4, SyncStutters, SavesOutside DEF Next, ProcessOneWrite

\* Each write that process_one_write (write.rs) reports was one atomic step on a content
\* with the expected hash, and one that it refuses or a crash cuts short has had no effect
\* or its whole effect.
THEOREM WritesAreAtomic == Spec => StoreSpec
<1>1. Store!StoreInit /\ [][Store!StoreNext]_(Store!storeVars) => StoreSpec
  BY DEF StoreSpec, Store!StoreSpec
<1> QED BY <1>1, StartsAsStore, StepsAsStore, IInvAlways, PTL DEF Spec

(***************************************************************************)
(* One write for each version.                                             *)
(***************************************************************************)

\* The visible changes up to a position, from those up to the one before it.
LEMMA TokensDef ==
  ASSUME NEW S, NEW content \in Seq(S)
  PROVE  Tokens(content) =
           [n \in 0 .. Len(content) |->
              IF n = 0 THEN <<>>
              ELSE IF IsVisible(content[n]) THEN Append(Tokens(content)[n - 1], content[n])
              ELSE Tokens(content)[n - 1]]
<1> DEFINE N == Len(content)
    More(t, n) == IF IsVisible(content[n]) THEN Append(t, content[n]) ELSE t
    Upto(g, m) == g = [n \in 0 .. m |-> IF n = 0 THEN <<>>
                                         ELSE IF IsVisible(content[n])
                                              THEN Append(g[n - 1], content[n])
                                         ELSE g[n - 1]]
    Runs == { m \in 0 .. N : \E g : Upto(g, m) }
<1>0. N \in Nat
  OBVIOUS
<1>1. 0 \in Runs
  <2> DEFINE g == [n \in 0 .. 0 |-> <<>>]
  <2>1. Upto(g, 0)
    <3>1. \A n \in 0 .. 0 : n = 0 /\ g[n] = <<>>
      OBVIOUS
    <3> QED BY <3>1
  <2> HIDE DEF g
  <2> QED BY <1>0, <2>1
<1>2. ASSUME NEW m \in 0 .. N, m < N, m \in Runs PROVE m + 1 \in Runs
  <2>1. PICK g : Upto(g, m)
    BY <1>2
  <2> DEFINE h == [n \in 0 .. m + 1 |-> IF n = m + 1 THEN More(g[m], m + 1) ELSE g[n]]
  <2>2. ASSUME NEW n \in 0 .. m + 1
        PROVE  h[n] = IF n = 0 THEN <<>>
                      ELSE IF IsVisible(content[n]) THEN Append(h[n - 1], content[n])
                      ELSE h[n - 1]
    <3>1. CASE n = m + 1
      <4>1. h[n] = More(g[m], m + 1) /\ h[n - 1] = g[m]
        BY <3>1
      <4> QED BY <3>1, <4>1
    <3>2. CASE n # m + 1
      <4>1. n \in 0 .. m /\ h[n] = g[n]
        BY <3>2
      <4>2. n # 0 => h[n - 1] = g[n - 1]
        BY <4>1
      <4>3. g[n] = IF n = 0 THEN <<>>
                   ELSE IF IsVisible(content[n]) THEN Append(g[n - 1], content[n])
                   ELSE g[n - 1]
        BY <2>1, <4>1
      <4> QED BY <4>1, <4>2, <4>3
    <3> QED BY <3>1, <3>2
  <2>3. Upto(h, m + 1)
    <3>1. h = [n \in 0 .. m + 1 |-> h[n]]
      OBVIOUS
    <3> HIDE DEF h
    <3> QED BY <2>2, <3>1
  <2>4. m + 1 \in 0 .. N
    BY <1>0, <1>2
  <2> QED BY <2>3, <2>4
<1>3. \A i \in 0 .. N : i \in Runs
  <2> HIDE DEF Runs
  <2> QED BY <1>0, <1>1, <1>2, UpTo
<1>4. PICK g : Upto(g, N)
  <2>1. N \in Runs
    <3>1. N \in 0 .. N
      BY <1>0
    <3> HIDE DEF Runs, N
    <3> QED BY <1>3, <3>1
  <2> QED BY <2>1
<1>5. Tokens(content) = CHOOSE f : Upto(f, N)
  BY DEF Tokens
<1> QED BY <1>4, <1>5

\* A change at the end is seen, or makes no difference.
LEMMA HashAppend ==
  ASSUME NEW S, NEW content \in Seq(S), NEW x \in S
  PROVE  Hash(Append(content, x)) =
           IF IsVisible(x) THEN Append(Hash(content), x) ELSE Hash(content)
<1> DEFINE long == Append(content, x)
           N == Len(content)
           Same == { n \in 0 .. N : Tokens(long)[n] = Tokens(content)[n] }
<1>0. /\ N \in Nat /\ long \in Seq(S) /\ Len(long) = N + 1 /\ long[N + 1] = x
      /\ \A n \in 1 .. N : long[n] = content[n]
  OBVIOUS
<1>1. \A n \in 0 .. N + 1 :
        Tokens(long)[n] =
          IF n = 0 THEN <<>>
          ELSE IF IsVisible(long[n]) THEN Append(Tokens(long)[n - 1], long[n])
          ELSE Tokens(long)[n - 1]
  <2> HIDE DEF long
  <2> QED BY <1>0, TokensDef
<1>2. \A n \in 0 .. N :
        Tokens(content)[n] =
          IF n = 0 THEN <<>>
          ELSE IF IsVisible(content[n]) THEN Append(Tokens(content)[n - 1], content[n])
          ELSE Tokens(content)[n - 1]
  BY <1>0, TokensDef
<1> HIDE DEF long, N
<1>3. 0 \in Same
  BY <1>0, <1>1, <1>2
<1>4. ASSUME NEW i \in 0 .. N, i < N, i \in Same PROVE i + 1 \in Same
  <2>1. i + 1 \in 1 .. N /\ i + 1 \in 0 .. N + 1 /\ i + 1 # 0 /\ (i + 1) - 1 = i
    BY <1>0, <1>4
  <2>2. Tokens(long)[i] = Tokens(content)[i] /\ long[i + 1] = content[i + 1]
    BY <1>0, <1>4, <2>1
  <2>3. Tokens(long)[i + 1] = IF IsVisible(long[i + 1])
                               THEN Append(Tokens(long)[i], long[i + 1])
                               ELSE Tokens(long)[i]
    BY <1>1, <2>1
  <2>4. Tokens(content)[i + 1] = IF IsVisible(content[i + 1])
                                  THEN Append(Tokens(content)[i], content[i + 1])
                                  ELSE Tokens(content)[i]
    BY <1>2, <2>1
  <2> QED BY <2>1, <2>2, <2>3, <2>4
<1>5. N \in Same
  <2>1. N \in 0 .. N
    BY <1>0
  <2> HIDE DEF Same
  <2> QED BY <1>0, <1>3, <1>4, <2>1, UpTo
<1>6. Tokens(long)[N + 1] = IF IsVisible(x) THEN Append(Tokens(long)[N], x)
                             ELSE Tokens(long)[N]
  <2>1. N + 1 \in 0 .. N + 1 /\ N + 1 # 0 /\ (N + 1) - 1 = N
    BY <1>0
  <2> QED BY <1>0, <1>1, <2>1
<1> QED BY <1>0, <1>5, <1>6 DEF Hash, long, N

\* A hash is of a sequence of changes.
LEMMA HashIsSequence ==
  ASSUME NEW S, NEW content \in Seq(S)
  PROVE  Hash(content) \in Seq(S)
<1> DEFINE N == Len(content)
           Fine == { n \in 0 .. N : Tokens(content)[n] \in Seq(S) }
<1>0. N \in Nat /\ \A n \in 1 .. N : content[n] \in S
  OBVIOUS
<1>1. \A n \in 0 .. N :
        Tokens(content)[n] =
          IF n = 0 THEN <<>>
          ELSE IF IsVisible(content[n]) THEN Append(Tokens(content)[n - 1], content[n])
          ELSE Tokens(content)[n - 1]
  BY <1>0, TokensDef
<1> HIDE DEF N
<1>2. 0 \in Fine
  <2>1. 0 \in 0 .. N
    BY <1>0
  <2>2. Tokens(content)[0] = <<>>
    BY <1>1, <2>1
  <2>3. <<>> \in Seq(S)
    OBVIOUS
  <2> QED BY <2>1, <2>2, <2>3
<1>3. ASSUME NEW i \in 0 .. N, i < N, i \in Fine PROVE i + 1 \in Fine
  <2>1. i + 1 \in 1 .. N /\ i + 1 \in 0 .. N /\ i + 1 # 0 /\ (i + 1) - 1 = i
    BY <1>0, <1>3
  <2>2. Tokens(content)[i + 1] = IF IsVisible(content[i + 1])
                                  THEN Append(Tokens(content)[i], content[i + 1])
                                  ELSE Tokens(content)[i]
    BY <1>1, <2>1
  <2>3. Tokens(content)[i] \in Seq(S) /\ content[i + 1] \in S
    BY <1>0, <1>3, <2>1
  <2>4. Append(Tokens(content)[i], content[i + 1]) \in Seq(S)
    BY <2>3
  <2>5. Tokens(content)[i + 1] \in Seq(S)
    BY <2>2, <2>3, <2>4
  <2> QED BY <2>1, <2>5
<1>4. N \in Fine
  <2>1. N \in 0 .. N
    BY <1>0
  <2> HIDE DEF Fine
  <2> QED BY <1>0, <1>2, <1>3, <2>1, UpTo
<1> QED BY <1>4 DEF Hash, N

\* How much of a content the hash sees.
Depth(content) == Len(Hash(content))

LEMMA DepthIsNat ==
  ASSUME NEW content \in Contents
  PROVE  Depth(content) \in Nat
<1>1. Hash(content) \in Seq(Writes \cup Saves)
  BY HashIsSequence DEF Contents
<1> QED BY <1>1 DEF Depth

LEMMA DepthGrows ==
  ASSUME NEW content \in Contents, NEW x \in Writes \cup Saves
  PROVE  /\ Depth(content) \in Nat /\ Append(content, x) \in Contents
         /\ Depth(Append(content, x)) >= Depth(content)
         /\ x \notin Cosmetic => Depth(Append(content, x)) > Depth(content)
<1>1. Hash(content) \in Seq(Writes \cup Saves)
  BY HashIsSequence DEF Contents
<1>2. Hash(Append(content, x)) =
        IF IsVisible(x) THEN Append(Hash(content), x) ELSE Hash(content)
  BY HashAppend DEF Contents
<1>3. Append(content, x) \in Contents
  BY DEF Contents
<1>4. /\ Len(Hash(content)) \in Nat
      /\ Len(Append(Hash(content), x)) = Len(Hash(content)) + 1
  BY <1>1
<1> QED BY <1>2, <1>3, <1>4 DEF Depth, IsVisible

\* What a request was made for is behind every content that has been the file's since
\* the last write: the file never comes back to it.
Outdated ==
  saved \cap Reverts = {} =>
    \A v \in Writes :
      outcome[v] = "written" /\ v \notin Cosmetic =>
        \A c \in since[FileOf[v]] : Depth(madeFor[v]) < Depth(c)

\* Only the rename writes; the other steps of a task leave the versions alone.
LEMMA QuietStep ==
  ASSUME IInv, Outdated, UNCHANGED <<since, saved>>,
         \A v \in Writes : outcome'[v] = "written" =>
            outcome[v] = "written" /\ madeFor'[v] = madeFor[v]
  PROVE  Outdated'
BY DEF Outdated

\* The rename of a request that is not cosmetic, if nobody puts the file back: what it
\* read is behind what it writes, and everything that was outdated stays so.
LEMMA RenameOutdates ==
  ASSUME IInv, Outdated, NEW b \in Batches, Rename(b)
  PROVE  Outdated'
<1> DEFINE w == Current(b)
           f == Path(b)
           new == Append(seen[b], w)
<1> SUFFICES ASSUME saved \cap Reverts = {}, NEW v \in Writes,
                    outcome'[v] = "written", v \notin Cosmetic,
                    NEW c \in since'[FileOf[v]]
             PROVE  Depth(madeFor[v]) < Depth(c)
  BY DEF Outdated, Rename
<1>1. /\ f \in Files /\ w \in Writes /\ FileOf[w] = f
      /\ seen[b] \in since[f] /\ Hash(seen[b]) = Hash(madeFor[w])
  BY Inside DEF Rename, Holding, IInv, SeenSince, HashChecked
<1>2. /\ since \in [Files -> SUBSET Contents] /\ seen[b] \in Contents
      /\ madeFor \in [Writes -> Contents] /\ outcome \in [Writes ->
           {"unsent", "open", "written", "refused"}]
  BY DEF IInv, TypeOK, ContentsKnown
<1>3. since' = [since EXCEPT ![f] = {new}] /\ outcome' = [outcome EXCEPT ![w] = "written"]
  BY DEF Rename
<1>4. FileOf[v] \in Files
  BY WritesArePairs DEF FileOf
<1>5. /\ Depth(seen[b]) \in Nat /\ Depth(new) >= Depth(seen[b]) /\ Depth(new) \in Nat
      /\ w \notin Cosmetic => Depth(new) > Depth(seen[b])
  <2>1. w \in Writes \cup Saves
    BY <1>1
  <2>2. /\ new \in Contents /\ Depth(seen[b]) \in Nat /\ Depth(new) >= Depth(seen[b])
        /\ w \notin Cosmetic => Depth(new) > Depth(seen[b])
    BY <1>2, <2>1, DepthGrows
  <2>3. Depth(new) \in Nat
    BY <2>2, DepthIsNat
  <2> HIDE DEF new
  <2> QED BY <2>2, <2>3
<1>6. Depth(madeFor[v]) \in Nat
  <2>1. madeFor[v] \in Contents
    BY <1>2
  <2> QED BY <1>1, <2>1, DepthGrows
<1> HIDE DEF w, f, new
<1>7. CASE v = w
  <2>1. c = new
    BY <1>1, <1>2, <1>3, <1>7
  <2>2. Depth(madeFor[v]) = Depth(seen[b])
    BY <1>1, <1>7 DEF Depth
  <2> QED BY <1>5, <1>7, <2>1, <2>2
<1>8. CASE v # w
  <2>1. outcome[v] = "written"
    BY <1>2, <1>3, <1>8
  <2>2. \A d \in since[FileOf[v]] : Depth(madeFor[v]) < Depth(d)
    BY <2>1 DEF Outdated
  <2>3. CASE FileOf[v] = f
    <3>1. c = new
      BY <1>1, <1>2, <1>3, <2>3
    <3>2. Depth(madeFor[v]) < Depth(seen[b])
      BY <1>1, <2>2, <2>3
    <3> QED BY <1>5, <1>6, <3>1, <3>2
  <2>4. CASE FileOf[v] # f
    <3>1. c \in since[FileOf[v]]
      BY <1>2, <1>3, <1>4, <2>4
    <3> QED BY <2>2, <3>1
  <2> QED BY <2>3, <2>4
<1> QED BY <1>7, <1>8

\* A save of another program, from the present content, moves the file on.
LEMMA SaveOutdates ==
  ASSUME IInv, Outdated, NEW f \in Files, NEW s \in Saves, SaveOutside(f, s)
  PROVE  Outdated'
<1> SUFFICES ASSUME saved' \cap Reverts = {}, NEW v \in Writes,
                    outcome[v] = "written", v \notin Cosmetic,
                    NEW c \in since'[FileOf[v]]
             PROVE  Depth(madeFor[v]) < Depth(c)
  BY DEF Outdated, SaveOutside
<1>1. saved \cap Reverts = {} /\ s \notin Reverts
  BY DEF SaveOutside
<1>2. since' = [since EXCEPT ![f] = @ \cup {Append(file[f], s)}]
  BY <1>1 DEF SaveOutside
<1>3. /\ since \in [Files -> SUBSET Contents] /\ file[f] \in since[f]
      /\ file[f] \in Contents /\ madeFor[v] \in Contents
  BY DEF IInv, TypeOK, ContentsKnown
<1>4. \A d \in since[FileOf[v]] : Depth(madeFor[v]) < Depth(d)
  BY <1>1 DEF Outdated
<1>5. FileOf[v] \in Files
  BY WritesArePairs DEF FileOf
<1>6. CASE c \in since[FileOf[v]]
  BY <1>4, <1>6
<1>7. CASE c \notin since[FileOf[v]]
  <2>1. FileOf[v] = f /\ c = Append(file[f], s)
    BY <1>2, <1>3, <1>5, <1>7
  <2>2. Depth(file[f]) \in Nat /\ Depth(c) >= Depth(file[f])
    BY <1>3, <2>1, DepthGrows
  <2>3. Depth(madeFor[v]) \in Nat /\ Depth(c) \in Nat
    <3>1. s \in Writes \cup Saves
      OBVIOUS
    <3>2. c \in Contents
      BY <1>3, <2>1, <3>1, DepthGrows
    <3> QED BY <1>3, <3>1, <3>2, DepthGrows
  <2> QED BY <1>3, <1>4, <2>1, <2>2, <2>3
<1> QED BY <1>6, <1>7

\* A step that answers a request with an error, or with the result it has already.
LEMMA AnswerOutdates ==
  ASSUME IInv, Outdated, NEW b \in Batches, RefusePath(b) \/ Refuse(b) \/ SyncParent(b)
  PROVE  Outdated'
<1>1. Current(b) \in Writes /\ pos[b] \in DOMAIN Requests[b]
  BY Inside, InRange DEF RefusePath, Refuse, SyncParent, Holding
<1>2. SyncParent(b) => outcome[Current(b)] = "written"
  BY <1>1, WritesArePairs DEF SyncParent, IInv, TypeOK, InOrder, OrderAt, Current
<1>3. /\ outcome \in [Writes -> {"unsent", "open", "written", "refused"}]
      /\ UNCHANGED <<since, saved, madeFor>>
  BY DEF RefusePath, Refuse, SyncParent, IInv, TypeOK
<1>4. ASSUME NEW v \in Writes, outcome'[v] = "written" PROVE outcome[v] = "written"
  BY <1>1, <1>2, <1>3, <1>4 DEF RefusePath, Refuse, SyncParent, Result
<1> QED BY <1>3, <1>4, QuietStep

\* A request is made before it is written, once.
LEMMA AskOutdates ==
  ASSUME IInv, Outdated, NEW b \in Batches, MakeRequest(b)
  PROVE  Outdated'
<1>1. Current(b) \in Writes /\ pos[b] \in DOMAIN Requests[b]
  BY InRange DEF MakeRequest
<1>2. /\ outcome \in [Writes -> {"unsent", "open", "written", "refused"}]
      /\ madeFor \in [Writes -> Contents]
  BY DEF IInv, TypeOK, ContentsKnown
<1>3. ASSUME NEW v \in Writes, outcome'[v] = "written"
      PROVE  outcome[v] = "written" /\ madeFor'[v] = madeFor[v]
  BY <1>1, <1>2, <1>3 DEF MakeRequest
<1>4. UNCHANGED <<since, saved>>
  BY DEF MakeRequest
<1> QED BY <1>3, <1>4, QuietStep

\* Outdated is inductive, given IInv.
LEMMA OutdatedInvariance == IInv /\ Outdated /\ [Next]_vars => Outdated'
<1> SUFFICES ASSUME IInv, Outdated, [Next]_vars PROVE Outdated'
  OBVIOUS
<1>1. ASSUME NEW b \in Batches,
             WriteSnippetBatch(b) \/ Lock(b) \/ Read(b) \/ StageTmp(b) \/ EndBatch(b)
      PROVE  Outdated'
  <2>1. UNCHANGED <<since, saved, outcome, madeFor>>
    BY <1>1 DEF WriteSnippetBatch, Lock, Read, StageTmp, EndBatch
  <2> QED BY <2>1 DEF Outdated
<1>2. CASE Crash \/ UNCHANGED vars
  <2>1. UNCHANGED <<since, saved, outcome, madeFor>>
    BY <1>2 DEF Crash, vars
  <2> QED BY <2>1 DEF Outdated
<1> QED BY <1>1, <1>2, AskOutdates, AnswerOutdates, RenameOutdates, SaveOutdates
    DEF Next, ProcessOneWrite

\* One rename at a time, and the file has moved on by the next one.
LEMMA RenameIsFirst ==
  ASSUME IInv, Outdated, OnePerVersion, NEW b \in Batches, Rename(b)
  PROVE  OnePerVersion'
<1> DEFINE u == Current(b)
<1> SUFFICES ASSUME saved \cap Reverts = {}, NEW v \in Writes, NEW w \in Writes,
                    v # w, FileOf[v] = FileOf[w], outcome'[v] = "written",
                    outcome'[w] = "written", Hash(madeFor[v]) = Hash(madeFor[w])
             PROVE  v \in Cosmetic \/ w \in Cosmetic
  BY DEF OnePerVersion, Rename
<1>1. /\ u \in Writes /\ FileOf[u] = Path(b)
      /\ seen[b] \in since[FileOf[u]] /\ Hash(seen[b]) = Hash(madeFor[u])
  BY Inside DEF Rename, Holding, IInv, SeenSince, HashChecked
<1>2. /\ outcome \in [Writes -> {"unsent", "open", "written", "refused"}]
      /\ madeFor \in [Writes -> Contents]
  BY DEF IInv, TypeOK, ContentsKnown
<1>3. outcome' = [outcome EXCEPT ![u] = "written"]
  BY DEF Rename
<1>4. \A x \in Writes : x # u /\ outcome'[x] = "written" => outcome[x] = "written"
  BY <1>2, <1>3
<1>5. ASSUME NEW x \in Writes, outcome[x] = "written", FileOf[x] = FileOf[u],
             Hash(madeFor[x]) = Hash(madeFor[u])
      PROVE  x \in Cosmetic
  <2> SUFFICES ASSUME x \notin Cosmetic PROVE FALSE
    OBVIOUS
  <2>1. Depth(madeFor[x]) < Depth(seen[b])
    BY <1>1, <1>5 DEF Outdated
  <2>2. Depth(madeFor[x]) = Depth(seen[b])
    BY <1>1, <1>5 DEF Depth
  <2>3. Depth(madeFor[x]) \in Nat
    BY <1>1, <1>2, DepthGrows
  <2> QED BY <2>1, <2>2, <2>3
<1> HIDE DEF u
<1>6. CASE v # u /\ w # u
  BY <1>4, <1>6 DEF OnePerVersion
<1>7. CASE v = u
  BY <1>4, <1>5, <1>7
<1>8. CASE w = u
  BY <1>4, <1>5, <1>8
<1> QED BY <1>6, <1>7, <1>8

\* The other steps write nothing and make no request that is written.
LEMMA OthersWriteNothing ==
  ASSUME IInv, OnePerVersion, [Next]_vars, \A b \in Batches : ~Rename(b)
  PROVE  OnePerVersion'
<1> SUFFICES ASSUME NEW v \in Writes, outcome'[v] = "written"
             PROVE  outcome[v] = "written" /\ madeFor'[v] = madeFor[v]
  <2>1. saved \subseteq saved'
    BY DEF Next, ProcessOneWrite, MakeRequest, WriteSnippetBatch, RefusePath, Lock, Read,
       StageTmp, Refuse, SyncParent, EndBatch, SaveOutside, Crash, vars
  <2> QED BY <2>1 DEF OnePerVersion
<1>1. /\ outcome \in [Writes -> {"unsent", "open", "written", "refused"}]
      /\ madeFor \in [Writes -> Contents]
  BY DEF IInv, TypeOK, ContentsKnown
<1>2. CASE \E b \in Batches : MakeRequest(b)
  <2>1. PICK b \in Batches : MakeRequest(b)
    BY <1>2
  <2>2. Current(b) \in Writes
    BY <2>1, InRange DEF MakeRequest
  <2> QED BY <1>1, <2>1, <2>2 DEF MakeRequest
<1>3. CASE \E b \in Batches : RefusePath(b) \/ Refuse(b) \/ SyncParent(b)
  <2>1. PICK b \in Batches : RefusePath(b) \/ Refuse(b) \/ SyncParent(b)
    BY <1>3
  <2>2. Current(b) \in Writes /\ pos[b] \in DOMAIN Requests[b]
    BY <2>1, Inside, InRange DEF RefusePath, Refuse, SyncParent, Holding
  <2>3. SyncParent(b) => outcome[Current(b)] = "written"
    BY <2>1, <2>2, WritesArePairs DEF SyncParent, IInv, TypeOK, InOrder, OrderAt, Current
  <2> QED BY <1>1, <2>1, <2>2, <2>3 DEF RefusePath, Refuse, SyncParent, Result
<1>4. CASE UNCHANGED <<outcome, madeFor>>
  BY <1>4
<1> QED BY <1>2, <1>3, <1>4 DEF Next, ProcessOneWrite, WriteSnippetBatch, Lock, Read,
    StageTmp, EndBatch, SaveOutside, Crash, vars

\* Of the requests that were made for one version of a file, process_one_write (write.rs)
\* writes at most one, through any number of batches, saves and crashes, unless one of
\* them is cosmetic or another program puts the file back.
THEOREM WritesOncePerVersion == Spec => []OnePerVersion
<1>1. Init => Outdated /\ OnePerVersion
  BY DEF Init, Outdated, OnePerVersion
<1>2. IInv /\ Outdated /\ OnePerVersion /\ [Next]_vars => OnePerVersion'
  BY RenameIsFirst, OthersWriteNothing
<1> QED BY <1>1, <1>2, OutdatedInvariance, IInvAlways, PTL DEF Spec

=============================================================================
