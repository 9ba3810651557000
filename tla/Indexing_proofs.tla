---------------------------- MODULE Indexing_proofs ----------------------------
(***************************************************************************)
(* What is proved of Indexing, for any nodes, files and models, any number *)
(* of runs and any commands: vectors are of the text the graph has, but    *)
(* for the ways LiveIsCurrent names, and by the model of their set; a run  *)
(* by itself gets its own verdict; Completed accounts for every node that  *)
(* was counted, and Cancelled is said only of a run that left something    *)
(* undone.                                                                 *)
(***************************************************************************)
EXTENDS Indexing, CodeGraph_proofs

Statuses == {"Running", "Completed", "Cancelled", "Failed"}
Fetched == [node : Nodes, hash : VersionsOrNone, span : VersionsOrNone]
Found == [hash : VersionsOrNone, text : VersionsOrNone, own : BOOLEAN]
Batches == UNION {[S -> Fetched \cup Found] : S \in SUBSET Nodes}

RunStates ==
  [pc : {"free", "parse", "count", "fetch", "query", "snippets", "embed", "finish", "complete",
         "ended"},
   counted : SUBSET Nodes, recent : Nat, kind : Nat \ {0}, cursor : Nodes \cup {0}, fetched : Nat,
   batch : Batches, by : Models, status : Statuses,
   alone : BOOLEAN, set : Models, behind : SUBSET Nodes, skipped : SUBSET Nodes,
   crowded : BOOLEAN, switched : BOOLEAN]

WrapperStates ==
  [over : {"no", "ok", "error", "panic"}, inbox : Seq(Statuses), thread : {"up", "told", "down"}]

ManagerStates ==
  {Idle, [step |-> "update"]}
    \cup [step : {"parse", "retract"}, changed : SUBSET Files, then : {"scan", "update"}]
    \cup [step : {"wait"}, for : Runs] \cup [step : {"switch"}, to : Models]

\* The parts of the state of which TypeOK says less than a proof needs.
Shape ==
  /\ disk \in [Files -> 1 .. Versions] /\ GraphOK(graph)
  /\ active \in Models /\ processor \in Models
  /\ cursors \in [1 .. Kinds -> Nodes \cup {0}] /\ totalProcessed \in Nat
  /\ run \in [Runs -> RunStates] /\ wrapper \in [Runs -> WrapperStates]
  /\ manager \in ManagerStates /\ swapped \in BOOLEAN

\* What was read for a node out of the file that its span is for is the item, as the versions
\* of that hash have it.
FoundSound(n, b) == b \in Found /\ (b.own => b.text = b.hash /\ HasItem(n, b.hash))

ItemSound(pc, n, b) ==
  IF pc = "embed" THEN FoundSound(n, b) ELSE b \in Fetched /\ FetchedSound(n, b)

\* A batch has no more than was fetched for it, and what is in it is sound: first what was
\* fetched, then what was read.
BatchSound(q) ==
  /\ IsFiniteSet(DOMAIN q.batch) /\ Cardinality(DOMAIN q.batch) <= q.fetched
  /\ q.fetched <= BatchSize
  /\ \A n \in DOMAIN q.batch : ItemSound(q.pc, n, q.batch[n])
BatchesSound == \A r \in Runs : BatchSound(run[r])

\* Unless a switch met a run, there is none while the set is a model ahead of the embedder,
\* and what waits to be written was embedded by the model of the active set.
ModelsAgree ==
  ~swapped =>
    /\ manager.step = "switch" => manager.to = active /\ \A r \in Runs : ~AtWork(r)
    /\ manager.step # "switch" => processor = active
    /\ \A r \in Runs : run[r].pc = "embed" => run[r].by = active

\* A run that had the task for itself so far has it for itself.
There(r) == AtWork(r) \/ Followed(r)
StillAlone ==
  \A r, q \in Runs : r # q /\ run[r].alone /\ There(r) => ~There(q)

\* Its wrapper has heard nothing before the run is over, and then its status at most once;
\* the callback thread was told of no failure.
HeardOwn ==
  \A r \in Runs :
    LET w == wrapper[r] IN
    /\ run[r].pc \in {"free", "parse"} => w = NewWrapper
    /\ run[r].pc = "ended" <=> run[r].status # "Running"
    /\ run[r].alone /\ w.over = "no" =>
         /\ run[r].pc # "ended" => w.inbox = <<>> /\ w.thread = "up"
         /\ w.inbox # <<>> => w.inbox = <<run[r].status>> /\ w.thread = "up"
         /\ w.thread # "up" => run[r].status # "Failed"

Vectorial == LiveIsCurrent /\ OwnModel
Verdicts == StillAlone /\ HeardOwn /\ VerdictIsOwn

IInv == Shape /\ BatchesSound /\ ModelsAgree /\ Vectorial /\ Verdicts

(***************************************************************************)
(* The parts of IInv that several actions keep in the same way.            *)
(***************************************************************************)

\* The smaller and the larger of two numbers.
LEMMA OfTwo ==
  ASSUME NEW a \in Int, NEW b \in Int
  PROVE  /\ Min({a, b}) = IF a <= b THEN a ELSE b
         /\ Max({a, b}) = IF a >= b THEN a ELSE b
<1>1. \E x \in {a, b} : \A y \in {a, b} : x <= y
  <2>1. CASE a <= b
    BY <2>1
  <2>2. CASE b <= a
    BY <2>2
  <2> QED BY <2>1, <2>2
<1>2. \E x \in {a, b} : \A y \in {a, b} : x >= y
  <2>1. CASE a >= b
    BY <2>1
  <2>2. CASE b >= a
    BY <2>2
  <2> QED BY <2>1, <2>2
<1>3. Min({a, b}) \in {a, b} /\ \A y \in {a, b} : Min({a, b}) <= y
  BY <1>1 DEF Min
<1>4. Max({a, b}) \in {a, b} /\ \A y \in {a, b} : Max({a, b}) >= y
  BY <1>2 DEF Max
<1> QED BY <1>3, <1>4

\* What is fetched for one node type still fits the batch.
LEMMA FetchSizeFits ==
  ASSUME Shape, NEW r \in Runs, BatchSound(run[r])
  PROVE  FetchSize(r) \in Nat /\ run[r].fetched + FetchSize(r) <= BatchSize
<1>1. NumNotProc(r) \in Nat
  <2>1. run[r].counted \in SUBSET Nodes
    BY DEF Shape, RunStates
  <2> QED BY <2>1, NodePlaces, FS_Subset, FS_CardinalityType DEF NumNotProc
<1>2. BatchSize \in Nat /\ run[r].fetched \in Nat /\ run[r].fetched <= BatchSize
  BY IndexingAssumption DEF Shape, RunStates, BatchSound
<1> DEFINE least == Min({BatchSize, NumNotProc(r)})
<1>3. least \in Nat /\ least <= BatchSize
  BY <1>1, <1>2, OfTwo
<1>4. FetchSize(r) = Max({0, least - run[r].fetched})
  BY DEF FetchSize
<1> HIDE DEF least
<1> DEFINE left == least - run[r].fetched
<1>5. left \in Int /\ run[r].fetched + left <= BatchSize
  BY <1>2, <1>3
<1>6. FetchSize(r) = Max({0, left})
  BY <1>4
<1> HIDE DEF left
<1>7. Max({0, left}) = IF 0 >= left THEN 0 ELSE left
  BY <1>5, OfTwo
<1> QED BY <1>2, <1>5, <1>6, <1>7

\* The records an action makes of a run or a wrapper are of the right form.
LEMMA NewOnes ==
  /\ NoBatch \in Batches /\ DOMAIN NoBatch = {}
  /\ NewRun \in RunStates /\ BatchSound(NewRun)
  /\ NewWrapper \in WrapperStates /\ Idle \in ManagerStates
<1>1. NoBatch \in [{} -> Fetched \cup Found] /\ DOMAIN NoBatch = {}
  BY DEF NoBatch
<1>2. NoBatch \in Batches
  BY <1>1 DEF Batches
<1>3. NewRun \in RunStates
  BY <1>2, IndexingAssumption DEF NewRun, RunStates, Statuses
<1>4. BatchSound(NewRun)
  BY <1>1, FS_EmptySet, IndexingAssumption DEF NewRun, BatchSound
<1> QED BY <1>1, <1>2, <1>3, <1>4 DEF NewWrapper, WrapperStates, ManagerStates

\* A run goes on and changes only its own locals.
LEMMA OwnStepKeeps ==
  ASSUME IInv, NEW r \in Runs, NEW x \in RunStates, Step(r, x), AtWork(r),
         x.pc \notin {"free", "parse", "ended"},
         x.alone = run[r].alone, x.status = run[r].status, BatchSound(x),
         x.pc = "embed" /\ ~swapped => x.by = active,
         UNCHANGED <<active, processor, manager, wrapper, swapped>>
  PROVE  run' \in [Runs -> RunStates] /\ BatchesSound' /\ ModelsAgree' /\ Verdicts'
<1>1. /\ run' \in [Runs -> RunStates]
      /\ run'[r] = x /\ \A q \in Runs : q # r => run'[q] = run[q]
  BY DEF Step, IInv, Shape
<1>2. BatchesSound'
  BY <1>1 DEF IInv, BatchesSound, BatchSound
<1>3. ModelsAgree'
  BY <1>1 DEF IInv, ModelsAgree, AtWork
<1>4. \A q \in Runs : There(q)' => There(q)
  BY <1>1 DEF There, AtWork, Followed
<1>5. StillAlone'
  BY <1>1, <1>4 DEF IInv, Verdicts, StillAlone
<1>6. HeardOwn'
  BY <1>1 DEF IInv, Verdicts, HeardOwn, AtWork
<1>7. VerdictIsOwn'
  BY <1>1 DEF IInv, Verdicts, VerdictIsOwn, AtWork
<1> QED BY <1>1, <1>2, <1>3, <1>5, <1>6, <1>7 DEF Verdicts

\* A run ends, and says so to every wrapper that is there or to none.
LEMMA EndKeeps ==
  ASSUME IInv, NEW r \in Runs, NEW status \in Statuses \ {"Running"}, Over(r, status),
         Broadcast(status) \/ wrapper' = wrapper, AtWork(r), run[r].pc # "parse",
         UNCHANGED <<active, processor, manager, swapped>>
  PROVE  /\ run' \in [Runs -> RunStates] /\ wrapper' \in [Runs -> WrapperStates]
         /\ BatchesSound' /\ ModelsAgree' /\ Verdicts'
<1> DEFINE x == [NewRun EXCEPT !.pc = "ended", !.status = status, !.alone = run[r].alone]
<1>1. /\ x \in RunStates /\ x.pc = "ended" /\ x.status = status /\ x.alone = run[r].alone
      /\ BatchSound(x)
  <2>1. run[r].alone \in BOOLEAN
    BY DEF IInv, Shape, RunStates
  <2> QED BY <2>1, NewOnes DEF RunStates, NewRun, BatchSound
<1> HIDE DEF x
<1>2. /\ run' \in [Runs -> RunStates]
      /\ run'[r] = x /\ \A q \in Runs : q # r => run'[q] = run[q]
  BY <1>1 DEF Over, Step, IInv, Shape, x
<1>3. \A q \in Runs :
        \/ Followed(q) /\ wrapper'[q] = [wrapper[q] EXCEPT !.inbox = Append(@, status)]
        \/ wrapper'[q] = wrapper[q]
  BY DEF Broadcast
<1>4. wrapper' \in [Runs -> WrapperStates]
  <2>1. \A q \in Runs : wrapper[q] \in WrapperStates
    BY DEF IInv, Shape
  <2>2. \A s \in Seq(Statuses) : Append(s, status) \in Seq(Statuses)
    OBVIOUS
  <2>3. \A w \in WrapperStates : [w EXCEPT !.inbox = Append(@, status)] \in WrapperStates
    BY <2>2 DEF WrapperStates
  <2>4. \/ wrapper' = wrapper
        \/ wrapper' = [q \in Runs |-> IF Followed(q)
                                      THEN [wrapper[q] EXCEPT !.inbox = Append(@, status)]
                                      ELSE wrapper[q]]
    BY DEF Broadcast
  <2> QED BY <2>1, <2>3, <2>4 DEF IInv, Shape
<1>5. BatchesSound'
  BY <1>1, <1>2 DEF IInv, BatchesSound, BatchSound
<1>6. ModelsAgree'
  BY <1>1, <1>2 DEF IInv, ModelsAgree, AtWork
<1>7. \A q \in Runs : /\ wrapper'[q].over = wrapper[q].over /\ wrapper'[q].thread = wrapper[q].thread
                      /\ wrapper'[q].inbox \in {wrapper[q].inbox, Append(wrapper[q].inbox, status)}
                      /\ ~Followed(q) => wrapper'[q] = wrapper[q]
  BY <1>3 DEF IInv, Shape, WrapperStates
<1>8. \A q \in Runs : There(q)' => There(q)
  BY <1>2, <1>7 DEF There, AtWork, Followed
<1>9. StillAlone'
  BY <1>1, <1>2, <1>8 DEF IInv, Verdicts, StillAlone
<1>10. HeardOwn'
  <2> SUFFICES ASSUME NEW q \in Runs
               PROVE  LET w == wrapper'[q] IN
                      /\ run'[q].pc \in {"free", "parse"} => w = NewWrapper
                      /\ run'[q].pc = "ended" <=> run'[q].status # "Running"
                      /\ run'[q].alone /\ w.over = "no" =>
                           /\ run'[q].pc # "ended" => w.inbox = <<>> /\ w.thread = "up"
                           /\ w.inbox # <<>> => w.inbox = <<run'[q].status>> /\ w.thread = "up"
                           /\ w.thread # "up" => run'[q].status # "Failed"
    BY DEF HeardOwn
  <2>1. HeardOwn /\ StillAlone
    BY DEF IInv, Verdicts
  <2>2. CASE q = r
    <3>1. CASE run[r].alone /\ wrapper[r].over = "no"
      <4>1. wrapper[r].inbox = <<>> /\ wrapper[r].thread = "up" /\ Followed(r)
        BY <2>1, <3>1 DEF HeardOwn, AtWork, Followed
      <4>2. Append(<<>>, status) = <<status>>
        OBVIOUS
      <4>3. wrapper'[r].inbox \in {<<>>, <<status>>} /\ wrapper'[r].thread = "up"
        BY <4>1, <4>2, <1>7
      <4> QED BY <4>3, <2>2, <1>1, <1>2
    <3>2. CASE ~(run[r].alone /\ wrapper[r].over = "no")
      BY <3>2, <2>2, <1>1, <1>2, <1>7
    <3> QED BY <3>1, <3>2
  <2>3. CASE q # r /\ Followed(q)
    <3>1. ~run[q].alone
      BY <2>1, <2>3 DEF StillAlone, There
    <3> QED BY <2>1, <2>3, <3>1, <1>2 DEF HeardOwn, Followed
  <2>4. CASE q # r /\ ~Followed(q)
    BY <2>1, <2>4, <1>2, <1>7 DEF HeardOwn
  <2> QED BY <2>2, <2>3, <2>4
<1>11. VerdictIsOwn'
  <2> SUFFICES ASSUME NEW q \in Runs, run'[q].alone /\ wrapper'[q].over # "no"
               PROVE  /\ run'[q].pc = "ended"
                      /\ wrapper'[q].over \in {"error", "panic"} <=> run'[q].status = "Failed"
    BY DEF VerdictIsOwn
  <2>1. q # r
    <3>1. run[r].alone /\ wrapper[r].over # "no" => run[r].pc = "ended"
      BY DEF IInv, Verdicts, VerdictIsOwn
    <3> QED BY <3>1, <1>1, <1>2, <1>7 DEF AtWork
  <2> QED BY <2>1, <1>2, <1>7 DEF IInv, Verdicts, VerdictIsOwn
<1> QED BY <1>2, <1>4, <1>5, <1>6, <1>9, <1>10, <1>11 DEF Verdicts

\* What is in a batch stays sound until it is read.
LEMMA SameItems ==
  ASSUME NEW pc, NEW to, pc # "embed", to # "embed"
  PROVE  \A n, b : ItemSound(pc, n, b) => ItemSound(to, n, b)
BY DEF ItemSound

\* A run starts: it is alone if nobody is there, and nobody who is there stays alone.
LEMMA SpawnKeeps ==
  ASSUME IInv, NEW r \in Runs, NEW pc \in {"parse", "count"}, Spawn(r, pc),
         manager.step # "switch", manager'.step # "switch",
         UNCHANGED <<active, processor, wrapper>>
  PROVE  run' \in [Runs -> RunStates] /\ BatchesSound' /\ ModelsAgree' /\ Verdicts'
<1> DEFINE others == {q \in Runs : There(q)}
<1>1. /\ run[r].pc = "free" /\ swapped' = swapped
      /\ run' = [q \in Runs |->
           IF q = r THEN [run[r] EXCEPT !.pc = pc, !.alone = (others = {})]
           ELSE IF q \in others THEN [run[q] EXCEPT !.alone = FALSE] ELSE run[q]]
  BY DEF Spawn, There
<1>2. run \in [Runs -> RunStates]
  BY DEF IInv, Shape
<1>3. run' \in [Runs -> RunStates]
  <2>1. (others = {}) \in BOOLEAN
    OBVIOUS
  <2>2. \A x \in RunStates, b \in BOOLEAN :
          [x EXCEPT !.pc = pc, !.alone = b] \in RunStates /\ [x EXCEPT !.alone = b] \in RunStates
    BY DEF RunStates
  <2> HIDE DEF others
  <2>3. \A q \in Runs : run'[q] \in RunStates
    BY <1>1, <1>2, <2>1, <2>2
  <2> QED BY <1>1, <2>3
<1>4. \A q \in Runs :
        /\ run'[q].pc = IF q = r THEN pc ELSE run[q].pc
        /\ run'[q].alone => IF q = r THEN others = {} ELSE q \notin others /\ run[q].alone
        /\ run'[q].status = run[q].status /\ run'[q].by = run[q].by
        /\ run'[q].batch = run[q].batch /\ run'[q].fetched = run[q].fetched
  <2> HIDE DEF others
  <2> QED BY <1>1, <1>2 DEF RunStates
<1>5. BatchesSound'
  <2> SUFFICES ASSUME NEW q \in Runs PROVE BatchSound(run'[q])
    BY DEF BatchesSound
  <2>1. BatchSound(run[q])
    BY DEF IInv, BatchesSound
  <2>2. \A n, b : ItemSound(run[q].pc, n, b) => ItemSound(run'[q].pc, n, b)
    <3>1. run'[q].pc = run[q].pc \/ (run[q].pc = "free" /\ run'[q].pc \in {"parse", "count"})
      BY <1>1, <1>4
    <3> QED BY <3>1, SameItems
  <2> HIDE DEF others
  <2> QED BY <1>4, <2>1, <2>2 DEF BatchSound
<1>6. swapped' = swapped /\ run[r].pc = "free"
  BY <1>1
<1> HIDE DEF others
<1>7. ModelsAgree'
  <2>1. ModelsAgree
    BY DEF IInv
  <2> QED BY <2>1, <1>6, <1>4 DEF ModelsAgree
<1>8. wrapper[r] = NewWrapper /\ wrapper' = wrapper
  BY <1>6 DEF IInv, Verdicts, HeardOwn
<1>9. \A q \in Runs : q # r /\ There(q)' => q \in others
  BY <1>4, <1>8 DEF There, AtWork, Followed, others
<1>10. StillAlone'
  <2> SUFFICES ASSUME NEW p \in Runs, NEW q \in Runs, p # q, run'[p].alone, There(p)'
               PROVE  ~There(q)'
    BY DEF StillAlone
  <2>1. CASE p = r
    BY <2>1, <1>4, <1>9
  <2>2. CASE p # r
    BY <2>2, <1>4, <1>9
  <2> QED BY <2>1, <2>2
<1>11. HeardOwn'
  <2>1. HeardOwn
    BY DEF IInv, Verdicts
  <2> QED BY <2>1, <1>6, <1>4, <1>8 DEF HeardOwn, NewWrapper
<1>12. VerdictIsOwn'
  <2>1. VerdictIsOwn
    BY DEF IInv, Verdicts
  <2> QED BY <2>1, <1>6, <1>4, <1>8 DEF VerdictIsOwn, NewWrapper
<1> QED BY <1>3, <1>5, <1>7, <1>10, <1>11, <1>12 DEF Verdicts

\* A wrapper takes a step: if its run was alone, what it has heard is of that run.
LEMMA WrapperToKeeps ==
  ASSUME IInv, NEW r \in Runs, NEW w \in WrapperStates, WrapperTo(r, w),
         run[r].pc \notin {"free", "parse"}, w.over = "no" => wrapper[r].over = "no",
         run[r].alone /\ w.over = "no" =>
           /\ run[r].pc # "ended" => w.inbox = <<>> /\ w.thread = "up"
           /\ w.inbox # <<>> => w.inbox = <<run[r].status>> /\ w.thread = "up"
           /\ w.thread # "up" => run[r].status # "Failed",
         run[r].alone /\ w.over # "no" =>
           /\ run[r].pc = "ended"
           /\ w.over \in {"error", "panic"} <=> run[r].status = "Failed"
  PROVE  IInv'
<1> DEFINE x == IF w.over = "no" THEN w ELSE [NewWrapper EXCEPT !.over = w.over]
<1>1. x \in WrapperStates /\ x.over = w.over /\ (w.over = "no" => x = w)
  BY NewOnes DEF WrapperStates, NewWrapper
<1> HIDE DEF x
<1>2. /\ wrapper' \in [Runs -> WrapperStates]
      /\ wrapper'[r] = x /\ \A q \in Runs : q # r => wrapper'[q] = wrapper[q]
  BY <1>1 DEF WrapperTo, IInv, Shape, x
<1>3. UNCHANGED <<disk, graph, active, processor, cursors, totalProcessed, run, manager,
                  reindex, upsets, excused, swapped>>
  BY DEF WrapperTo, modelVars, taskVars, envVars
<1>4. Shape'
  BY <1>2, <1>3 DEF IInv, Shape
<1>5. BatchesSound' /\ ModelsAgree'
  BY <1>3 DEF IInv, BatchesSound, BatchSound, ModelsAgree, AtWork
<1>6. Vectorial'
  BY <1>3 DEF IInv, Vectorial, LiveIsCurrent, OwnModel
<1>7. \A q \in Runs : There(q)' => There(q)
  BY <1>1, <1>2, <1>3 DEF There, AtWork, Followed
<1>8. StillAlone'
  BY <1>3, <1>7 DEF IInv, Verdicts, StillAlone
<1>9. HeardOwn'
  BY <1>1, <1>2, <1>3 DEF IInv, Verdicts, HeardOwn
<1>10. VerdictIsOwn'
  BY <1>1, <1>2, <1>3 DEF IInv, Verdicts, VerdictIsOwn
<1> QED BY <1>4, <1>5, <1>6, <1>8, <1>9, <1>10 DEF IInv, Verdicts

\* Nothing happens to the vectors, nor to what they are compared with.
LEMMA VectorsStay ==
  ASSUME IInv, UNCHANGED <<graph, excused, swapped>>,
         manager.step = "retract" => manager' = manager
  PROVE  Vectorial'
<1>1. LiveIsCurrent'
  BY DEF IInv, Vectorial, LiveIsCurrent, IsLive
<1>2. OwnModel'
  BY DEF IInv, Vectorial, OwnModel, IsLive
<1> QED BY <1>1, <1>2 DEF Vectorial

\* The manager takes a step of its own, and not into or out of a switch.
LEMMA ManagerStepKeeps ==
  ASSUME IInv, UNCHANGED <<active, processor, run, wrapper, swapped>>,
         manager.step # "switch", manager'.step # "switch"
  PROVE  BatchesSound' /\ ModelsAgree' /\ Verdicts'
<1>1. BatchesSound'
  BY DEF IInv, BatchesSound, BatchSound
<1>2. ModelsAgree'
  BY DEF IInv, ModelsAgree, AtWork
<1>3. Verdicts'
  BY DEF IInv, Verdicts, StillAlone, HeardOwn, VerdictIsOwn, There, AtWork, Followed
<1> QED BY <1>1, <1>2, <1>3

\* The files, the runs and what they share are not touched.
LEMMA Stutters == IInv /\ UNCHANGED vars => IInv'
<1> SUFFICES ASSUME IInv, UNCHANGED vars PROVE IInv'
  OBVIOUS
<1> USE DEF vars, modelVars, taskVars, envVars
<1>1. Shape' /\ BatchesSound'
  BY DEF IInv, Shape, BatchesSound, BatchSound
<1>2. ModelsAgree'
  BY DEF IInv, ModelsAgree, AtWork
<1>3. Verdicts'
  BY DEF IInv, Verdicts, StillAlone, HeardOwn, VerdictIsOwn, There, AtWork, Followed
<1>4. Vectorial'
  BY VectorsStay
<1> QED BY <1>1, <1>2, <1>3, <1>4 DEF IInv

(***************************************************************************)
(* The actions.                                                            *)
(***************************************************************************)

\* IInv holds at the start.
LEMMA Initially == Init => IInv
<1> SUFFICES ASSUME Init PROVE IInv
  OBVIOUS
<1>1. Shape
  <2>1. disk \in [Files -> 1 .. Versions] /\ GraphOK(graph)
    <3>1. 1 \in 1 .. Versions
      BY GraphAssumption
    <3> QED BY <3>1, EmptyGraphOK DEF Init
  <2>2. active \in Models /\ processor \in Models
    BY IndexingAssumption DEF Init
  <2>3. cursors \in [1 .. Kinds -> Nodes \cup {0}] /\ totalProcessed \in Nat
    BY DEF Init
  <2>4. /\ run \in [Runs -> RunStates] /\ wrapper \in [Runs -> WrapperStates]
        /\ manager \in ManagerStates /\ swapped \in BOOLEAN
    BY NewOnes DEF Init
  <2> QED BY <2>1, <2>2, <2>3, <2>4 DEF Shape
<1>2. BatchesSound /\ ModelsAgree
  BY NewOnes DEF Init, BatchesSound, ModelsAgree, NewRun, Idle
<1>3. Vectorial
  BY EmptyGraphOK DEF Init, Vectorial, LiveIsCurrent, OwnModel
<1>4. Verdicts
  BY DEF Init, Verdicts, StillAlone, HeardOwn, VerdictIsOwn, There, AtWork, Followed, NewRun,
         NewWrapper
<1> QED BY <1>1, <1>2, <1>3, <1>4 DEF IInv

\* An edit of a file is seen by nobody yet.
LEMMA EditKeeps ==
  ASSUME IInv, NEW f \in Files, Edit(f)
  PROVE  IInv'
<1> USE DEF Edit, modelVars, taskVars
<1>1. Shape'
  <2>1. PICK v \in disk[f] + 1 .. Versions : disk' = [disk EXCEPT ![f] = v]
    OBVIOUS
  <2>2. v \in 1 .. Versions
    BY <2>1, NodePlaces DEF IInv, Shape
  <2> QED BY <2>1, <2>2 DEF IInv, Shape
<1>2. BatchesSound' /\ Verdicts' /\ ModelsAgree'
  BY DEF IInv, BatchesSound, BatchSound, ModelsAgree, Verdicts, StillAlone, HeardOwn,
         VerdictIsOwn, There, AtWork, Followed
<1>3. Vectorial'
  BY VectorsStay
<1> QED BY <1>1, <1>2, <1>3 DEF IInv

\* The starts of runs: by the user, by the interface, by an update.
LEMMA StartsKeep ==
  ASSUME IInv, NEW r \in Runs, Index(r) \/ ReIndex(r) \/ UpdateIndex(r)
  PROVE  IInv'
<1>1. /\ \E pc \in {"parse", "count"} : Spawn(r, pc)
      /\ UNCHANGED <<disk, graph, active, processor, cursors, totalProcessed, wrapper,
                     excused, swapped>>
  BY DEF Index, ReIndex, UpdateIndex, modelVars, taskVars, Spawn
<1>2. /\ manager.step \in {"idle", "update"} /\ manager'.step \in {"idle", "wait"}
      /\ manager' \in ManagerStates
  BY DEF Index, ReIndex, UpdateIndex, Idle, ManagerStates, IInv, Shape
<1>3. run' \in [Runs -> RunStates] /\ BatchesSound' /\ ModelsAgree' /\ Verdicts'
  BY <1>1, <1>2, SpawnKeeps
<1>4. Shape'
  BY <1>1, <1>2, <1>3 DEF IInv, Shape
<1>5. Vectorial'
  BY <1>1, <1>2, VectorsStay
<1> QED BY <1>3, <1>4, <1>5 DEF IInv

\* A scan begins with what it has to parse.
LEMMA StartScanKeeps ==
  ASSUME IInv, NEW then \in {"scan", "update"}, StartScan(then)
  PROVE  IInv'
<1> USE DEF modelVars, taskVars, envVars
<1>1. /\ manager = Idle /\ manager'.step = "parse" /\ manager' \in ManagerStates
      /\ UNCHANGED <<disk, graph, active, processor, cursors, totalProcessed, run, wrapper,
                     excused, swapped>>
  BY DEF StartScan, ManagerStates
<1>2. Shape'
  BY <1>1 DEF IInv, Shape
<1>3. BatchesSound' /\ ModelsAgree' /\ Verdicts'
  BY <1>1, ManagerStepKeeps DEF Idle
<1>4. Vectorial'
  BY <1>1, VectorsStay DEF Idle
<1> QED BY <1>2, <1>3, <1>4 DEF IInv

\* The rows of the changed files are new, and their vectors about to be retracted.
LEMMA ScanParseKeeps ==
  ASSUME IInv, ScanParse
  PROVE  IInv'
<1> USE DEF modelVars, taskVars, envVars
<1>1. /\ manager.step = "parse" /\ manager'.step = "retract" /\ manager'.changed = manager.changed
      /\ manager' \in ManagerStates
      /\ graph' = Transform(graph, manager.changed, disk)
      /\ UNCHANGED <<disk, active, processor, cursors, totalProcessed, run, wrapper, excused,
                     swapped>>
  BY DEF ScanParse, ManagerStates, IInv, Shape, Idle
<1>2. /\ GraphOK(graph') /\ graph'.vec = graph.vec
      /\ \A n \in Nodes : FileOf[n] \notin manager.changed => graph'.row[n] = graph.row[n]
  BY <1>1, TransformOK DEF IInv, Shape
<1>3. Shape'
  BY <1>1, <1>2 DEF IInv, Shape
<1>4. BatchesSound' /\ ModelsAgree' /\ Verdicts'
  BY <1>1, ManagerStepKeeps
<1>5. LiveIsCurrent'
  BY <1>1, <1>2 DEF IInv, Vectorial, LiveIsCurrent, IsLive
<1>6. OwnModel'
  BY <1>1, <1>2 DEF IInv, Vectorial, OwnModel, IsLive
<1> QED BY <1>3, <1>4, <1>5, <1>6 DEF IInv, Vectorial

\* What the retraction leaves live of the changed files is of other sets, and excused.
LEMMA ScanRetractKeeps ==
  ASSUME IInv, ScanRetract
  PROVE  IInv'
<1> USE DEF modelVars, taskVars, envVars
<1>1. /\ manager.step = "retract" /\ manager'.step \in {"idle", "update"}
      /\ manager' \in ManagerStates
      /\ graph' = RetractFiles(graph, active, manager.changed)
      /\ UNCHANGED <<disk, active, processor, cursors, totalProcessed, run, wrapper, swapped>>
  BY DEF ScanRetract, ManagerStates, Idle
<1>2. excused' = excused \cup {v \in (Models \ {active}) \X Nodes :
                                 IsLive(graph, v[1], v[2]) /\ FileOf[v[2]] \in manager.changed}
  BY DEF ScanRetract
<1>3. /\ GraphOK(graph') /\ graph'.row = graph.row
      /\ \A s \in Models, n \in Nodes :
           IsLive(graph', s, n) => /\ IsLive(graph, s, n) /\ graph'.vec[s][n] = graph.vec[s][n]
                                   /\ s # active \/ FileOf[n] \notin manager.changed
  BY <1>1, RetractFilesOK DEF IInv, Shape
<1>4. Shape'
  BY <1>1, <1>3 DEF IInv, Shape
<1>5. BatchesSound' /\ ModelsAgree' /\ Verdicts'
  BY <1>1, ManagerStepKeeps
<1>6. LiveIsCurrent'
  <2> SUFFICES ASSUME NEW s \in Models, NEW n \in Nodes, IsLive(graph', s, n),
                      graph'.vec[s][n].text # HashOf[graph'.row[n]]
               PROVE  <<s, n>> \in excused'
    BY DEF LiveIsCurrent
  <2>1. /\ IsLive(graph, s, n) /\ graph.vec[s][n].text # HashOf[graph.row[n]]
        /\ s # active \/ FileOf[n] \notin manager.changed
    BY <1>3
  <2>2. <<s, n>> \in excused \/ FileOf[n] \in manager.changed
    BY <2>1 DEF IInv, Vectorial, LiveIsCurrent
  <2>3. CASE FileOf[n] \in manager.changed
    BY <2>1, <2>3, <1>2
  <2> QED BY <2>2, <2>3, <1>2
<1>7. OwnModel'
  BY <1>1, <1>3 DEF IInv, Vectorial, OwnModel
<1> QED BY <1>4, <1>5, <1>6, <1>7 DEF IInv, Vectorial

\* The update is over when its wrapper is.
LEMMA UpdateReturnsKeeps ==
  ASSUME IInv, UpdateReturns
  PROVE  IInv'
<1> USE DEF modelVars, taskVars, envVars
<1>1. /\ manager.step = "wait" /\ manager' = Idle /\ manager' \in ManagerStates
      /\ UNCHANGED <<disk, graph, active, processor, cursors, totalProcessed, run, wrapper,
                     excused, swapped>>
  BY DEF UpdateReturns, ManagerStates
<1>2. Shape'
  BY <1>1 DEF IInv, Shape
<1>3. BatchesSound' /\ ModelsAgree' /\ Verdicts'
  BY <1>1, ManagerStepKeeps DEF Idle
<1>4. Vectorial'
  BY <1>1, VectorsStay
<1> QED BY <1>2, <1>3, <1>4 DEF IInv

\* A switch that meets a run is noted; otherwise there is none.
LEMMA SwitchSetKeeps ==
  ASSUME IInv, NEW m \in Models, SwitchSet(m)
  PROVE  IInv'
<1> USE DEF taskVars
<1>1. /\ manager = Idle /\ manager' = [step |-> "switch", to |-> m] /\ active' = m
      /\ UNCHANGED <<disk, graph, processor, cursors, totalProcessed, wrapper, excused>>
  BY DEF SwitchSet
<1>2. /\ swapped' = (swapped \/ \E r \in Runs : AtWork(r))
      /\ run' = [r \in Runs |-> [run[r] EXCEPT !.switched = @ \/ AtWork(r)]]
  BY DEF SwitchSet
<1>3. run' \in [Runs -> RunStates]
  <2>1. \A x \in RunStates, b \in BOOLEAN : [x EXCEPT !.switched = b] \in RunStates
    BY DEF RunStates
  <2>2. \A r \in Runs : (run[r].switched \/ AtWork(r)) \in BOOLEAN
    OBVIOUS
  <2>3. run' = [r \in Runs |-> [run[r] EXCEPT !.switched = run[r].switched \/ AtWork(r)]]
    BY <1>2 DEF IInv, Shape, RunStates
  <2>4. \A r \in Runs : run[r] \in RunStates
    BY DEF IInv, Shape
  <2> QED BY <2>1, <2>2, <2>3, <2>4
<1>4. \A r \in Runs :
        /\ run'[r].pc = run[r].pc /\ run'[r].alone = run[r].alone
        /\ run'[r].status = run[r].status
        /\ run'[r].batch = run[r].batch /\ run'[r].fetched = run[r].fetched
  BY <1>2 DEF IInv, Shape, RunStates
<1>5. manager' \in ManagerStates
  BY <1>1 DEF ManagerStates
<1>6. swapped' \in BOOLEAN
  BY <1>2
<1>7. Shape'
  BY <1>1, <1>3, <1>5, <1>6 DEF IInv, Shape
<1>8. BatchesSound'
  BY <1>4 DEF IInv, BatchesSound, BatchSound
<1>9. ModelsAgree'
  BY <1>1, <1>2, <1>4 DEF ModelsAgree, AtWork
<1>10. Verdicts'
  BY <1>1, <1>4 DEF IInv, Verdicts, StillAlone, HeardOwn, VerdictIsOwn, There, AtWork, Followed
<1>11. LiveIsCurrent'
  BY <1>1 DEF IInv, Vectorial, LiveIsCurrent, Idle, IsLive
<1>12. OwnModel'
  BY <1>1, <1>2 DEF IInv, Vectorial, OwnModel, IsLive
<1> QED BY <1>7, <1>8, <1>9, <1>10, <1>11, <1>12 DEF IInv, Vectorial

\* The embedder follows the set.
LEMMA SwitchProcessorKeeps ==
  ASSUME IInv, SwitchProcessor
  PROVE  IInv'
<1> USE DEF taskVars, envVars
<1>1. /\ manager.step = "switch" /\ processor' = manager.to /\ manager' = Idle
      /\ UNCHANGED <<disk, graph, active, cursors, totalProcessed, run, wrapper, excused, swapped>>
  BY DEF SwitchProcessor
<1>2. manager.to \in Models
  BY <1>1 DEF IInv, Shape, ManagerStates, Idle
<1>3. Shape'
  BY <1>1, <1>2, NewOnes DEF IInv, Shape
<1>4. BatchesSound' /\ Verdicts'
  BY <1>1 DEF IInv, BatchesSound, BatchSound, Verdicts, StillAlone, HeardOwn, VerdictIsOwn,
              There, AtWork, Followed
<1>5. ModelsAgree'
  BY <1>1 DEF IInv, ModelsAgree, AtWork, Idle
<1>6. Vectorial'
  BY <1>1, VectorsStay
<1> QED BY <1>3, <1>4, <1>5, <1>6 DEF IInv

\* The state of a run when it is at some point, for the lemmas below.
LEMMA OfRun ==
  ASSUME IInv, NEW r \in Runs
  PROVE  /\ run[r] \in RunStates /\ BatchSound(run[r])
         /\ DOMAIN run[r].batch \subseteq Nodes
         /\ \A n \in DOMAIN run[r].batch :
              run[r].batch[n] \in Fetched \cup Found /\ ItemSound(run[r].pc, n, run[r].batch[n])
         /\ run[r].batch \in Batches
<1>1. run[r] \in RunStates /\ BatchSound(run[r])
  BY DEF IInv, Shape, BatchesSound
<1>2. run[r].batch \in Batches
  BY <1>1 DEF RunStates
<1>3. PICK S \in SUBSET Nodes : run[r].batch \in [S -> Fetched \cup Found]
  BY <1>2 DEF Batches
<1>4. \A n \in DOMAIN run[r].batch : ItemSound(run[r].pc, n, run[r].batch[n])
  BY <1>1 DEF BatchSound
<1> QED BY <1>1, <1>2, <1>3, <1>4

\* The vectors whose rows the parse has changed are excused.
LEMMA ParseKeeps ==
  ASSUME IInv, NEW r \in Runs, Parse(r)
  PROVE  IInv'
<1> USE DEF modelVars, taskVars
<1> DEFINE x == [run[r] EXCEPT !.pc = "count"]
<1>1. /\ run[r].pc = "parse" /\ Step(r, x) /\ graph' = Transform(graph, Files, disk)
      /\ UNCHANGED <<disk, active, processor, cursors, totalProcessed, wrapper, manager, swapped>>
  BY DEF Parse
<1>2. excused' = excused \cup
        {v \in Models \X Nodes :
           IsLive(graph, v[1], v[2]) /\ HashOf[graph'.row[v[2]]] # HashOf[graph.row[v[2]]]}
  BY DEF Parse
<1>3. x \in RunStates /\ BatchSound(x) /\ x.alone = run[r].alone /\ x.status = run[r].status
  BY <1>1, OfRun, SameItems DEF RunStates, BatchSound
<1>4. run' \in [Runs -> RunStates] /\ BatchesSound' /\ ModelsAgree' /\ Verdicts'
  BY <1>1, <1>3, OwnStepKeeps DEF AtWork, RunStates
<1>5. GraphOK(graph') /\ graph'.vec = graph.vec
  BY <1>1, TransformOK DEF IInv, Shape
<1>6. Shape'
  BY <1>1, <1>4, <1>5 DEF IInv, Shape
<1>7. LiveIsCurrent'
  <2> SUFFICES ASSUME NEW s \in Models, NEW n \in Nodes, IsLive(graph, s, n),
                      graph.vec[s][n].text # HashOf[graph'.row[n]]
               PROVE  \/ <<s, n>> \in excused'
                      \/ manager.step = "retract" /\ FileOf[n] \in manager.changed
    BY <1>1, <1>5 DEF LiveIsCurrent, IsLive
  <2>1. CASE HashOf[graph'.row[n]] = HashOf[graph.row[n]]
    BY <2>1, <1>2 DEF IInv, Vectorial, LiveIsCurrent
  <2>2. CASE HashOf[graph'.row[n]] # HashOf[graph.row[n]]
    BY <2>2, <1>2
  <2> QED BY <2>1, <2>2
<1>8. OwnModel'
  BY <1>1, <1>5 DEF IInv, Vectorial, OwnModel, IsLive
<1> QED BY <1>4, <1>6, <1>7, <1>8 DEF IInv, Vectorial

\* A step of a run that leaves the graph alone.
LEMMA PlainStepKeeps ==
  ASSUME IInv, NEW r \in Runs, NEW x \in RunStates, Step(r, x), AtWork(r),
         x.pc \notin {"free", "parse", "ended"},
         x.alone = run[r].alone, x.status = run[r].status, BatchSound(x),
         x.pc = "embed" /\ ~swapped => x.by = active,
         cursors' \in [1 .. Kinds -> Nodes \cup {0}], totalProcessed' \in Nat,
         UNCHANGED <<disk, graph, active, processor, wrapper, manager, excused, swapped>>
  PROVE  IInv'
<1>1. run' \in [Runs -> RunStates] /\ BatchesSound' /\ ModelsAgree' /\ Verdicts'
  BY OwnStepKeeps
<1>2. Shape'
  BY <1>1 DEF IInv, Shape
<1>3. Vectorial'
  BY VectorsStay
<1> QED BY <1>1, <1>2, <1>3 DEF IInv

\* A run counts what it has to embed.
LEMMA CountKeeps ==
  ASSUME IInv, NEW r \in Runs, Count(r)
  PROVE  IInv'
<1> USE DEF modelVars, taskVars, envVars
<1> DEFINE counted == CountUnembedded(graph, active)
           behind == {n \in counted : n <= cursors[KindOf[n]]}
           x == [run[r] EXCEPT !.pc = "fetch", !.counted = counted, !.set = active, !.behind = behind]
<1>1. /\ run[r].pc = "count" /\ Step(r, x)
      /\ UNCHANGED <<disk, graph, active, processor, cursors, totalProcessed, wrapper, manager,
                     excused, swapped>>
  BY DEF Count
<1>2. counted \in SUBSET Nodes /\ behind \in SUBSET Nodes
  BY DEF CountUnembedded
<1>3. active \in Models /\ cursors \in [1 .. Kinds -> Nodes \cup {0}] /\ totalProcessed \in Nat
  BY DEF IInv, Shape
<1> HIDE DEF counted, behind
<1>4. /\ x \in RunStates /\ BatchSound(x) /\ x.pc = "fetch"
      /\ x.alone = run[r].alone /\ x.status = run[r].status
  BY <1>1, OfRun, SameItems, <1>2, <1>3 DEF RunStates, BatchSound
<1> HIDE DEF x
<1> QED BY <1>1, <1>3, <1>4, PlainStepKeeps DEF AtWork

\* A run reads where a node type was left.
LEMMA ReadCursorKeeps ==
  ASSUME IInv, NEW r \in Runs, ReadCursor(r)
  PROVE  IInv'
<1> USE DEF modelVars, taskVars, envVars
<1> DEFINE x == [run[r] EXCEPT !.pc = "query", !.cursor = cursors[run[r].kind]]
<1>1. /\ run[r].pc = "fetch" /\ run[r].kind <= Kinds /\ Step(r, x)
      /\ UNCHANGED <<disk, graph, active, processor, cursors, totalProcessed, wrapper, manager,
                     excused, swapped>>
  BY DEF ReadCursor
<1>2. cursors \in [1 .. Kinds -> Nodes \cup {0}] /\ totalProcessed \in Nat
  BY DEF IInv, Shape
<1>3. cursors[run[r].kind] \in Nodes \cup {0}
  BY <1>1, <1>2, OfRun, GraphAssumption DEF RunStates
<1>4. /\ x \in RunStates /\ BatchSound(x) /\ x.pc = "query"
      /\ x.alone = run[r].alone /\ x.status = run[r].status
  BY <1>1, OfRun, SameItems, <1>3 DEF RunStates, BatchSound
<1> HIDE DEF x
<1> QED BY <1>1, <1>2, <1>4, PlainStepKeeps DEF AtWork

\* The nodes of a type join the batch.
LEMMA FetchKindKeeps ==
  ASSUME IInv, NEW r \in Runs, FetchKind(r)
  PROVE  IInv'
<1> USE DEF modelVars, envVars
<1> DEFINE nodes == RelWithCursor(graph, active, run[r].kind, FetchSize(r), run[r].cursor)
           old == run[r].batch
           batch == [n \in DOMAIN old \cup nodes |->
                       IF n \in nodes THEN EmbedData(graph, n) ELSE old[n]]
           crowded == run[r].crowded \/ nodes \ run[r].counted # {}
           fetched == run[r].fetched + Cardinality(nodes)
           x == [run[r] EXCEPT !.pc = "fetch", !.kind = run[r].kind + 1, !.cursor = 0,
                   !.fetched = fetched, !.batch = batch, !.crowded = crowded]
<1>1. run[r].pc = "query"
  BY DEF FetchKind
<1>2. Step(r, x)
  BY OfRun DEF FetchKind, RunStates, Step
<1>3. UNCHANGED <<disk, graph, active, processor, totalProcessed, wrapper, manager, excused,
                  swapped>>
  BY DEF FetchKind
<1>4. cursors' = IF nodes = {} THEN cursors ELSE [cursors EXCEPT ![run[r].kind] = Max(nodes)]
  BY DEF FetchKind
<1>5. FetchSize(r) \in Nat /\ run[r].fetched + FetchSize(r) <= BatchSize
  BY OfRun, FetchSizeFits DEF IInv
<1>6. nodes \subseteq Nodes /\ IsFiniteSet(nodes) /\ Cardinality(nodes) <= FetchSize(r)
  BY <1>5, RelWithCursorBounded
<1>7. Cardinality(nodes) \in Nat
  BY <1>6, FS_CardinalityType
<1>8. \A n \in nodes : EmbedData(graph, n) \in Fetched /\ FetchedSound(n, EmbedData(graph, n))
  BY <1>6, EmbedDataSound DEF IInv, Shape, Fetched
<1> HIDE DEF nodes
<1>9. batch \in Batches
  <2>1. batch \in [DOMAIN old \cup nodes -> Fetched \cup Found]
    BY <1>8, OfRun
  <2>2. DOMAIN old \cup nodes \in SUBSET Nodes
    BY <1>6, OfRun
  <2> QED BY <2>1, <2>2 DEF Batches
<1>10. /\ IsFiniteSet(DOMAIN batch) /\ Cardinality(DOMAIN batch) <= fetched
       /\ fetched \in Nat /\ fetched <= BatchSize
  <2>1. /\ IsFiniteSet(DOMAIN old) /\ Cardinality(DOMAIN old) <= run[r].fetched
        /\ run[r].fetched \in Nat /\ Cardinality(DOMAIN old) \in Nat
    BY OfRun, FS_CardinalityType DEF BatchSound, RunStates
  <2>2. /\ IsFiniteSet(DOMAIN old \cup nodes)
        /\ Cardinality(DOMAIN old \cup nodes) =
             Cardinality(DOMAIN old) + Cardinality(nodes) - Cardinality(DOMAIN old \cap nodes)
    BY <2>1, <1>6, FS_Union
  <2>3. Cardinality(DOMAIN old \cap nodes) \in Nat
    BY <2>1, FS_Intersection, FS_CardinalityType
  <2>4. DOMAIN batch = DOMAIN old \cup nodes
    OBVIOUS
  <2>5. BatchSize \in Nat
    BY IndexingAssumption
  <2> HIDE DEF batch, old
  <2> QED BY <2>1, <2>2, <2>3, <2>4, <2>5, <1>5, <1>6, <1>7
<1>11. \A n \in DOMAIN batch : ItemSound("fetch", n, batch[n])
  BY <1>1, <1>8, OfRun DEF ItemSound
<1>12. crowded \in BOOLEAN
  BY OfRun DEF RunStates
<1> HIDE DEF batch, fetched, crowded, old
<1>13. /\ x \in RunStates /\ x.pc = "fetch"
       /\ x.alone = run[r].alone /\ x.status = run[r].status
       /\ x.batch = batch /\ x.fetched = fetched
  <2>1. run[r] \in RunStates
    BY OfRun
  <2>2. run[r].kind + 1 \in Nat \ {0}
    BY <2>1 DEF RunStates
  <2> QED BY <2>1, <2>2, <1>9, <1>10, <1>12 DEF RunStates
<1> HIDE DEF x
<1>14. BatchSound(x)
  BY <1>10, <1>11, <1>13 DEF BatchSound
<1>15. cursors' \in [1 .. Kinds -> Nodes \cup {0}] /\ totalProcessed' \in Nat
  <2>1. cursors \in [1 .. Kinds -> Nodes \cup {0}] /\ totalProcessed \in Nat
    BY DEF IInv, Shape
  <2>2. nodes # {} => Max(nodes) \in nodes
    <3>1. nodes \in SUBSET Nat
      BY <1>6, NodePlaces
    <3> QED BY <3>1, <1>6, LargestMember
  <2> QED BY <2>1, <2>2, <1>3, <1>4, <1>6
<1> QED BY <1>1, <1>2, <1>3, <1>13, <1>14, <1>15, PlainStepKeeps DEF AtWork

\* A batch that is complete is tallied.
LEMMA EndBatchKeeps ==
  ASSUME IInv, NEW r \in Runs, EndBatch(r)
  PROVE  IInv'
<1> USE DEF modelVars, envVars
<1> DEFINE to == IF run[r].fetched = 0 THEN "finish" ELSE "snippets"
           x == [run[r] EXCEPT !.pc = to]
<1>1. /\ run[r].pc = "fetch" /\ Step(r, x) /\ totalProcessed' = totalProcessed + run[r].fetched
      /\ UNCHANGED <<disk, graph, active, processor, cursors, wrapper, manager, excused, swapped>>
  BY DEF EndBatch
<1>2. /\ x \in RunStates /\ BatchSound(x) /\ x.pc \in {"finish", "snippets"}
      /\ x.alone = run[r].alone /\ x.status = run[r].status
  BY <1>1, OfRun, SameItems DEF RunStates, BatchSound
<1>3. cursors' \in [1 .. Kinds -> Nodes \cup {0}] /\ totalProcessed' \in Nat
  BY <1>1, OfRun DEF IInv, Shape, RunStates
<1> HIDE DEF x
<1> QED BY <1>1, <1>2, <1>3, PlainStepKeeps DEF AtWork

\* The embedder is the active set's: the manager is not at a switch while a run is at work,
\* unless that was noted.
LEMMA ReadSnippetsKeeps ==
  ASSUME IInv, NEW r \in Runs, ReadSnippets(r)
  PROVE  IInv'
<1> USE DEF modelVars, taskVars, envVars
<1> DEFINE old == run[r].batch
<1>0. PICK read \in Readings(old, disk) :
        LET valid == {n \in DOMAIN old : read[n].ok}
        IN Step(r, [run[r] EXCEPT !.pc = "embed", !.by = processor,
                      !.batch = [n \in valid |-> [hash |-> old[n].hash, text |-> read[n].text,
                                                  own |-> disk[FileOf[n]] = old[n].span]],
                      !.skipped = @ \cup (DOMAIN old \ valid)])
  BY DEF ReadSnippets
<1> DEFINE valid == {n \in DOMAIN old : read[n].ok}
           batch == [n \in valid |-> [hash |-> old[n].hash, text |-> read[n].text,
                                      own |-> disk[FileOf[n]] = old[n].span]]
           skipped == run[r].skipped \cup (DOMAIN old \ valid)
           x == [run[r] EXCEPT !.pc = "embed", !.by = processor, !.batch = batch,
                   !.skipped = skipped]
<1>1. /\ run[r].pc = "snippets"
      /\ UNCHANGED <<disk, graph, active, processor, cursors, totalProcessed, wrapper, manager,
                     excused, swapped>>
  BY DEF ReadSnippets
<1>2. Step(r, x)
  BY <1>0, OfRun DEF RunStates, Step
<1>3. valid \subseteq DOMAIN old /\ DOMAIN batch = valid
  OBVIOUS
<1>7. ASSUME NEW n \in valid
      PROVE  FoundSound(n, batch[n])
  <2>1. /\ n \in Nodes /\ old[n] \in Fetched /\ FetchedSound(n, old[n])
    BY <1>1, OfRun DEF ItemSound
  <2>2. /\ old[n].node = n /\ old[n].hash \in VersionsOrNone /\ old[n].span \in VersionsOrNone
        /\ old[n].span \in PresentIn[n] \cup {0}
    BY <2>1 DEF Fetched, FetchedSound
  <2>3. disk[FileOf[n]] \in 1 .. Versions /\ disk[FileOf[n]] \in VersionsOrNone
    BY <2>1, NodePlaces DEF IInv, Shape, VersionsOrNone
  <2>4. read[n] \in Snippets(old[n], disk) /\ read[n].ok
    BY DEF Readings
  <2>5. /\ HashOf[disk[FileOf[n]]] = old[n].hash /\ read[n].text \in VersionsOrNone
        /\ disk[FileOf[n]] = old[n].span => read[n].text = old[n].hash
    BY <2>2, <2>3, <2>4, SnippetsSound
  <2>6. disk[FileOf[n]] = old[n].span => HasItem(n, old[n].hash)
    BY <2>2, <2>3, <2>5 DEF HasItem
  <2> DEFINE own == disk[FileOf[n]] = old[n].span
  <2>7. batch[n] = [hash |-> old[n].hash, text |-> read[n].text, own |-> own]
    OBVIOUS
  <2>8. own \in BOOLEAN /\ (own => read[n].text = old[n].hash /\ HasItem(n, old[n].hash))
    BY <2>5, <2>6
  <2> HIDE DEF batch, own
  <2>9. /\ batch[n] \in Found /\ batch[n].own = own
        /\ batch[n].text = read[n].text /\ batch[n].hash = old[n].hash
    BY <2>2, <2>5, <2>7, <2>8 DEF Found
  <2> QED BY <2>8, <2>9 DEF FoundSound
<1>4. batch \in Batches
  <2>1. batch \in [valid -> Fetched \cup Found]
    BY <1>7 DEF FoundSound
  <2>2. valid \in SUBSET Nodes
    BY OfRun
  <2> QED BY <2>1, <2>2 DEF Batches
<1>5. skipped \in SUBSET Nodes
  BY OfRun DEF RunStates
<1>6. /\ IsFiniteSet(valid) /\ Cardinality(valid) <= run[r].fetched
      /\ run[r].fetched <= BatchSize
  <2>1. /\ IsFiniteSet(DOMAIN old) /\ Cardinality(DOMAIN old) <= run[r].fetched
        /\ run[r].fetched \in Nat /\ run[r].fetched <= BatchSize
    BY OfRun DEF BatchSound, RunStates
  <2>2. IsFiniteSet(valid) /\ Cardinality(valid) <= Cardinality(DOMAIN old)
    BY <2>1, FS_Subset
  <2>3. Cardinality(valid) \in Nat /\ Cardinality(DOMAIN old) \in Nat
    BY <2>1, <2>2, FS_CardinalityType
  <2> QED BY <2>1, <2>2, <2>3
<1>8. processor \in Models /\ cursors \in [1 .. Kinds -> Nodes \cup {0}] /\ totalProcessed \in Nat
  BY DEF IInv, Shape
<1> HIDE DEF batch, skipped, valid, old
<1>9. /\ x \in RunStates /\ x.pc = "embed" /\ x.by = processor
      /\ x.alone = run[r].alone /\ x.status = run[r].status
      /\ x.batch = batch /\ x.fetched = run[r].fetched
  BY OfRun, <1>4, <1>5, <1>8 DEF RunStates
<1> HIDE DEF x
<1>10. BatchSound(x)
  BY <1>3, <1>6, <1>7, <1>9 DEF BatchSound, ItemSound
<1>11. ~swapped => processor = active
  BY <1>1 DEF IInv, ModelsAgree, AtWork
<1> QED BY <1>1, <1>2, <1>8, <1>9, <1>10, <1>11, PlainStepKeeps DEF AtWork

\* A vector that is written is of the text of its row, or is excused at once: the batch
\* may be of a version that was left meanwhile.
LEMMA WriteVectorsKeeps ==
  ASSUME IInv, NEW r \in Runs, WriteVectors(r)
  PROVE  IInv'
<1> USE DEF modelVars, taskVars
<1> DEFINE batch == run[r].batch
           by == run[r].by
           texts == [n \in DOMAIN batch |-> batch[n].text]
           recent == run[r].recent + run[r].fetched
           to == IF recent >= NumNotProc(r) THEN "finish" ELSE "fetch"
           x == [run[r] EXCEPT !.pc = to, !.recent = recent, !.kind = 1, !.fetched = 0,
                   !.batch = NoBatch, !.by = FirstModel]
           late == {m \in DOMAIN batch :
                      HashOf[graph.parsed[FileOf[m]]] # batch[m].hash \/ ~batch[m].own}
<1>1. /\ run[r].pc = "embed" /\ Step(r, x)
      /\ graph' = PutVectors(graph, active, texts, by)
      /\ excused' = excused \cup {<<active, n>> : n \in late}
      /\ UNCHANGED <<disk, active, processor, cursors, totalProcessed, wrapper, manager, swapped>>
  BY DEF WriteVectors
<1>2. /\ by \in Models /\ active \in Models /\ recent \in Nat /\ to \in {"finish", "fetch"}
      /\ GraphOK(graph)
  BY OfRun DEF RunStates, IInv, Shape
<1>3. /\ DOMAIN texts = DOMAIN batch /\ DOMAIN batch \subseteq Nodes
      /\ \A n \in DOMAIN batch : /\ texts[n] = batch[n].text /\ texts[n] \in VersionsOrNone
                                 /\ FoundSound(n, batch[n])
  <2>1. \A n \in DOMAIN batch : FoundSound(n, batch[n])
    BY <1>1, OfRun DEF ItemSound
  <2> QED BY <2>1, OfRun DEF FoundSound, Found
<1>4. BatchSize \in Nat /\ FirstModel \in Models
  BY IndexingAssumption
<1>5. /\ x \in RunStates /\ x.pc \in {"finish", "fetch"} /\ x.alone = run[r].alone
      /\ x.status = run[r].status /\ x.batch = NoBatch /\ x.fetched = 0
  <2> HIDE DEF to, recent
  <2>1. run[r] \in RunStates /\ NoBatch \in Batches
    BY OfRun, NewOnes
  <2>2. x \in RunStates
    <3>1. 0 \in Nat /\ 1 \in Nat \ {0}
      OBVIOUS
    <3>2. [run[r] EXCEPT !.pc = to, !.recent = recent, !.kind = 1] \in RunStates
      BY <1>2, <2>1, <3>1 DEF RunStates
    <3> DEFINE y == [run[r] EXCEPT !.pc = to, !.recent = recent, !.kind = 1]
    <3>3. [y EXCEPT !.fetched = 0, !.batch = NoBatch, !.by = FirstModel] \in RunStates
      <4> HIDE DEF y
      <4> QED BY <1>4, <2>1, <3>1, <3>2 DEF RunStates, y
    <3> QED BY <3>3
  <2>3. /\ x.pc = to /\ x.alone = run[r].alone /\ x.status = run[r].status
        /\ x.batch = NoBatch /\ x.fetched = 0
    BY <2>1 DEF RunStates
  <2> QED BY <1>2, <2>2, <2>3
<1>6. BatchSound(x)
  BY <1>4, <1>5, NewOnes, FS_EmptySet DEF BatchSound
<1> HIDE DEF x, to, recent
<1>7. run' \in [Runs -> RunStates] /\ BatchesSound' /\ ModelsAgree' /\ Verdicts'
  BY <1>1, <1>5, <1>6, OwnStepKeeps DEF AtWork
<1> HIDE DEF texts, batch, by, late
<1>8. /\ GraphOK(graph') /\ graph'.row = graph.row /\ graph'.parsed = graph.parsed
      /\ \A s \in Models, n \in Nodes :
           graph'.vec[s][n] = IF s = active /\ n \in DOMAIN texts THEN LiveVector(texts[n], by)
                              ELSE graph.vec[s][n]
  BY <1>1, <1>2, <1>3, PutVectorsOK
<1>9. Shape'
  BY <1>1, <1>7, <1>8 DEF IInv, Shape
<1>10. LiveIsCurrent'
  <2> SUFFICES ASSUME NEW s \in Models, NEW n \in Nodes, IsLive(graph', s, n),
                      graph'.vec[s][n].text # HashOf[graph.row[n]]
               PROVE  \/ <<s, n>> \in excused'
                      \/ manager.step = "retract" /\ FileOf[n] \in manager.changed
    BY <1>1, <1>8 DEF LiveIsCurrent
  <2>1. CASE s = active /\ n \in DOMAIN batch
    <3>1. batch[n].text # HashOf[graph.row[n]] /\ FoundSound(n, batch[n])
      BY <2>1, <1>2, <1>3, <1>8, VectorsAreRows
    <3> DEFINE parsed == graph.parsed[FileOf[n]]
    <3>2. /\ parsed \in VersionsOrNone
          /\ graph.row[n] = parsed \/ parsed \notin PresentIn[n]
      BY <1>2, NodePlaces DEF GraphOK, GraphShape, RowsSound
    <3> HIDE DEF parsed
    <3>3. ASSUME HashOf[parsed] = batch[n].hash, batch[n].own
          PROVE  FALSE
      <4>1. batch[n].text = HashOf[parsed] /\ HasItem(n, HashOf[parsed])
        BY <3>1, <3>3 DEF FoundSound
      <4>2. parsed # 0
        <5>1. PICK v \in PresentIn[n] : HashOf[v] = HashOf[parsed]
          BY <4>1 DEF HasItem
        <5>2. v \in VersionsOrNone /\ v # 0
          BY NodePlaces DEF VersionsOrNone
        <5> QED BY <5>1, <5>2, <3>2, HashFacts
      <4>3. parsed \in PresentIn[n]
        BY <3>2, <4>1, <4>2, HashFacts
      <4> QED BY <3>1, <3>2, <4>1, <4>3
    <3>4. n \in late
      BY <2>1, <3>3 DEF late, parsed
    <3> QED BY <2>1, <3>4, <1>1
  <2>2. CASE ~(s = active /\ n \in DOMAIN batch)
    <3>1. graph'.vec[s][n] = graph.vec[s][n]
      BY <2>2, <1>3, <1>8
    <3> QED BY <3>1, <1>1 DEF IInv, Vectorial, LiveIsCurrent, IsLive
  <2> QED BY <2>1, <2>2
<1>11. OwnModel'
  <2> SUFFICES ASSUME ~swapped, NEW s \in Models, NEW n \in Nodes, IsLive(graph', s, n)
               PROVE  graph'.vec[s][n].by = {s}
    BY <1>1 DEF OwnModel
  <2>1. by = active
    BY <1>1 DEF IInv, ModelsAgree, by
  <2>2. CASE s = active /\ n \in DOMAIN texts
    BY <2>1, <2>2, <1>2, <1>3, <1>8, VectorsAreRows
  <2>3. CASE ~(s = active /\ n \in DOMAIN texts)
    BY <2>3, <1>8 DEF IInv, Vectorial, OwnModel, IsLive
  <2> QED BY <2>2, <2>3
<1> QED BY <1>7, <1>9, <1>10, <1>11 DEF IInv, Vectorial

\* The ends of a run.
LEMMA EndedKeeps ==
  ASSUME IInv, NEW r \in Runs, NEW status \in Statuses \ {"Running"}, Over(r, status),
         Broadcast(status) \/ wrapper' = wrapper, AtWork(r), run[r].pc # "parse",
         cursors' \in [1 .. Kinds -> Nodes \cup {0}],
         UNCHANGED <<disk, graph, active, processor, totalProcessed, manager, excused, swapped>>
  PROVE  IInv'
<1>1. /\ run' \in [Runs -> RunStates] /\ wrapper' \in [Runs -> WrapperStates]
      /\ BatchesSound' /\ ModelsAgree' /\ Verdicts'
  BY EndKeeps
<1>2. Shape'
  BY <1>1 DEF IInv, Shape
<1>3. Vectorial'
  BY VectorsStay
<1> QED BY <1>1, <1>2, <1>3 DEF IInv

\* A run whose batch fails ends.
LEMMA BatchFailsKeeps ==
  ASSUME IInv, NEW r \in Runs, BatchFails(r)
  PROVE  IInv'
<1> USE DEF modelVars, taskVars
<1>1. /\ run[r].pc = "embed" /\ End(r, "Failed")
      /\ UNCHANGED <<disk, graph, active, processor, cursors, totalProcessed, manager, excused,
                     swapped>>
  BY DEF BatchFails
<1>2. cursors' \in [1 .. Kinds -> Nodes \cup {0}]
  BY <1>1 DEF IInv, Shape
<1> QED BY <1>1, <1>2, EndedKeeps DEF AtWork, Statuses, End

\* A run ends with an error of the database, or of the seeding of the keyword index.
LEMMA ErrorsKeep ==
  ASSUME IInv, NEW r \in Runs, QueryFails(r) \/ SeedFails(r)
  PROVE  IInv'
<1> USE DEF modelVars, taskVars
<1>1. /\ run[r].pc \in {"count", "query", "complete"} /\ Over(r, "Failed")
      /\ Broadcast("Failed") \/ wrapper' = wrapper
      /\ UNCHANGED <<disk, graph, active, processor, cursors, totalProcessed, manager, excused,
                     swapped>>
  BY DEF QueryFails, SeedFails, End
<1>2. cursors' \in [1 .. Kinds -> Nodes \cup {0}]
  BY <1>1 DEF IInv, Shape
<1> QED BY <1>1, <1>2, EndedKeeps DEF AtWork, Statuses

\* A run that has no more to do completes or gives up.
LEMMA FinishKeeps ==
  ASSUME IInv, NEW r \in Runs, Finish(r)
  PROVE  IInv'
<1> USE DEF modelVars, taskVars, envVars
<1>1. /\ run[r].pc = "finish"
      /\ UNCHANGED <<disk, graph, active, processor, cursors, totalProcessed, manager, excused,
                     swapped>>
  BY DEF Finish
<1>2. /\ cursors' \in [1 .. Kinds -> Nodes \cup {0}] /\ totalProcessed' \in Nat
  BY <1>1 DEF IInv, Shape
<1> DEFINE x == [run[r] EXCEPT !.pc = "complete"]
<1>3. CASE Step(r, x) /\ UNCHANGED wrapper
  <2>1. /\ x \in RunStates /\ BatchSound(x) /\ x.pc = "complete"
        /\ x.alone = run[r].alone /\ x.status = run[r].status
    BY <1>1, OfRun, SameItems DEF RunStates, BatchSound
  <2> HIDE DEF x
  <2> QED BY <1>1, <1>2, <1>3, <2>1, PlainStepKeeps DEF AtWork
<1>4. CASE End(r, "Cancelled")
  BY <1>1, <1>2, <1>4, EndedKeeps DEF AtWork, Statuses, End
<1> QED BY <1>3, <1>4 DEF Finish

\* A run that completes resets the cursors.
LEMMA CompleteKeeps ==
  ASSUME IInv, NEW r \in Runs, Complete(r)
  PROVE  IInv'
<1> USE DEF modelVars, envVars
<1>1. /\ run[r].pc = "complete" /\ End(r, "Completed") /\ cursors' = [k \in 1 .. Kinds |-> 0]
      /\ UNCHANGED <<disk, graph, active, processor, totalProcessed, manager, excused, swapped>>
  BY DEF Complete
<1>2. cursors' \in [1 .. Kinds -> Nodes \cup {0}]
  BY <1>1
<1> QED BY <1>1, <1>2, EndedKeeps DEF AtWork, Statuses, End

\* What a wrapper knows of its run when it was alone.
LEMMA OfWrapper ==
  ASSUME IInv, NEW r \in Runs
  PROVE  /\ wrapper[r] \in WrapperStates
         /\ run[r].pc \in {"free", "parse"} => wrapper[r] = NewWrapper
         /\ run[r].pc = "ended" <=> run[r].status # "Running"
         /\ run[r].alone /\ wrapper[r].over = "no" =>
              /\ run[r].pc # "ended" => wrapper[r].inbox = <<>> /\ wrapper[r].thread = "up"
              /\ wrapper[r].inbox # <<>> =>
                   wrapper[r].inbox = <<run[r].status>> /\ wrapper[r].thread = "up"
              /\ wrapper[r].thread # "up" => run[r].status # "Failed"
         /\ run[r].alone /\ wrapper[r].over # "no" =>
              /\ run[r].pc = "ended"
              /\ wrapper[r].over \in {"error", "panic"} <=> run[r].status = "Failed"
BY DEF IInv, Shape, Verdicts, HeardOwn, VerdictIsOwn

\* A status that is heard is the run's own, which is over, and the only one.
LEMMA WrapperHearsKeeps ==
  ASSUME IInv, NEW r \in Runs, WrapperHears(r)
  PROVE  IInv'
<1> DEFINE v == wrapper[r]
           w == [v EXCEPT !.inbox = Tail(@)]
<1>1. Followed(r) /\ v.inbox # <<>>
  BY DEF WrapperHears
<1>2. /\ run[r].pc \notin {"free", "parse"} /\ v.over = "no" /\ v.inbox \in Seq(Statuses)
      /\ v \in WrapperStates
  BY <1>1, OfWrapper DEF Followed, WrapperStates
<1>3. /\ w \in WrapperStates /\ w.inbox = Tail(v.inbox) /\ w.over = "no" /\ w.thread = v.thread
  <2>1. Tail(v.inbox) \in Seq(Statuses)
    BY <1>1, <1>2
  <2> QED BY <2>1, <1>2 DEF WrapperStates
<1>4. run[r].alone => /\ run[r].pc = "ended" /\ v.inbox = <<run[r].status>> /\ v.thread = "up"
                      /\ Head(v.inbox) = run[r].status /\ w.inbox = <<>>
  <2>1. run[r].alone => /\ run[r].pc = "ended" /\ v.inbox = <<run[r].status>> /\ v.thread = "up"
    BY <1>1, <1>2, OfWrapper
  <2>2. \A status : Head(<<status>>) = status /\ Tail(<<status>>) = <<>>
    OBVIOUS
  <2> HIDE DEF w, v
  <2> QED BY <2>1, <2>2, <1>3
<1> DEFINE To(over, thread) == [w EXCEPT !.over = over, !.thread = thread]
<1>5. w.thread \in {"up", "told", "down"}
  BY <1>3 DEF WrapperStates
<1>6. PICK over \in {"no", "ok", "panic"}, thread \in {"up", "told", "down"} :
        /\ WrapperTo(r, To(over, thread))
        /\ \/ Head(v.inbox) = "Failed" /\ over = "panic"
           \/ Head(v.inbox) = "Cancelled" /\ over = "ok"
           \/ Head(v.inbox) = "Completed" /\ over = "ok" /\ w.thread = "down"
           \/ Head(v.inbox) = "Completed" /\ over = "no" /\ thread = "told" /\ w.thread = "up"
           \/ Head(v.inbox) = "Completed" /\ w.thread = "told"
  <2>1. /\ [w EXCEPT !.over = "panic"] = To("panic", w.thread)
        /\ [w EXCEPT !.over = "ok"] = To("ok", w.thread)
        /\ [w EXCEPT !.thread = "told"] = To("no", "told")
        /\ \A o \in {"no", "panic"} : [w EXCEPT !.thread = "down", !.over = o] = To(o, "down")
    BY <1>3 DEF WrapperStates
  <2>2. \/ Head(v.inbox) = "Failed" /\ WrapperTo(r, [w EXCEPT !.over = "panic"])
        \/ /\ Head(v.inbox) = "Cancelled" \/ (Head(v.inbox) = "Completed" /\ w.thread = "down")
           /\ WrapperTo(r, [w EXCEPT !.over = "ok"])
        \/ /\ Head(v.inbox) = "Completed" /\ w.thread = "up"
           /\ WrapperTo(r, [w EXCEPT !.thread = "told"])
        \/ /\ Head(v.inbox) = "Completed" /\ w.thread = "told"
           /\ \E o \in {"no", "panic"} : WrapperTo(r, [w EXCEPT !.thread = "down", !.over = o])
    BY DEF WrapperHears
  <2> HIDE DEF To, w
  <2> QED BY <2>1, <2>2, <1>5
<1>7. /\ To(over, thread) \in WrapperStates /\ To(over, thread).over = over
      /\ To(over, thread).thread = thread /\ To(over, thread).inbox = w.inbox
  BY <1>3 DEF WrapperStates
<1> HIDE DEF To, w
<1>8. run[r].alone => \/ run[r].status = "Failed" /\ over = "panic"
                      \/ run[r].status = "Cancelled" /\ over = "ok"
                      \/ run[r].status = "Completed" /\ over = "no" /\ thread = "told"
  BY <1>3, <1>4, <1>6
<1> QED BY <1>2, <1>4, <1>7, <1>6, <1>8, WrapperToKeeps

\* The handle of an ended run: the wrapper of a run that was alone has the result.
LEMMA WrapperJoinsKeeps ==
  ASSUME IInv, NEW r \in Runs, WrapperJoins(r)
  PROVE  IInv'
<1> DEFINE v == wrapper[r]
           over == IF run[r].status = "Failed" /\ v.thread # "down" THEN "error" ELSE "ok"
           w == [v EXCEPT !.over = over, !.thread = TellThread(@)]
<1>1. Followed(r) /\ run[r].pc = "ended" /\ WrapperTo(r, w)
  BY DEF WrapperJoins
<1>2. v \in WrapperStates /\ v.over = "no"
  BY <1>1, OfWrapper DEF Followed
<1>3. w \in WrapperStates /\ w.over = over
  BY <1>2 DEF WrapperStates, TellThread
<1>4. run[r].alone => (over = "error" <=> run[r].status = "Failed")
  BY <1>2, OfWrapper
<1>5. over \in {"ok", "error"}
  OBVIOUS
<1> HIDE DEF w, over
<1> QED BY <1>1, <1>2, <1>3, <1>4, <1>5, WrapperToKeeps

\* The callback channel closes after a run that completed.
LEMMA WrapperDisconnectedKeeps ==
  ASSUME IInv, NEW r \in Runs, WrapperDisconnected(r)
  PROVE  IInv'
<1> DEFINE v == wrapper[r]
           w == [v EXCEPT !.over = "ok"]
<1>1. Followed(r) /\ v.thread = "down" /\ WrapperTo(r, w)
  BY DEF WrapperDisconnected
<1>2. v \in WrapperStates /\ v.over = "no" /\ run[r].pc \notin {"free", "parse"}
  BY <1>1, OfWrapper DEF Followed
<1>3. w \in WrapperStates /\ w.over = "ok"
  BY <1>2 DEF WrapperStates
<1>4. run[r].alone => run[r].pc = "ended" /\ run[r].status # "Failed"
  BY <1>1, <1>2, OfWrapper
<1> HIDE DEF w
<1> QED BY <1>1, <1>2, <1>3, <1>4, WrapperToKeeps

\* A callback thread that was told ends.
LEMMA ThreadEndsKeeps ==
  ASSUME IInv, NEW r \in Runs, ThreadEnds(r)
  PROVE  IInv'
<1> DEFINE v == wrapper[r]
           w == [v EXCEPT !.thread = "down"]
<1>1. v.thread = "told" /\ WrapperTo(r, w)
  BY DEF ThreadEnds
<1>2. v \in WrapperStates /\ run[r].pc \notin {"free", "parse"}
  BY <1>1, OfWrapper DEF NewWrapper
<1>3. w \in WrapperStates /\ w.over = v.over /\ w.inbox = v.inbox /\ w.thread = "down"
  BY <1>2 DEF WrapperStates
<1> HIDE DEF w
<1> QED BY <1>1, <1>2, <1>3, OfWrapper, WrapperToKeeps

(***************************************************************************)
(* The theorems.                                                           *)
(***************************************************************************)

\* IInv holds in every state: each action keeps it.
THEOREM Invariance == Spec => []IInv
<1>1. ASSUME IInv, [Next]_vars
      PROVE  IInv'
  <2>1. CASE UNCHANGED vars
    BY <1>1, <2>1, Stutters
  <2>2. CASE \E f \in Files : Edit(f)
    BY <1>1, <2>2, EditKeeps
  <2>3. CASE \E r \in Runs : Index(r) \/ ReIndex(r) \/ UpdateIndex(r)
    BY <1>1, <2>3, StartsKeep
  <2>4. CASE StartScan("scan") \/ StartScan("update") \/ ScanParse \/ ScanRetract
    BY <1>1, <2>4, StartScanKeeps, ScanParseKeeps, ScanRetractKeeps
  <2>5. CASE UpdateReturns \/ (\E m \in Models : SwitchSet(m)) \/ SwitchProcessor
    BY <1>1, <2>5, UpdateReturnsKeeps, SwitchSetKeeps, SwitchProcessorKeeps
  <2>6. CASE \E r \in Runs : Parse(r) \/ Count(r) \/ ReadCursor(r) \/ FetchKind(r)
    BY <1>1, <2>6, ParseKeeps, CountKeeps, ReadCursorKeeps, FetchKindKeeps
  <2>7. CASE \E r \in Runs : EndBatch(r) \/ ReadSnippets(r) \/ WriteVectors(r)
    BY <1>1, <2>7, EndBatchKeeps, ReadSnippetsKeeps, WriteVectorsKeeps
  <2>8. CASE \E r \in Runs : \/ BatchFails(r) \/ Finish(r) \/ Complete(r)
                             \/ QueryFails(r) \/ SeedFails(r)
    BY <1>1, <2>8, BatchFailsKeeps, FinishKeeps, CompleteKeeps, ErrorsKeep
  <2>9. CASE \E r \in Runs :
               \/ WrapperHears(r) \/ WrapperJoins(r) \/ WrapperDisconnected(r) \/ ThreadEnds(r)
    BY <1>1, <2>9, WrapperHearsKeeps, WrapperJoinsKeeps, WrapperDisconnectedKeeps,
       ThreadEndsKeeps
  <2> QED BY <1>1, <2>1, <2>2, <2>3, <2>4, <2>5, <2>6, <2>7, <2>8, <2>9 DEF Next
<1> QED BY Initially, <1>1, PTL DEF Spec

\* TypeOK follows: among its parts that a batch has no more than was fetched for it.
THEOREM TypeCorrect == Spec => []TypeOK
<1>1. IInv => TypeOK
  <2> SUFFICES ASSUME IInv PROVE TypeOK
    OBVIOUS
  <2>1. /\ graph.parsed \in [Files -> Texts] /\ graph.row \in [Nodes -> Texts]
        /\ graph.vec \in [Models -> [Nodes -> Vectors]]
    <3>1. Texts = VersionsOrNone /\ Vectors = VectorRows
      BY DEF Texts, Vectors, VersionsOrNone, VectorRows
    <3> QED BY <3>1 DEF IInv, Shape, GraphOK, GraphShape
  <2>2. \A r \in Runs :
          /\ run[r].pc \in {"free", "parse", "count", "fetch", "query", "snippets", "embed",
                            "finish", "complete", "ended"}
          /\ run[r].status \in {"Running", "Completed", "Cancelled", "Failed"}
          /\ DOMAIN run[r].batch \subseteq Nodes
          /\ Cardinality(DOMAIN run[r].batch) <= run[r].fetched
          /\ run[r].fetched <= BatchSize
          /\ wrapper[r].over \in {"no", "ok", "error", "panic"}
          /\ wrapper[r].thread \in {"up", "told", "down"}
    BY OfRun, OfWrapper DEF RunStates, Statuses, BatchSound, WrapperStates
  <2>3. manager.step \in {"idle", "parse", "retract", "update", "wait", "switch"}
    BY DEF IInv, Shape, ManagerStates, Idle
  <2> QED BY <2>1, <2>2, <2>3 DEF TypeOK, IInv, Shape
<1> QED BY Invariance, <1>1, PTL

\* A live vector is of the text the graph has, up to what the tracking hash does not see, but
\* for the ways to another text that LiveIsCurrent names, among them a snippet read from a file
\* that had changed in comments or white space alone: no interleaving of runs, scans, edits,
\* cosmetic or not, and switches makes one more.
THEOREM VectorsAreCurrent == Spec => []LiveIsCurrent
<1>1. IInv => LiveIsCurrent
  BY DEF IInv, Vectorial
<1> QED BY Invariance, <1>1, PTL

\* The vectors of a set are by its model, unless a switch met a run.
THEOREM VectorsAreOwn == Spec => []OwnModel
<1>1. IInv => OwnModel
  BY DEF IInv, Vectorial
<1> QED BY Invariance, <1>1, PTL

\* The wrapper of a run that had the task for itself reports the verdict of that run.
THEOREM VerdictsAreOwn == Spec => []VerdictIsOwn
<1>1. IInv => VerdictIsOwn
  BY DEF IInv, Verdicts
<1> QED BY Invariance, <1>1, PTL

(***************************************************************************)
(* The accounts: what a run has counted, fetched, written and skipped.     *)
(***************************************************************************)

\* What a run has fetched and not written yet.
Pending(r) == IF run[r].pc \in {"snippets", "embed"} THEN DOMAIN run[r].batch ELSE {}

\* What the tally has to cover of a set: its rows, and what is pending in the runs.
NoRun == CHOOSE v : v \notin Runs
Holds(s, w) == IF w = NoRun THEN {n \in Nodes : graph.vec[s][n] # NoVector} ELSE Pending(w)
Tokens(s) == {t \in (Runs \cup {NoRun}) \X Nodes : t[2] \in Holds(s, t[1])}

Tally == \A s \in Models : IsFiniteSet(Tokens(s)) /\ Cardinality(Tokens(s)) <= totalProcessed

\* A run that has not counted yet has nothing.
Fresh(r) ==
  run[r].pc \in {"free", "parse", "count"} =>
    /\ run[r].recent = 0 /\ run[r].fetched = 0 /\ run[r].kind = 1
    /\ run[r].batch = NoBatch

Counting == {"fetch", "query", "snippets", "embed", "finish", "complete"}
Regular(r) ==
  run[r].alone /\ ~run[r].crowded /\ ~run[r].switched /\ run[r].pc \in Counting

\* Where the cursors have been, and what the run has taken on the way.
Past(n) == n <= cursors[KindOf[n]]
Taken(r) == {n \in run[r].counted : Past(n) /\ n \notin run[r].behind}

\* What has been taken is written, or in the batch, or was skipped; it is as much as the
\* run thinks; and what the cursors have not reached is still to be found by a query.
Account(r) ==
  /\ run[r].set = active
  /\ \A n \in run[r].behind : n \in run[r].counted /\ Past(n)
  /\ \A n \in DOMAIN run[r].batch : Past(n)
  /\ \A n \in run[r].counted :
       graph.row[n] # 0 /\ (~Past(n) => graph.vec[active][n] = NoVector)
  /\ \A n \in Taken(r) :
       graph.vec[active][n] # NoVector \/ n \in DOMAIN run[r].batch \/ n \in run[r].skipped
  /\ Cardinality(Taken(r)) = run[r].recent + run[r].fetched
Round(r) ==
  /\ run[r].pc \in {"fetch", "query"} /\ run[r].fetched = 0 =>
       \A n \in run[r].counted : KindOf[n] < run[r].kind => Past(n)
  /\ run[r].pc = "query" =>
       run[r].kind <= Kinds /\ run[r].cursor = cursors[run[r].kind] /\ FetchSize(r) > 0
  /\ run[r].pc \in {"finish", "complete"} =>
       run[r].fetched = 0 /\ \A n \in run[r].counted : Past(n)

Accounts == \A r \in Runs : Regular(r) => Account(r) /\ Round(r)

Books == Tally /\ Accounts /\ \A r \in Runs : Fresh(r)

\* What CompletedAccounts and CancelledIsHonest say of a step.
Reports ==
  \A r \in Runs :
    /\ Ends(r, "Completed") /\ run[r].alone /\ ~run[r].crowded /\ ~run[r].switched =>
         Unembedded(r) \subseteq run[r].behind \cup run[r].skipped
    /\ Ends(r, "Cancelled") => Unembedded(r) # {}

(***************************************************************************)
(* The parts of Books that several actions keep in the same way.           *)
(***************************************************************************)

\* Nothing is pending in the place that stands for the set.
LEMMA OtherThanRuns == NoRun \notin Runs
<1>1. \E v : v \notin Runs
  BY NoSetContainsEverything
<1> QED BY <1>1 DEF NoRun

\* Nothing is written and nothing becomes pending.
LEMMA TallyStays ==
  ASSUME Tally, totalProcessed' = totalProcessed,
         \A s \in Models, n \in Nodes :
           graph'.vec[s][n] # NoVector => graph.vec[s][n] # NoVector,
         \A q \in Runs : Pending(q)' \subseteq Pending(q), totalProcessed \in Nat
  PROVE  Tally'
<1> SUFFICES ASSUME NEW s \in Models
             PROVE  IsFiniteSet(Tokens(s)') /\ Cardinality(Tokens(s)') <= totalProcessed
  BY DEF Tally
<1>1. Tokens(s)' \in SUBSET Tokens(s)
  <2>1. \A w \in Runs \cup {NoRun}, n \in Nodes : n \in Holds(s, w)' => n \in Holds(s, w)
    BY DEF Holds
  <2> QED BY <2>1 DEF Tokens
<1>2. IsFiniteSet(Tokens(s)) /\ Cardinality(Tokens(s)) <= totalProcessed
  BY DEF Tally
<1>3. IsFiniteSet(Tokens(s)') /\ Cardinality(Tokens(s)') <= Cardinality(Tokens(s))
  BY <1>1, <1>2, FS_Subset
<1>4. Cardinality(Tokens(s)) \in Nat /\ Cardinality(Tokens(s)') \in Nat
  BY <1>2, <1>3, FS_CardinalityType
<1> QED BY <1>2, <1>3, <1>4

\* While a run that is alone is at work no other one is.
LEMMA OthersAtRest ==
  ASSUME IInv, NEW r \in Runs, AtWork(r), NEW q \in Runs, Regular(q)
  PROVE  q = r
BY DEF IInv, Verdicts, StillAlone, There, AtWork, Regular, Counting

\* The accounts of a run that does nothing are as they were, if the cursors and the set are
\* and the graph has no fewer rows and the same places without a vector.
LEMMA AccountStays ==
  ASSUME Accounts, NEW q \in Runs, run'[q] = run[q], UNCHANGED <<active, cursors>>,
         IInv, Regular(q),
         \A n \in Nodes : graph.row[n] # 0 => graph'.row[n] # 0,
         \A s \in Models, n \in Nodes : graph'.vec[s][n] = NoVector <=> graph.vec[s][n] = NoVector
  PROVE  Account(q)' /\ Round(q)'
<1>1. Account(q) /\ Round(q) /\ active \in Models
  BY DEF Accounts, IInv, Shape
<1>2. run[q].counted \subseteq Nodes
  BY OfRun DEF RunStates
<1>3. Taken(q)' = Taken(q)
  BY DEF Taken, Past
<1>4. Account(q)'
  BY <1>1, <1>2, <1>3 DEF Account, Past, Taken
<1>5. Round(q)'
  BY <1>1 DEF Round, Past, FetchSize, NumNotProc
<1> QED BY <1>4, <1>5

\* A step of no run's own: runs may start, and a run may cease to be alone or undisturbed.
LEMMA WorldStepKeeps ==
  ASSUME IInv, Books, UNCHANGED <<cursors, totalProcessed>>,
         \A n \in Nodes : graph.row[n] # 0 => graph'.row[n] # 0,
         \A s \in Models, n \in Nodes : graph'.vec[s][n] = NoVector <=> graph.vec[s][n] = NoVector,
         \A q \in Runs :
           /\ Regular(q)' => run'[q] = run[q] /\ active' = active
           /\ \/ run'[q].pc = run[q].pc
              \/ run[q].pc = "free" /\ run'[q].pc \in {"parse", "count"}
           /\ run'[q].recent = run[q].recent /\ run'[q].fetched = run[q].fetched
           /\ run'[q].kind = run[q].kind /\ run'[q].batch = run[q].batch
  PROVE  Books' /\ Reports
<1>1. Tally'
  <2>1. \A q \in Runs : Pending(q)' \subseteq Pending(q)
    BY DEF Pending
  <2> QED BY <2>1, TallyStays DEF Books, IInv, Shape
<1>2. Accounts'
  <2> SUFFICES ASSUME NEW q \in Runs, Regular(q)'
               PROVE  Account(q)' /\ Round(q)'
    BY DEF Accounts
  <2>1. run'[q] = run[q] /\ active' = active
    OBVIOUS
  <2>2. Regular(q)
    BY <2>1 DEF Regular
  <2> QED BY <2>1, <2>2, AccountStays DEF Books
<1>3. \A q \in Runs : Fresh(q)'
  BY DEF Books, Fresh
<1>4. Reports
  BY DEF Reports, Ends
<1> QED BY <1>1, <1>2, <1>3, <1>4 DEF Books

\* A step of a run that is at work: the other runs' accounts are not touched.
LEMMA OwnAccounts ==
  ASSUME IInv, Books, NEW r \in Runs, AtWork(r), NEW x, Step(r, x), Tally',
         x.pc \notin {"free", "parse"}, x.pc = "count" => Fresh(r)',
         Regular(r)' => Account(r)' /\ Round(r)'
  PROVE  Books'
<1>1. run'[r] = x /\ \A q \in Runs : q # r => run'[q] = run[q]
  BY DEF Step, IInv, Shape
<1>2. Accounts'
  <2> SUFFICES ASSUME NEW q \in Runs, Regular(q)'
               PROVE  Account(q)' /\ Round(q)'
    BY DEF Accounts
  <2>1. CASE q = r
    BY <2>1
  <2>2. CASE q # r
    <3>1. Regular(q)
      BY <2>2, <1>1 DEF Regular
    <3> QED BY <2>2, <3>1, OthersAtRest
  <2> QED BY <2>1, <2>2
<1>3. \A q \in Runs : Fresh(q)'
  BY <1>1 DEF Books, Fresh
<1> QED BY <1>2, <1>3 DEF Books

\* A run that goes on makes no report.
LEMMA GoingOn ==
  ASSUME IInv, NEW r \in Runs, NEW x, Step(r, x), x.pc # "ended"
  PROVE  Reports
<1>1. run'[r] = x /\ \A q \in Runs : q # r => run'[q] = run[q]
  BY DEF Step, IInv, Shape
<1> QED BY <1>1 DEF Reports, Ends

(***************************************************************************)
(* The actions of the manager, the files and the wrappers.                 *)
(***************************************************************************)

\* They do not touch what the books are about.
LEMMA ApartKeep ==
  ASSUME IInv, Books, UNCHANGED <<graph, active, cursors, totalProcessed, run>>
  PROVE  Books' /\ Reports
<1>1. \A q \in Runs : Regular(q)' => run'[q] = run[q] /\ active' = active
  OBVIOUS
<1> QED BY <1>1, WorldStepKeeps

\* Which actions those are.
LEMMA ApartAre ==
  ASSUME IInv, Books,
         \/ UNCHANGED vars \/ (\E f \in Files : Edit(f))
         \/ StartScan("scan") \/ StartScan("update") \/ UpdateReturns \/ SwitchProcessor
         \/ \E r \in Runs :
              WrapperHears(r) \/ WrapperJoins(r) \/ WrapperDisconnected(r) \/ ThreadEnds(r)
  PROVE  Books' /\ Reports
<1> USE DEF modelVars, taskVars
<1>1. CASE UNCHANGED vars
  BY <1>1, ApartKeep DEF vars
<1>2. CASE \E f \in Files : Edit(f)
  BY <1>2, ApartKeep DEF Edit
<1>3. CASE StartScan("scan") \/ StartScan("update") \/ UpdateReturns \/ SwitchProcessor
  BY <1>3, ApartKeep DEF StartScan, UpdateReturns, SwitchProcessor
<1>4. CASE \E r \in Runs :
              WrapperHears(r) \/ WrapperJoins(r) \/ WrapperDisconnected(r) \/ ThreadEnds(r)
  <2>1. \E r \in Runs : \E w : WrapperTo(r, w)
    BY <1>4 DEF WrapperHears, WrapperJoins, WrapperDisconnected, ThreadEnds
  <2> QED BY <2>1, ApartKeep DEF WrapperTo
<1> QED BY <1>1, <1>2, <1>3, <1>4

\* A run that starts has nothing to account for; those that were there are not alone.
LEMMA StartsAccount ==
  ASSUME IInv, Books, NEW r \in Runs, Index(r) \/ ReIndex(r) \/ UpdateIndex(r)
  PROVE  Books' /\ Reports
<1>1. /\ \E pc \in {"parse", "count"} : Spawn(r, pc)
      /\ UNCHANGED <<graph, active, cursors, totalProcessed>>
  BY DEF Index, ReIndex, UpdateIndex, modelVars, taskVars
<1>2. PICK pc \in {"parse", "count"} : Spawn(r, pc)
  BY <1>1
<1> DEFINE others == {q \in Runs : AtWork(q) \/ Followed(q)}
<1>3. /\ run[r].pc = "free"
      /\ run' = [q \in Runs |->
           IF q = r THEN [run[r] EXCEPT !.pc = pc, !.alone = (others = {})]
           ELSE IF q \in others THEN [run[q] EXCEPT !.alone = FALSE] ELSE run[q]]
  BY <1>2 DEF Spawn
<1> HIDE DEF others
<1>4. \A q \in Runs : run[q] \in RunStates
  BY DEF IInv, Shape
<1>5. ASSUME NEW q \in Runs
      PROVE  /\ Regular(q)' => run'[q] = run[q]
             /\ \/ run'[q].pc = run[q].pc
                \/ run[q].pc = "free" /\ run'[q].pc \in {"parse", "count"}
             /\ run'[q].recent = run[q].recent /\ run'[q].fetched = run[q].fetched
             /\ run'[q].kind = run[q].kind /\ run'[q].batch = run[q].batch
  <2>1. CASE q = r
    BY <2>1, <1>3, <1>4 DEF RunStates, Regular, Counting
  <2>2. CASE q # r /\ q \in others
    BY <2>2, <1>3, <1>4 DEF RunStates, Regular
  <2>3. CASE q # r /\ q \notin others
    BY <2>3, <1>3
  <2> QED BY <2>1, <2>2, <2>3
<1> QED BY <1>1, <1>5, WorldStepKeeps

\* A scan puts rows and retracts vectors: none of either goes.
LEMMA ScansAccount ==
  ASSUME IInv, Books, ScanParse \/ ScanRetract
  PROVE  Books' /\ Reports
<1> USE DEF modelVars, taskVars
<1>1. UNCHANGED <<active, cursors, totalProcessed, run>>
  BY DEF ScanParse, ScanRetract
<1>2. GraphOK(graph) /\ disk \in [Files -> 1 .. Versions] /\ active \in Models
  BY DEF IInv, Shape
<1>3. CASE ScanParse
  <2>1. graph' = Transform(graph, manager.changed, disk)
    BY <1>3 DEF ScanParse
  <2>2. /\ graph'.vec = graph.vec
        /\ \A n \in Nodes : graph.row[n] # 0 => graph'.row[n] # 0
    BY <2>1, <1>2, TransformOK, TransformKeepsRows
  <2> QED BY <2>2, <1>1, WorldStepKeeps
<1>4. CASE ScanRetract
  <2>1. graph' = RetractFiles(graph, active, manager.changed)
    BY <1>4 DEF ScanRetract
  <2>2. /\ graph'.row = graph.row
        /\ \A s \in Models, n \in Nodes :
             graph'.vec[s][n] = NoVector <=> graph.vec[s][n] = NoVector
    BY <2>1, <1>2, RetractFilesOK
  <2> QED BY <2>2, <1>1, WorldStepKeeps
<1> QED BY <1>3, <1>4

\* A run that is at work at a switch is not regular any more.
LEMMA SwitchAccounts ==
  ASSUME IInv, Books, NEW m \in Models, SwitchSet(m)
  PROVE  Books' /\ Reports
<1>1. /\ run' = [q \in Runs |-> [run[q] EXCEPT !.switched = @ \/ AtWork(q)]]
      /\ UNCHANGED <<graph, cursors, totalProcessed>>
  BY DEF SwitchSet, modelVars, taskVars
<1>2. \A q \in Runs : run[q] \in RunStates
  BY DEF IInv, Shape
<1>3. ASSUME NEW q \in Runs
      PROVE  /\ ~Regular(q)'
             /\ run'[q].pc = run[q].pc
             /\ run'[q].recent = run[q].recent /\ run'[q].fetched = run[q].fetched
             /\ run'[q].kind = run[q].kind /\ run'[q].batch = run[q].batch
  BY <1>1, <1>2 DEF RunStates, Regular, AtWork, Counting
<1> QED BY <1>1, <1>3, WorldStepKeeps

(***************************************************************************)
(* The actions of a run.                                                   *)
(***************************************************************************)

\* The tally, when a run steps without writing and without anything more pending.
LEMMA StepTally ==
  ASSUME IInv, Books, NEW r \in Runs, NEW x, Step(r, x), totalProcessed' = totalProcessed,
         \A s \in Models, n \in Nodes :
           graph'.vec[s][n] # NoVector => graph.vec[s][n] # NoVector,
         \/ x.pc \notin {"snippets", "embed"}
         \/ run[r].pc \in {"snippets", "embed"} /\ DOMAIN x.batch \subseteq DOMAIN run[r].batch
  PROVE  Tally'
<1>1. run'[r] = x /\ \A q \in Runs : q # r => run'[q] = run[q]
  BY DEF Step, IInv, Shape
<1>2. \A q \in Runs : Pending(q)' \subseteq Pending(q)
  BY <1>1 DEF Pending
<1> QED BY <1>2, TallyStays DEF Books, IInv, Shape

\* A run that ends owes no account; only its last step makes the report.
LEMMA EndAccounts ==
  ASSUME IInv, Books, NEW r \in Runs, AtWork(r), NEW status \in Statuses, Over(r, status),
         UNCHANGED <<graph, totalProcessed>>,
         status = "Completed" /\ run[r].alone /\ ~run[r].crowded /\ ~run[r].switched =>
           Unembedded(r) \subseteq run[r].behind \cup run[r].skipped,
         status = "Cancelled" => Unembedded(r) # {}
  PROVE  Books' /\ Reports
<1> DEFINE x == [NewRun EXCEPT !.pc = "ended", !.status = status, !.alone = run[r].alone]
<1>1. Step(r, x) /\ x.pc = "ended" /\ x.status = status
  BY DEF Over, NewRun
<1> HIDE DEF x
<1>2. run'[r] = x /\ \A q \in Runs : q # r => run'[q] = run[q]
  BY <1>1 DEF Step, IInv, Shape
<1>3. Tally'
  BY <1>1, StepTally
<1>4. Books'
  BY <1>1, <1>2, <1>3, OwnAccounts DEF Regular, Counting
<1>5. Reports
  BY <1>1, <1>2 DEF Reports, Ends
<1> QED BY <1>4, <1>5

\* A run that has parsed has still nothing.
LEMMA ParseAccounts ==
  ASSUME IInv, Books, NEW r \in Runs, Parse(r)
  PROVE  Books' /\ Reports
<1> DEFINE x == [run[r] EXCEPT !.pc = "count"]
<1>1. /\ run[r].pc = "parse" /\ Step(r, x) /\ graph' = Transform(graph, Files, disk)
      /\ UNCHANGED totalProcessed
  BY DEF Parse, taskVars
<1>2. x.pc = "count" /\ x.recent = run[r].recent /\ x.fetched = run[r].fetched
      /\ x.kind = run[r].kind /\ x.batch = run[r].batch
  BY OfRun DEF RunStates
<1> HIDE DEF x
<1>3. graph'.vec = graph.vec
  BY <1>1, TransformOK DEF IInv, Shape
<1>4. run'[r] = x
  BY <1>1 DEF Step, IInv, Shape
<1>5. Tally'
  BY <1>1, <1>2, <1>3, StepTally
<1>6. Fresh(r)' /\ ~Regular(r)'
  BY <1>1, <1>2, <1>4 DEF Books, Fresh, Regular, Counting
<1>7. Books'
  BY <1>1, <1>2, <1>5, <1>6, OwnAccounts DEF AtWork
<1> QED BY <1>1, <1>2, <1>7, GoingOn

\* The account is opened: nothing is taken, what the cursors have passed is behind.
LEMMA CountAccounts ==
  ASSUME IInv, Books, NEW r \in Runs, Count(r)
  PROVE  Books' /\ Reports
<1> DEFINE counted == CountUnembedded(graph, active)
           behind == {n \in counted : n <= cursors[KindOf[n]]}
           x == [run[r] EXCEPT !.pc = "fetch", !.counted = counted, !.set = active, !.behind = behind]
<1>1. /\ run[r].pc = "count" /\ Step(r, x)
      /\ UNCHANGED <<graph, active, cursors, totalProcessed>>
  BY DEF Count, modelVars, taskVars
<1>2. /\ x.pc = "fetch" /\ x.counted = counted /\ x.set = active /\ x.behind = behind
      /\ x.recent = 0 /\ x.fetched = 0 /\ x.kind = 1 /\ x.batch = NoBatch
  BY <1>1, OfRun DEF RunStates, Books, Fresh
<1> HIDE DEF x
<1>3. run'[r] = x
  BY <1>1 DEF Step, IInv, Shape
<1>4. Tally'
  BY <1>1, <1>2, StepTally
<1>5. \A n \in counted : n \in Nodes /\ graph.row[n] # 0 /\ graph.vec[active][n] = NoVector
  BY DEF CountUnembedded
<1>6. Taken(r)' = {}
  BY <1>1, <1>2, <1>3 DEF Taken, Past
<1>7. Cardinality({}) = 0
  BY FS_EmptySet
<1> HIDE DEF counted
<1>8. Account(r)'
  BY <1>1, <1>2, <1>3, <1>5, <1>6, <1>7, NewOnes DEF Account, Past
<1>9. Round(r)'
  <2>1. \A n \in counted : ~(KindOf[n] < 1)
    <3>1. \A n \in counted : KindOf[n] \in 1 .. Kinds
      BY <1>5, GraphAssumption
    <3> QED BY <3>1, GraphAssumption
  <2> QED BY <1>2, <1>3, <2>1 DEF Round
<1>10. Books'
  BY <1>1, <1>2, <1>4, <1>8, <1>9, OwnAccounts DEF AtWork
<1> QED BY <1>1, <1>2, <1>10, GoingOn

\* The query will start where the node type was left, and ask for something.
LEMMA ReadCursorAccounts ==
  ASSUME IInv, Books, NEW r \in Runs, ReadCursor(r)
  PROVE  Books' /\ Reports
<1> DEFINE x == [run[r] EXCEPT !.pc = "query", !.cursor = cursors[run[r].kind]]
<1>1. /\ run[r].pc = "fetch" /\ run[r].kind <= Kinds /\ FetchSize(r) > 0 /\ Step(r, x)
      /\ UNCHANGED <<graph, active, cursors, totalProcessed>>
  BY DEF ReadCursor, modelVars, taskVars
<1>2. /\ x.pc = "query" /\ x.cursor = cursors[run[r].kind] /\ x.counted = run[r].counted
      /\ x.set = run[r].set /\ x.behind = run[r].behind /\ x.skipped = run[r].skipped
      /\ x.recent = run[r].recent /\ x.fetched = run[r].fetched /\ x.kind = run[r].kind
      /\ x.batch = run[r].batch /\ x.alone = run[r].alone /\ x.crowded = run[r].crowded
      /\ x.switched = run[r].switched
  BY OfRun DEF RunStates
<1> HIDE DEF x
<1>3. run'[r] = x
  BY <1>1 DEF Step, IInv, Shape
<1>4. Tally'
  BY <1>1, <1>2, StepTally
<1>5. ASSUME Regular(r)' PROVE Account(r)' /\ Round(r)'
  <2>1. Account(r) /\ Round(r)
    BY <1>1, <1>2, <1>3, <1>5 DEF Regular, Counting, Books, Accounts
  <2>2. Taken(r)' = Taken(r)
    BY <1>1, <1>2, <1>3 DEF Taken, Past
  <2>3. Account(r)'
    BY <1>1, <1>2, <1>3, <2>1, <2>2 DEF Account, Past
  <2>4. Round(r)'
    BY <1>1, <1>2, <1>3, <2>1 DEF Round, Past, FetchSize, NumNotProc
  <2> QED BY <2>3, <2>4
<1>6. Books'
  BY <1>1, <1>2, <1>4, <1>5, OwnAccounts DEF AtWork
<1> QED BY <1>1, <1>2, <1>6, GoingOn

\* What the query returns is what the cursor then passes: nothing that was counted is
\* passed over, and nothing is taken twice.
LEMMA FetchKindAccounts ==
  ASSUME IInv, Books, NEW r \in Runs, FetchKind(r)
  PROVE  Books' /\ Reports
<1> DEFINE kind == run[r].kind
           nodes == RelWithCursor(graph, active, kind, FetchSize(r), run[r].cursor)
           old == run[r].batch
           batch == [n \in DOMAIN old \cup nodes |->
                       IF n \in nodes THEN EmbedData(graph, n) ELSE old[n]]
           crowded == run[r].crowded \/ nodes \ run[r].counted # {}
           fetched == run[r].fetched + Cardinality(nodes)
           x == [run[r] EXCEPT !.pc = "fetch", !.kind = kind + 1, !.cursor = 0,
                   !.fetched = fetched, !.batch = batch, !.crowded = crowded]
<1>1. /\ run[r].pc = "query" /\ UNCHANGED <<graph, active, totalProcessed>>
      /\ cursors' = IF nodes = {} THEN cursors ELSE [cursors EXCEPT ![kind] = Max(nodes)]
  BY DEF FetchKind, modelVars
<1>2. Step(r, x)
  BY OfRun DEF FetchKind, RunStates, Step
<1>3. /\ x.pc = "fetch" /\ x.counted = run[r].counted
      /\ x.set = run[r].set /\ x.behind = run[r].behind /\ x.skipped = run[r].skipped
      /\ x.recent = run[r].recent /\ x.fetched = fetched /\ x.kind = kind + 1
      /\ x.batch = batch /\ x.alone = run[r].alone /\ x.crowded = crowded
      /\ x.switched = run[r].switched
  <2> HIDE DEF fetched, batch, crowded, kind
  <2> QED BY OfRun DEF RunStates
<1>4. DOMAIN batch = DOMAIN old \cup nodes
  OBVIOUS
<1> HIDE DEF x, nodes, batch
<1>5. run'[r] = x
  BY <1>2 DEF Step, IInv, Shape
<1>6. Tally'
  BY <1>1, <1>2, <1>3, StepTally
<1>7. ASSUME Regular(r)' PROVE Account(r)' /\ Round(r)'
  <2>1. Account(r) /\ Round(r) /\ nodes \subseteq run[r].counted
    BY <1>1, <1>3, <1>5, <1>7 DEF Regular, Counting, Books, Accounts
  <2>2. kind \in 1 .. Kinds /\ run[r].cursor = cursors[kind] /\ FetchSize(r) > 0
    BY <1>1, <2>1, OfRun, GraphAssumption DEF Round, RunStates
  <2>3. FetchSize(r) \in Nat
    BY OfRun, FetchSizeFits DEF IInv
  <2> DEFINE left == {n \in Nodes : /\ graph.row[n] # 0 /\ ~IsLive(graph, active, n)
                                    /\ KindOf[n] = kind /\ n > cursors[kind]}
  <2>4. /\ nodes \subseteq left
        /\ \A m \in left, n \in nodes : m <= n => m \in nodes
        /\ nodes = {} => left = {}
    BY <2>2, <2>3, RelWithCursorFirst DEF nodes
  <2>5. nodes \subseteq Nodes /\ IsFiniteSet(nodes) /\ Cardinality(nodes) \in Nat
    BY <2>3, RelWithCursorBounded, FS_CardinalityType DEF nodes
  <2>6. \A n \in Nodes : n \in Nat /\ KindOf[n] \in 1 .. Kinds
    BY NodePlaces, GraphAssumption
  <2>7. cursors \in [1 .. Kinds -> Nodes \cup {0}] /\ \A k \in 1 .. Kinds : cursors[k] \in Nat
    BY <2>6 DEF IInv, Shape
  <2>8. run[r].counted \subseteq Nodes /\ IsFiniteSet(run[r].counted)
    BY OfRun, NodePlaces, FS_Subset DEF RunStates
  <2>9. \A n \in run[r].counted : ~Past(n) /\ KindOf[n] = kind => n \in left
    BY <2>1, <2>6, <2>7, <2>8, VectorsAreRows DEF Account, Past, IsLive
  <2>10. \A n \in left : n \in Nodes /\ ~Past(n) /\ KindOf[n] = kind
    BY <2>2, <2>6, <2>7 DEF Past
  <2>11. nodes # {} => Max(nodes) \in nodes /\ \A n \in nodes : n <= Max(nodes)
    <3>1. nodes \in SUBSET Nat
      BY <2>5, <2>6
    <3> QED BY <3>1, <2>5, LargestMember
  <2>12. \A n \in Nodes : KindOf[n] # kind => (Past(n)' <=> Past(n))
    BY <1>1, <2>2, <2>6, <2>7 DEF Past
  <2>13. \A n \in Nodes : nodes # {} /\ KindOf[n] = kind => (Past(n)' <=> n <= Max(nodes))
    BY <1>1, <2>2, <2>6, <2>7 DEF Past
  <2> HIDE DEF left
  <2>14. \A n \in Nodes : Past(n) => Past(n)'
    <3>1. CASE nodes = {}
      BY <3>1, <1>1 DEF Past
    <3>2. CASE nodes # {}
      <4>1. Max(nodes) \in Nat /\ Max(nodes) > cursors[kind]
        BY <3>2, <2>4, <2>5, <2>6, <2>11 DEF left
      <4>2. \A n \in Nodes : KindOf[n] = kind /\ Past(n) => n <= Max(nodes)
        BY <4>1, <2>2, <2>6, <2>7 DEF Past
      <4> QED BY <3>2, <4>2, <2>12, <2>13
    <3> QED BY <3>1, <3>2
  <2>15. \A n \in nodes : Past(n)' /\ ~Past(n)
    BY <2>4, <2>5, <2>10, <2>11, <2>13
  <2>16. \A n \in run[r].counted : Past(n)' /\ ~Past(n) => n \in nodes
    <3> SUFFICES ASSUME NEW n \in run[r].counted, Past(n)', ~Past(n) PROVE n \in nodes
      OBVIOUS
    <3>1. nodes # {}
      BY <1>1 DEF Past
    <3>2. KindOf[n] = kind /\ n <= Max(nodes)
      BY <3>1, <2>8, <2>12, <2>13
    <3> QED BY <3>1, <3>2, <2>4, <2>9, <2>11
  <2>17. Taken(r)' = Taken(r) \cup nodes /\ Taken(r) \cap nodes = {}
    <3>1. \A n \in run[r].behind : Past(n)
      BY <2>1 DEF Account
    <3> QED BY <3>1, <2>1, <2>8, <2>14, <2>15, <2>16, <1>3, <1>5 DEF Taken
  <2>18. Cardinality(Taken(r)') = run[r].recent + fetched
    <3>1. IsFiniteSet(Taken(r)) /\ Cardinality(Taken(r)) = run[r].recent + run[r].fetched
      BY <2>1, <2>8, FS_Subset DEF Taken, Account
    <3>2. Cardinality(Taken(r) \cup nodes) =
            Cardinality(Taken(r)) + Cardinality(nodes) - Cardinality(Taken(r) \cap nodes)
      BY <3>1, <2>5, FS_Union
    <3>3. Cardinality(Taken(r) \cap nodes) = 0
      BY <2>17, FS_EmptySet
    <3>4. run[r].recent \in Nat /\ run[r].fetched \in Nat
      BY OfRun DEF RunStates
    <3>5. Cardinality(Taken(r)') = Cardinality(Taken(r) \cup nodes)
      BY <2>17
    <3> QED BY <3>1, <3>2, <3>3, <3>4, <3>5, <2>5
  <2>19. Account(r)'
    <3>1. run'[r].set = active' /\ Cardinality(Taken(r)') = run'[r].recent + run'[r].fetched
      BY <1>1, <1>3, <1>5, <2>1, <2>18 DEF Account
    <3>2. \A n \in run'[r].behind : n \in run'[r].counted /\ Past(n)'
      BY <1>3, <1>5, <2>1, <2>8, <2>14 DEF Account
    <3>3. \A n \in DOMAIN run'[r].batch : Past(n)'
      BY <1>3, <1>4, <1>5, <2>1, <2>14, <2>15, OfRun DEF Account
    <3>4. \A n \in run'[r].counted :
            graph'.row[n] # 0 /\ (~Past(n)' => graph'.vec[active'][n] = NoVector)
      BY <1>1, <1>3, <1>5, <2>1, <2>8, <2>14 DEF Account
    <3>5. \A n \in Taken(r)' : \/ graph'.vec[active'][n] # NoVector
                               \/ n \in DOMAIN run'[r].batch \/ n \in run'[r].skipped
      BY <1>1, <1>3, <1>4, <1>5, <2>1, <2>17 DEF Account
    <3> QED BY <3>1, <3>2, <3>3, <3>4, <3>5 DEF Account
  <2>20. ASSUME fetched = 0, NEW n \in run[r].counted, KindOf[n] < kind + 1
         PROVE  Past(n)'
    <3>1. run[r].fetched = 0 /\ Cardinality(nodes) = 0
      BY <2>5, <2>20, OfRun DEF RunStates
    <3>2. nodes = {} /\ left = {}
      BY <3>1, <2>4, <2>5, FS_EmptySet
    <3>3. KindOf[n] < kind \/ KindOf[n] = kind
      BY <2>2, <2>6, <2>8, <2>20
    <3>4. Past(n)
      BY <1>1, <2>1, <2>9, <3>1, <3>2, <3>3 DEF Round
    <3> QED BY <3>4, <2>8, <2>14
  <2>21. Round(r)'
    BY <1>3, <1>5, <2>20 DEF Round
  <2> QED BY <2>19, <2>21
<1>8. Books'
  BY <1>1, <1>2, <1>3, <1>6, <1>7, OwnAccounts DEF AtWork
<1> QED BY <1>1, <1>2, <1>3, <1>8, GoingOn

\* The batch becomes pending as it is tallied; a run that fetched nothing had nothing left.
LEMMA EndBatchAccounts ==
  ASSUME IInv, Books, NEW r \in Runs, EndBatch(r)
  PROVE  Books' /\ Reports
<1> DEFINE to == IF run[r].fetched = 0 THEN "finish" ELSE "snippets"
           x == [run[r] EXCEPT !.pc = to]
<1>1. Step(r, x) /\ to \in {"finish", "snippets"}
  BY DEF EndBatch
<1>2. /\ x.pc = to /\ x.cursor = run[r].cursor /\ x.counted = run[r].counted
      /\ x.set = run[r].set /\ x.behind = run[r].behind /\ x.skipped = run[r].skipped
      /\ x.recent = run[r].recent /\ x.fetched = run[r].fetched /\ x.kind = run[r].kind
      /\ x.batch = run[r].batch /\ x.alone = run[r].alone /\ x.crowded = run[r].crowded
      /\ x.switched = run[r].switched
  <2> HIDE DEF to
  <2> QED BY OfRun DEF RunStates
<1> HIDE DEF x
<1>3. run'[r] = x /\ \A q \in Runs : q # r => run'[q] = run[q]
  BY <1>1 DEF Step, IInv, Shape
<1>4. totalProcessed \in Nat /\ run[r].fetched \in Nat /\ run[r].pc = "fetch"
      /\ totalProcessed' = totalProcessed + run[r].fetched /\ UNCHANGED <<graph, active, cursors>>
  BY OfRun DEF IInv, Shape, RunStates, EndBatch, modelVars
<1>5. Tally'
  <2> SUFFICES ASSUME NEW s \in Models
               PROVE  IsFiniteSet(Tokens(s)') /\ Cardinality(Tokens(s)') <= totalProcessed'
    BY DEF Tally
  <2> DEFINE new == {r} \X DOMAIN run[r].batch
             f == [t \in new |-> t[2]]
  <2>1. IsFiniteSet(new) /\ Cardinality(new) <= run[r].fetched
    <3>1. IsFiniteSet(DOMAIN run[r].batch) /\ Cardinality(DOMAIN run[r].batch) <= run[r].fetched
      BY OfRun DEF BatchSound
    <3>2. f \in Injection(new, DOMAIN run[r].batch)
      BY DEF Injection, IsInjective
    <3>3. IsFiniteSet(new) /\ Cardinality(new) <= Cardinality(DOMAIN run[r].batch)
      BY <3>1, <3>2, FS_Injection
    <3>4. Cardinality(new) \in Nat /\ Cardinality(DOMAIN run[r].batch) \in Nat
      BY <3>1, <3>3, FS_CardinalityType
    <3> QED BY <3>1, <3>3, <3>4, <1>4
  <2>2. Tokens(s)' \in SUBSET (Tokens(s) \cup new)
    <3>1. \A w \in Runs \cup {NoRun}, n \in Nodes :
            n \in Holds(s, w)' => n \in Holds(s, w) \/ (w = r /\ n \in DOMAIN run[r].batch)
      BY <1>2, <1>3, <1>4 DEF Holds, Pending
    <3> QED BY <3>1 DEF Tokens
  <2>3. IsFiniteSet(Tokens(s)) /\ Cardinality(Tokens(s)) <= totalProcessed
    BY DEF Books, Tally
  <2> HIDE DEF new
  <2>4. /\ IsFiniteSet(Tokens(s) \cup new)
        /\ Cardinality(Tokens(s) \cup new) =
             Cardinality(Tokens(s)) + Cardinality(new) - Cardinality(Tokens(s) \cap new)
    BY <2>1, <2>3, FS_Union
  <2>5. /\ Cardinality(Tokens(s)) \in Nat /\ Cardinality(new) \in Nat
        /\ Cardinality(Tokens(s) \cap new) \in Nat
    BY <2>1, <2>3, FS_Intersection, FS_CardinalityType
  <2>6. IsFiniteSet(Tokens(s)') /\ Cardinality(Tokens(s)') <= Cardinality(Tokens(s) \cup new)
    BY <2>2, <2>4, FS_Subset
  <2>7. Cardinality(Tokens(s)') \in Nat
    BY <2>6, FS_CardinalityType
  <2> QED BY <2>1, <2>3, <2>4, <2>5, <2>6, <2>7, <1>4
<1>6. ASSUME Regular(r)' PROVE Account(r)' /\ Round(r)'
  <2>1. Account(r) /\ Round(r)
    BY <1>2, <1>3, <1>4, <1>6 DEF Regular, Counting, Books, Accounts
  <2>2. Taken(r)' = Taken(r)
    BY <1>2, <1>3, <1>4 DEF Taken, Past
  <2>3. Account(r)'
    BY <1>2, <1>3, <1>4, <2>1, <2>2 DEF Account, Past
  <2>4. ASSUME run[r].fetched = 0, NEW n \in run[r].counted PROVE Past(n)
    <3>1. IsFiniteSet(run[r].counted) /\ n \in Nodes
      BY OfRun, NodePlaces, FS_Subset DEF RunStates
    <3>2. NumNotProc(r) \in Nat /\ NumNotProc(r) # 0
      BY <3>1, <2>4, FS_CardinalityType, FS_EmptySet DEF NumNotProc
    <3>3. FetchSize(r) # 0
      <4>1. BatchSize \in Nat \ {0}
        BY IndexingAssumption
      <4> DEFINE least == Min({BatchSize, NumNotProc(r)})
      <4>2. least \in Nat \ {0}
        BY <3>2, <4>1, OfTwo
      <4> HIDE DEF least
      <4>3. FetchSize(r) = Max({0, least - 0})
        BY <2>4 DEF FetchSize, least
      <4>4. least - 0 = least
        BY <4>2
      <4> QED BY <4>2, <4>3, <4>4, OfTwo
    <3>4. run[r].kind > Kinds
      BY <3>3 DEF EndBatch
    <3>5. KindOf[n] < run[r].kind
      BY <3>1, <3>4, OfRun, GraphAssumption DEF RunStates
    <3> QED BY <1>4, <2>1, <2>4, <3>5 DEF Round
  <2>5. Round(r)'
    BY <1>2, <1>1, <1>3, <1>4, <2>4 DEF Round, Past
  <2> QED BY <2>3, <2>5
<1>7. Books'
  BY <1>2, <1>1, <1>4, <1>5, <1>6, OwnAccounts DEF AtWork
<1> QED BY <1>2, <1>1, <1>7, GoingOn

\* What is dropped from the batch is skipped.
LEMMA ReadSnippetsAccounts ==
  ASSUME IInv, Books, NEW r \in Runs, ReadSnippets(r)
  PROVE  Books' /\ Reports
<1> DEFINE old == run[r].batch
<1>0. PICK read \in Readings(old, disk) :
        LET valid == {n \in DOMAIN old : read[n].ok}
        IN Step(r, [run[r] EXCEPT !.pc = "embed", !.by = processor,
                      !.batch = [n \in valid |-> [hash |-> old[n].hash, text |-> read[n].text,
                                                  own |-> disk[FileOf[n]] = old[n].span]],
                      !.skipped = @ \cup (DOMAIN old \ valid)])
  BY DEF ReadSnippets
<1> DEFINE valid == {n \in DOMAIN old : read[n].ok}
           batch == [n \in valid |-> [hash |-> old[n].hash, text |-> read[n].text,
                                      own |-> disk[FileOf[n]] = old[n].span]]
           skipped == run[r].skipped \cup (DOMAIN old \ valid)
           x == [run[r] EXCEPT !.pc = "embed", !.by = processor, !.batch = batch,
                   !.skipped = skipped]
<1>1. /\ run[r].pc = "snippets" /\ UNCHANGED <<graph, active, cursors, totalProcessed>>
  BY DEF ReadSnippets, modelVars, taskVars, envVars
<1>2. Step(r, x)
  BY <1>0, OfRun DEF RunStates, Step
<1>3. valid \subseteq DOMAIN old /\ DOMAIN batch = valid
  OBVIOUS
<1> HIDE DEF batch, valid
<1>4. /\ x.pc = "embed" /\ x.counted = run[r].counted
      /\ x.set = run[r].set /\ x.behind = run[r].behind /\ x.skipped = skipped
      /\ x.recent = run[r].recent /\ x.fetched = run[r].fetched
      /\ x.batch = batch /\ x.alone = run[r].alone /\ x.crowded = run[r].crowded
      /\ x.switched = run[r].switched
  <2> HIDE DEF skipped
  <2> QED BY OfRun DEF RunStates
<1> HIDE DEF x
<1>5. run'[r] = x
  BY <1>2 DEF Step, IInv, Shape
<1>6. Tally'
  BY <1>1, <1>2, <1>3, <1>4, StepTally
<1>7. ASSUME Regular(r)' PROVE Account(r)' /\ Round(r)'
  <2>1. Account(r) /\ Round(r)
    BY <1>1, <1>4, <1>5, <1>7 DEF Regular, Counting, Books, Accounts
  <2>2. Taken(r)' = Taken(r)
    BY <1>1, <1>4, <1>5 DEF Taken, Past
  <2>3. Account(r)'
    BY <1>1, <1>3, <1>4, <1>5, <2>1, <2>2 DEF Account, Past
  <2>4. Round(r)'
    BY <1>4, <1>5 DEF Round
  <2> QED BY <2>3, <2>4
<1>8. Books'
  BY <1>1, <1>2, <1>4, <1>6, <1>7, OwnAccounts DEF AtWork
<1> QED BY <1>2, <1>4, <1>8, GoingOn

\* What was pending is written; it was tallied before, and is not counted twice.
LEMMA WriteVectorsAccounts ==
  ASSUME IInv, Books, NEW r \in Runs, WriteVectors(r)
  PROVE  Books' /\ Reports
<1> DEFINE batch == run[r].batch
           texts == [n \in DOMAIN batch |-> batch[n].text]
           recent == run[r].recent + run[r].fetched
           to == IF recent >= NumNotProc(r) THEN "finish" ELSE "fetch"
           x == [run[r] EXCEPT !.pc = to, !.recent = recent, !.kind = 1, !.fetched = 0,
                   !.batch = NoBatch, !.by = FirstModel]
<1>1. /\ run[r].pc = "embed" /\ Step(r, x)
      /\ graph' = PutVectors(graph, active, texts, run[r].by)
      /\ UNCHANGED <<active, cursors, totalProcessed>>
  BY DEF WriteVectors, modelVars, taskVars
<1>2. /\ x.pc = to /\ x.counted = run[r].counted
      /\ x.set = run[r].set /\ x.behind = run[r].behind /\ x.skipped = run[r].skipped
      /\ x.recent = recent /\ x.fetched = 0 /\ x.kind = 1
      /\ x.batch = NoBatch /\ x.alone = run[r].alone /\ x.crowded = run[r].crowded
      /\ x.switched = run[r].switched
  <2> HIDE DEF to, recent
  <2> QED BY OfRun DEF RunStates
<1>3. to \in {"finish", "fetch"}
  OBVIOUS
<1>4. /\ graph'.row = graph.row
      /\ \A s \in Models, n \in Nodes :
           graph'.vec[s][n] = IF s = active /\ n \in DOMAIN batch
                              THEN LiveVector(batch[n].text, run[r].by) ELSE graph.vec[s][n]
  <2>1. /\ DOMAIN texts = DOMAIN batch
        /\ \A n \in DOMAIN texts : texts[n] = batch[n].text /\ texts[n] \in VersionsOrNone
    BY <1>1, OfRun DEF ItemSound, FoundSound, Found
  <2> HIDE DEF texts
  <2>2. GraphOK(graph) /\ active \in Models /\ run[r].by \in Models
    BY OfRun DEF RunStates, IInv, Shape
  <2> QED BY <1>1, <2>1, <2>2, PutVectorsOK
<1>5. \A text : LiveVector(text, run[r].by) # NoVector
  BY DEF LiveVector, NoVector
<1> HIDE DEF x, to
<1>6. run'[r] = x /\ \A q \in Runs : q # r => run'[q] = run[q]
  BY <1>1 DEF Step, IInv, Shape
<1>7. DOMAIN batch \subseteq Nodes /\ DOMAIN NoBatch = {}
  BY OfRun, NewOnes
<1>8. Tally'
  <2> SUFFICES ASSUME NEW s \in Models
               PROVE  IsFiniteSet(Tokens(s)') /\ Cardinality(Tokens(s)') <= totalProcessed
    BY <1>1 DEF Tally
  <2> DEFINE f == [t \in Tokens(s)' |-> IF t \in Tokens(s) THEN t ELSE <<r, t[2]>>]
  <2>1. Pending(r) = DOMAIN batch /\ Pending(r)' = {}
    BY <1>1, <1>2, <1>3, <1>6 DEF Pending
  <2>2. \A q \in Runs : q # r => Pending(q)' = Pending(q)
    BY <1>6 DEF Pending
  <2>3. \A w \in Runs \cup {NoRun}, n \in Nodes :
          n \in Holds(s, w)' => n \in Holds(s, w) \/ n \in DOMAIN batch
    BY <1>4, <2>1, <2>2 DEF Holds
  <2>4. \A w \in Runs \cup {NoRun}, n \in Nodes :
          n \in Holds(s, w)' /\ n \notin Holds(s, w) => w = NoRun
    BY <2>1, <2>2 DEF Holds
  <2>5. \A n \in Nodes : n \in Holds(s, r) <=> n \in DOMAIN batch
    BY <2>1, OtherThanRuns DEF Holds
  <2>6. \A n : n \notin Holds(s, r)'
    BY <2>1, OtherThanRuns DEF Holds
  <2>7. \A t \in Tokens(s)' : f[t] \in Tokens(s)
    BY <2>3, <2>5 DEF Tokens
  <2>8. \A t \in Tokens(s)' : t = <<t[1], t[2]>> /\ (t \notin Tokens(s) => t[1] = NoRun) /\ t[1] # r
    BY <2>4, <2>6 DEF Tokens
  <2>9. f \in Injection(Tokens(s)', Tokens(s))
    <3>1. \A t, u \in Tokens(s)' : f[t] = f[u] => t = u
      <4> SUFFICES ASSUME NEW t \in Tokens(s)', NEW u \in Tokens(s)', f[t] = f[u]
                   PROVE  t = u
        OBVIOUS
      <4>1. CASE t \in Tokens(s) /\ u \in Tokens(s)
        BY <4>1
      <4>2. CASE t \in Tokens(s) /\ u \notin Tokens(s)
        <5>1. t = <<r, u[2]>>
          BY <4>2
        <5>2. t[1] = r
          BY <5>1
        <5> QED BY <5>2, <2>8
      <4>3. CASE t \notin Tokens(s) /\ u \in Tokens(s)
        <5>1. u = <<r, t[2]>>
          BY <4>3
        <5>2. u[1] = r
          BY <5>1
        <5> QED BY <5>2, <2>8
      <4>4. CASE t \notin Tokens(s) /\ u \notin Tokens(s)
        <5>1. <<r, t[2]>> = <<r, u[2]>>
          BY <4>4
        <5>2. t[2] = u[2] /\ t[1] = u[1]
          BY <5>1, <4>4, <2>8
        <5> QED BY <5>2, <2>8
      <4> QED BY <4>1, <4>2, <4>3, <4>4
    <3> QED BY <2>7, <3>1 DEF Injection, IsInjective
  <2>10. IsFiniteSet(Tokens(s)) /\ Cardinality(Tokens(s)) <= totalProcessed
    BY DEF Books, Tally
  <2> HIDE DEF f
  <2>11. IsFiniteSet(Tokens(s)') /\ Cardinality(Tokens(s)') <= Cardinality(Tokens(s))
    BY <2>9, <2>10, FS_Injection
  <2>12. /\ Cardinality(Tokens(s)) \in Nat /\ Cardinality(Tokens(s)') \in Nat
         /\ totalProcessed \in Nat
    BY <2>10, <2>11, FS_CardinalityType DEF IInv, Shape
  <2> QED BY <2>10, <2>11, <2>12
<1>9. ASSUME Regular(r)' PROVE Account(r)' /\ Round(r)'
  <2>1. Account(r) /\ Round(r) /\ active \in Models
    BY <1>1, <1>2, <1>6, <1>9 DEF Regular, Counting, Books, Accounts, IInv, Shape
  <2>2. Taken(r)' = Taken(r)
    BY <1>1, <1>2, <1>6 DEF Taken, Past
  <2>3. run[r].counted \subseteq Nodes /\ IsFiniteSet(run[r].counted)
    BY OfRun, NodePlaces, FS_Subset DEF RunStates
  <2>4. run[r].recent \in Nat /\ run[r].fetched \in Nat
    BY OfRun DEF RunStates
  <2>5. Account(r)'
    <3>1. run'[r].set = active' /\ Cardinality(Taken(r)') = run'[r].recent + run'[r].fetched
      BY <1>1, <1>2, <1>6, <2>1, <2>2, <2>4 DEF Account
    <3>2. \A n \in run'[r].behind : n \in run'[r].counted /\ Past(n)'
      BY <1>1, <1>2, <1>6, <2>1 DEF Account, Past
    <3>3. \A n \in DOMAIN run'[r].batch : Past(n)'
      BY <1>2, <1>6, <1>7
    <3>4. \A n \in run'[r].counted :
            graph'.row[n] # 0 /\ (~Past(n)' => graph'.vec[active'][n] = NoVector)
      <4> SUFFICES ASSUME NEW n \in run[r].counted
                   PROVE  graph.row[n] # 0 /\ (~Past(n) => graph'.vec[active][n] = NoVector)
        BY <1>1, <1>2, <1>4, <1>6 DEF Past
      <4>1. /\ graph.row[n] # 0 /\ (~Past(n) => graph.vec[active][n] = NoVector)
            /\ ~Past(n) => n \notin DOMAIN batch
        BY <2>1 DEF Account
      <4> QED BY <4>1, <1>4, <2>1, <2>3
    <3>5. \A n \in Taken(r) :
            graph'.vec[active][n] # NoVector \/ n \in run[r].skipped
      BY <1>4, <1>5, <2>1, <2>3 DEF Account, Taken
    <3> QED BY <1>1, <1>2, <1>6, <2>2, <3>1, <3>2, <3>3, <3>4, <3>5 DEF Account
  <2>6. ASSUME to = "finish", NEW n \in run[r].counted PROVE Past(n)
    <3>1. recent >= NumNotProc(r)
      BY <2>6 DEF to
    <3>2. Taken(r) \in SUBSET run[r].counted /\ Cardinality(Taken(r)) = recent
      BY <2>1 DEF Taken, Account
    <3>3. /\ IsFiniteSet(Taken(r)) /\ Cardinality(Taken(r)) <= Cardinality(run[r].counted)
          /\ Cardinality(run[r].counted) = Cardinality(Taken(r)) => run[r].counted = Taken(r)
      BY <2>3, <3>2, FS_Subset
    <3>4. Cardinality(Taken(r)) \in Nat /\ Cardinality(run[r].counted) \in Nat
      BY <2>3, <3>3, FS_CardinalityType
    <3>5. n \in Taken(r)
      BY <3>1, <3>2, <3>3, <3>4 DEF NumNotProc
    <3> QED BY <3>5 DEF Taken
  <2>7. Round(r)'
    <3>1. \A n \in run[r].counted : ~(KindOf[n] < 1)
      <4> SUFFICES ASSUME NEW n \in run[r].counted PROVE ~(KindOf[n] < 1)
        OBVIOUS
      <4>1. n \in Nodes /\ KindOf \in [Nodes -> 1 .. Kinds] /\ Kinds \in Nat
        BY <2>3, GraphAssumption
      <4>2. KindOf[n] \in 1 .. Kinds
        BY <4>1
      <4> QED BY <4>1, <4>2
    <3> QED BY <1>1, <1>2, <1>3, <1>6, <2>6, <3>1 DEF Round, Past
  <2> QED BY <2>5, <2>7
<1>10. Books'
  BY <1>1, <1>2, <1>3, <1>8, <1>9, OwnAccounts DEF AtWork
<1> QED BY <1>1, <1>2, <1>3, <1>10, GoingOn

\* A batch that fails: the run owes nothing more.
LEMMA BatchFailsAccounts ==
  ASSUME IInv, Books, NEW r \in Runs, BatchFails(r)
  PROVE  Books' /\ Reports
<1>1. run[r].pc = "embed" /\ End(r, "Failed") /\ UNCHANGED <<graph, totalProcessed>>
  BY DEF BatchFails, taskVars
<1> QED BY <1>1, EndAccounts DEF AtWork, Statuses, End

\* So does one that ends with an error.
LEMMA ErrorsAccount ==
  ASSUME IInv, Books, NEW r \in Runs, QueryFails(r) \/ SeedFails(r)
  PROVE  Books' /\ Reports
<1>1. /\ run[r].pc \in {"count", "query", "complete"} /\ Over(r, "Failed")
      /\ UNCHANGED <<graph, totalProcessed>>
  BY DEF QueryFails, SeedFails, End, taskVars
<1> QED BY <1>1, EndAccounts DEF AtWork, Statuses

\* If everything that was counted had a vector, the tally would cover it.
LEMMA FinishAccounts ==
  ASSUME IInv, Books, NEW r \in Runs, Finish(r)
  PROVE  Books' /\ Reports
<1> DEFINE x == [run[r] EXCEPT !.pc = "complete"]
<1>1. run[r].pc = "finish" /\ UNCHANGED <<graph, active, cursors, totalProcessed>>
  BY DEF Finish, modelVars, taskVars
<1>2. CASE Step(r, x)
  <2>1. /\ x.pc = "complete" /\ x.counted = run[r].counted
        /\ x.set = run[r].set /\ x.behind = run[r].behind /\ x.skipped = run[r].skipped
        /\ x.recent = run[r].recent /\ x.fetched = run[r].fetched
        /\ x.batch = run[r].batch /\ x.alone = run[r].alone /\ x.crowded = run[r].crowded
        /\ x.switched = run[r].switched
    BY OfRun DEF RunStates
  <2> HIDE DEF x
  <2>2. run'[r] = x
    BY <1>2 DEF Step, IInv, Shape
  <2>3. Tally'
    BY <1>1, <1>2, <2>1, StepTally
  <2>4. ASSUME Regular(r)' PROVE Account(r)' /\ Round(r)'
    <3>1. Account(r) /\ Round(r)
      BY <1>1, <2>1, <2>2, <2>4 DEF Regular, Counting, Books, Accounts
    <3>2. Taken(r)' = Taken(r)
      BY <1>1, <2>1, <2>2 DEF Taken, Past
    <3>3. Account(r)'
      BY <1>1, <2>1, <2>2, <3>1, <3>2 DEF Account, Past
    <3>4. Round(r)'
      BY <1>1, <2>1, <2>2, <3>1 DEF Round, Past
    <3> QED BY <3>3, <3>4
  <2>5. Books'
    BY <1>1, <1>2, <2>1, <2>3, <2>4, OwnAccounts DEF AtWork
  <2> QED BY <1>2, <2>1, <2>5, GoingOn
<1>3. CASE End(r, "Cancelled") /\ ~(totalProcessed >= NumNotProc(r))
  <2> DEFINE s == run[r].set
             f == [n \in run[r].counted |-> <<NoRun, n>>]
  <2>1. ASSUME Unembedded(r) = {} PROVE FALSE
    <3>1. run[r].counted \subseteq Nodes /\ s \in Models
      BY OfRun DEF RunStates
    <3>2. \A n \in run[r].counted : f[n] \in Tokens(s)
      BY <2>1, <3>1 DEF Unembedded, Tokens, Holds
    <3>3. f \in Injection(run[r].counted, Tokens(s))
      <4>1. \A m, n \in run[r].counted : f[m] = f[n] => m = n
        OBVIOUS
      <4> QED BY <3>2, <4>1 DEF Injection, IsInjective
    <3>4. IsFiniteSet(Tokens(s)) /\ Cardinality(Tokens(s)) <= totalProcessed
      BY <3>1 DEF Books, Tally
    <3> HIDE DEF f
    <3>5. IsFiniteSet(run[r].counted) /\ Cardinality(run[r].counted) <= Cardinality(Tokens(s))
      BY <3>3, <3>4, FS_Injection
    <3>6. /\ Cardinality(Tokens(s)) \in Nat /\ NumNotProc(r) \in Nat /\ totalProcessed \in Nat
      BY <3>4, <3>5, FS_CardinalityType DEF IInv, Shape, NumNotProc
    <3> QED BY <1>3, <3>4, <3>5, <3>6 DEF NumNotProc
  <2> QED BY <1>1, <1>3, <2>1, EndAccounts DEF AtWork, Statuses, End
<1> QED BY <1>2, <1>3 DEF Finish

\* At the end of a regular run every node it counted is taken or was behind.
LEMMA CompleteAccount ==
  ASSUME IInv, Books, NEW r \in Runs, Complete(r)
  PROVE  Books' /\ Reports
<1>1. run[r].pc = "complete" /\ End(r, "Completed") /\ UNCHANGED <<graph, totalProcessed>>
  BY DEF Complete, modelVars
<1>2. ASSUME run[r].alone /\ ~run[r].crowded /\ ~run[r].switched, NEW n \in Unembedded(r)
      PROVE  n \in run[r].behind \cup run[r].skipped
  <2>1. Account(r) /\ Round(r)
    BY <1>1, <1>2 DEF Regular, Counting, Books, Accounts
  <2>2. DOMAIN run[r].batch = {}
    <3>1. run[r].fetched = 0
      BY <1>1, <2>1 DEF Round
    <3>2. IsFiniteSet(DOMAIN run[r].batch) /\ Cardinality(DOMAIN run[r].batch) <= 0
      BY <3>1, OfRun DEF BatchSound
    <3>3. Cardinality(DOMAIN run[r].batch) = 0
      BY <3>2, FS_CardinalityType
    <3> QED BY <3>2, <3>3, FS_EmptySet
  <2>3. Past(n) /\ n \in run[r].counted /\ graph.vec[active][n] = NoVector
    BY <1>1, <2>1 DEF Round, Account, Unembedded
  <2> QED BY <2>1, <2>2, <2>3 DEF Account, Taken
<1> QED BY <1>1, <1>2, EndAccounts DEF AtWork, Statuses, End

(***************************************************************************)
(* The theorems.                                                           *)
(***************************************************************************)

\* The books are kept, and every report is by the books.
THEOREM BooksAreKept == Spec => [](IInv /\ Books) /\ [][Reports]_vars
<1>1. Init => Books
  <2> SUFFICES ASSUME Init PROVE Books
    OBVIOUS
  <2>1. \A r \in Runs : run[r] = NewRun
    BY DEF Init
  <2>2. (\A r \in Runs : Fresh(r)) /\ Accounts
    BY <2>1 DEF Fresh, Accounts, Regular, Counting, NewRun
  <2>3. \A s \in Models : Tokens(s) = {}
    <3>1. \A s \in Models, n \in Nodes : graph.vec[s][n] = NoVector
      BY DEF Init, EmptyGraph
    <3>2. \A r \in Runs : Pending(r) = {}
      BY <2>1 DEF Pending, NewRun
    <3> QED BY <3>1, <3>2 DEF Tokens, Holds
  <2>4. Tally
    <3>1. totalProcessed = 0 /\ IsFiniteSet({}) /\ Cardinality({}) = 0
      BY FS_EmptySet DEF Init
    <3> QED BY <2>3, <3>1 DEF Tally
  <2> QED BY <2>2, <2>4 DEF Books
<1>2. ASSUME IInv, Books, [Next]_vars
      PROVE  Books' /\ Reports
  <2>1. CASE \/ UNCHANGED vars \/ (\E f \in Files : Edit(f))
             \/ StartScan("scan") \/ StartScan("update") \/ UpdateReturns \/ SwitchProcessor
             \/ \E r \in Runs :
                  WrapperHears(r) \/ WrapperJoins(r) \/ WrapperDisconnected(r) \/ ThreadEnds(r)
    BY <1>2, <2>1, ApartAre
  <2>2. CASE \E r \in Runs : Index(r) \/ ReIndex(r) \/ UpdateIndex(r)
    BY <1>2, <2>2, StartsAccount
  <2>3. CASE ScanParse \/ ScanRetract \/ \E m \in Models : SwitchSet(m)
    BY <1>2, <2>3, ScansAccount, SwitchAccounts
  <2>4. CASE \E r \in Runs : Parse(r) \/ Count(r) \/ ReadCursor(r) \/ FetchKind(r)
    BY <1>2, <2>4, ParseAccounts, CountAccounts, ReadCursorAccounts, FetchKindAccounts
  <2>5. CASE \E r \in Runs : EndBatch(r) \/ ReadSnippets(r) \/ WriteVectors(r)
    BY <1>2, <2>5, EndBatchAccounts, ReadSnippetsAccounts, WriteVectorsAccounts
  <2>6. CASE \E r \in Runs : \/ BatchFails(r) \/ Finish(r) \/ Complete(r)
                             \/ QueryFails(r) \/ SeedFails(r)
    BY <1>2, <2>6, BatchFailsAccounts, FinishAccounts, CompleteAccount, ErrorsAccount
  <2> QED BY <1>2, <2>1, <2>2, <2>3, <2>4, <2>5, <2>6 DEF Next
<1> QED BY Invariance, <1>1, <1>2, PTL DEF Spec

\* A run that reports Completed accounts for each node it counted, whatever edits, scans
\* and wrappers did meanwhile.
THEOREM CompletedRunsAccount == Spec => CompletedAccounts
<1>1. Reports => \A r \in Runs :
        Ends(r, "Completed") /\ run[r].alone /\ ~run[r].crowded /\ ~run[r].switched =>
          Unembedded(r) \subseteq run[r].behind \cup run[r].skipped
  BY DEF Reports
<1> QED BY BooksAreKept, <1>1, PTL DEF CompletedAccounts

\* A run that reports Cancelled has left something undone, however many runs share the tally.
THEOREM CancelledRunsAreHonest == Spec => CancelledIsHonest
<1>1. Reports => \A r \in Runs : Ends(r, "Cancelled") => Unembedded(r) # {}
  BY DEF Reports
<1> QED BY BooksAreKept, <1>1, PTL DEF CancelledIsHonest

=============================================================================
