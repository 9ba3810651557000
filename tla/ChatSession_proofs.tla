-------------------------- MODULE ChatSession_proofs --------------------------
(***************************************************************************)
(* What is proved of ChatSession: the conversation that goes back to the   *)
(* model is complete and each answer in it is of its own step, for any     *)
(* batches, channel, limits and cancellations.                             *)
(***************************************************************************)
EXTENDS ChatSession, FiniteSetTheorems, TLAPS

Events == [call : Calls, step : Steps] \cup {OtherEvent}
Replies == [step : Steps, call : Calls, got : Got \ {Pending}]

\* The parts of the state of which TypeOK says less than a proof needs.
Shape ==
  /\ TypeOK
  /\ retries \in [DOMAIN Limit -> Nat]
  /\ replies \in Seq(Replies) /\ inbox \in Seq(Events)

\* A step is under way only below the chain limit, for the loop counts every one.
BelowLimit == phase \in {"http", "collect", "join", "finish"} => chain < ChainLimit

\* No calls are known of a step that has not been asked yet.
AskedSoFar ==
  \A k \in Steps :
    /\ IsFiniteSet(asked[k])
    /\ k > chain \/ (k = chain /\ phase \in {"top", "http"}) => asked[k] = {}

\* A result that came from a tool is of the present step; between two batches there are no
\* results and no dispatcher, so that the step may change.
OwnResults == \A c \in Calls : result[c].from = "tool" => result[c] = Answer(chain)
BatchOver ==
  phase \in {"top", "http", "finish"} => ~listening /\ \A c \in Calls : result[c] = Pending
Collected == phase = "join" => \A c \in asked[chain] : result[c] # Pending

\* Something was shown when a response came, and the end is reported once.
Shown == phase \in {"collect", "join", "finish"} => placeholder # "pending"
NotOver == phase # "done" => ttl = 0 /\ outcome = "running"

\* The tool messages are of calls that were asked for, in steps that are over.
RepliesAsked ==
  \A i \in DOMAIN replies :
    /\ replies[i].call \in asked[replies[i].step]
    /\ replies[i].step <= chain
    /\ replies[i].step = chain => phase \in {"finish", "done"}
Appended(k) == k < chain \/ (k = chain /\ phase = "finish")
RepliedOnce ==
  \A k \in Steps : Appended(k) => \A c \in asked[k] : \E i \in DOMAIN replies : RepliesTo(k, c) = {i}
StepsInOrder == \A i, j \in DOMAIN replies : i < j => replies[i].step <= replies[j].step

Progressing == BelowLimit /\ AskedSoFar
Batch == OwnResults /\ BatchOver /\ Collected
Ending == Shown /\ NotOver /\ SessionClosed
RepliesSound == RepliesAsked /\ RepliedOnce /\ StepsInOrder /\ NoForeignAnswer

IInv == Shape /\ Progressing /\ Batch /\ Ending /\ RepliesSound


\* The limits are those of the constants.
LEMMA LimitsAreNumbers ==
  DOMAIN Limit = {"Length", "Error", "Timeout"} /\ \A k \in DOMAIN Limit : Limit[k] \in Nat
BY ConstantsAssumption DEF Limit

\* What is shown in the placeholder is one of its statuses.
LEMMA ShownStatus ==
  ASSUME NEW status \in {"completed", "error"}, Show(status),
         placeholder \in {"pending", "completed", "error"}
  PROVE  placeholder' \in {"completed", "error"}
BY DEF Show

\* A broadcast send leaves events in the channel, and no more than it can hold.
LEMMA SendKeepsInbox ==
  ASSUME NEW e \in Events, Send(e), inbox \in Seq(Events), Len(inbox) <= Cap
  PROVE  inbox' \in Seq(Events) /\ Len(inbox') <= Cap
<1>1. CASE ~listening
  BY <1>1 DEF Send
<1>2. CASE listening /\ Len(inbox) < Cap
  <2>1. inbox' = Append(inbox, e)
    BY <1>2 DEF Send
  <2> QED BY <2>1, <1>2, ConstantsAssumption
<1>3. CASE listening /\ Len(inbox) = Cap
  <2>1. inbox' = Append(Tail(inbox), e) /\ inbox # <<>>
    BY <1>3, ConstantsAssumption DEF Send
  <2>2. Tail(inbox) \in Seq(Events) /\ Len(Tail(inbox)) = Len(inbox) - 1
    BY <2>1
  <2> QED BY <2>1, <2>2, <1>3
<1> QED BY <1>1, <1>2, <1>3, ConstantsAssumption

\* SetToSeq lists each member of a finite set once.
LEMMA ListedOnce ==
  ASSUME NEW S, IsFiniteSet(S)
  PROVE  /\ Cardinality(S) \in Nat
         /\ SetToSeq(S) \in [1 .. Cardinality(S) -> S]
         /\ IsInjective(SetToSeq(S))
         /\ \A c \in S : \E j \in 1 .. Cardinality(S) : SetToSeq(S)[j] = c
<1> DEFINE n == Cardinality(S)
<1>1. n \in Nat /\ ExistsBijection(1 .. n, S)
  BY FS_CardinalityType
<1>2. \E f \in [1 .. n -> S] : IsInjective(f)
  BY <1>1 DEF ExistsBijection, Bijection, Injection
<1>3. SetToSeq(S) \in [1 .. n -> S] /\ IsInjective(SetToSeq(S))
  BY <1>2 DEF SetToSeq
<1>4. SetToSeq(S) \in Injection(1 .. n, S)
  BY <1>3 DEF Injection
<1>5. Cardinality(1 .. n) = n
  BY <1>1, FS_Interval
<1>6. SetToSeq(S) \in Surjection(1 .. n, S)
  BY <1>4, <1>5, FS_Injection
<1> QED BY <1>1, <1>3, <1>6 DEF Surjection

\* What AppendResults appends: a message of this step for each of its calls.
LEMMA MessagesAppended ==
  ASSUME Shape, AskedSoFar, Collected, AppendResults
  PROVE  \E n \in Nat : \E s \in [1 .. n -> asked[chain]] :
           /\ IsInjective(s) /\ \A c \in asked[chain] : \E j \in 1 .. n : s[j] = c
           /\ replies' \in Seq(Replies) /\ Len(replies') = Len(replies) + n
           /\ \A i \in 1 .. Len(replies) : replies'[i] = replies[i]
           /\ \A j \in 1 .. n : replies'[Len(replies) + j] = Reply(s[j])
<1> DEFINE S == asked[chain]
           n == Cardinality(S)
           s == SetToSeq(S)
           new == [i \in 1 .. n |-> Reply(s[i])]
<1>1. chain \in Steps /\ IsFiniteSet(S) /\ S \subseteq Calls
  BY DEF Shape, TypeOK, AskedSoFar
<1>2. /\ n \in Nat /\ s \in [1 .. n -> S] /\ IsInjective(s)
      /\ \A c \in S : \E j \in 1 .. n : s[j] = c
  BY <1>1, ListedOnce
<1>3. \A c \in S : Reply(c) \in Replies
  BY <1>1 DEF AppendResults, Collected, Reply, Replies, Shape, TypeOK
<1>4. new \in Seq(Replies) /\ Len(new) = n
  BY <1>2, <1>3
<1>5. replies' = replies \o new
  BY DEF AppendResults
<1>6. replies \in Seq(Replies)
  BY DEF Shape
<1> HIDE DEF s, n, S
<1>7. /\ replies' \in Seq(Replies) /\ Len(replies') = Len(replies) + n
      /\ \A i \in 1 .. Len(replies) : replies'[i] = replies[i]
      /\ \A j \in 1 .. n : replies'[Len(replies) + j] = new[j]
  BY <1>2, <1>4, <1>5, <1>6
<1> QED BY <1>2, <1>7 DEF S

\* IInv is there when the session begins.
LEMMA Initially == Init => IInv
<1> SUFFICES ASSUME Init PROVE IInv
  OBVIOUS
<1>1. Shape
  <2>1. retries \in [DOMAIN Limit -> Nat] /\ \A k \in DOMAIN Limit : retries[k] \in 0 .. Limit[k]
    BY LimitsAreNumbers DEF Init
  <2>2. result \in [Calls -> Got]
    BY DEF Init, Got
  <2>3. chain \in Steps /\ traffic \in 0 .. MaxTraffic /\ cancels \in 0 .. MaxCancels
    BY ConstantsAssumption DEF Init, Steps
  <2>4. replies \in Seq(Replies) /\ inbox \in Seq(Events) /\ Len(inbox) <= Cap /\ DOMAIN replies = {}
    BY ConstantsAssumption DEF Init
  <2>5. asked \in [Steps -> SUBSET Calls]
    BY DEF Init
  <2>6. tool \in [Steps -> [Calls -> {"none", "asked", "answered", "over"}]]
    BY DEF Init
  <2> QED BY <2>1, <2>2, <2>3, <2>4, <2>5, <2>6 DEF Init, Shape, TypeOK
<1>2. Progressing
  BY ConstantsAssumption, FS_EmptySet DEF Init, Progressing, BelowLimit, AskedSoFar, Steps
<1>3. Batch
  BY DEF Init, Batch, OwnResults, BatchOver, Collected, Pending
<1>4. Ending
  BY DEF Init, Ending, Shown, NotOver, SessionClosed
<1>5. RepliesSound
  BY DEF Init, RepliesSound, RepliesAsked, RepliedOnce, StepsInOrder, NoForeignAnswer, Steps, Appended
<1> QED BY <1>1, <1>2, <1>3, <1>4, <1>5 DEF IInv

\* Every step keeps the shape of the state.
LEMMA ShapeKept == IInv /\ [Next]_vars => Shape'
<1> SUFFICES ASSUME IInv, [Next]_vars PROVE Shape'
  OBVIOUS
<1>0. Shape /\ BelowLimit /\ Collected /\ AskedSoFar
  BY DEF IInv, Progressing, Batch
<1>1. CASE BeginStep
  <2>1. placeholder' \in {"pending", "completed", "error"}
    BY <1>0, <1>1, ShownStatus DEF BeginStep, Shape, TypeOK
  <2> QED BY <1>0, <1>1, <2>1 DEF BeginStep, End, Shape, TypeOK, batchVars, userVars
<1>2. CASE StepFails
  <2>1. placeholder' \in {"completed", "error"}
    BY <1>0, <1>2, ShownStatus DEF StepFails, Shape, TypeOK
  <2> QED BY <1>0, <1>2, <2>1 DEF StepFails, End, Shape, TypeOK, batchVars, userVars
<1>3. CASE UnknownTool
  <2>1. placeholder' \in {"completed", "error"}
    BY <1>0, <1>3, ShownStatus DEF UnknownTool, Shape, TypeOK
  <2>2. chain' \in Steps
    BY <1>0, <1>3, ConstantsAssumption DEF UnknownTool, Shape, TypeOK, Steps, BelowLimit
  <2> QED BY <1>0, <1>3, <2>1, <2>2 DEF UnknownTool, Shape, TypeOK, batchVars, userVars
<1>4. CASE StepContent
  <2>1. placeholder' \in {"completed", "error"}
    BY <1>0, <1>4, ShownStatus DEF StepContent, Shape, TypeOK
  <2> QED BY <1>0, <1>4, <2>1 DEF StepContent, Shape, TypeOK, batchVars, userVars
<1>5. ASSUME NEW B \in Batches, StepToolCalls(B)
      PROVE  Shape'
  <2>1. placeholder' \in {"completed", "error"}
    BY <1>0, <1>5, ShownStatus DEF StepToolCalls, Shape, TypeOK
  <2>2. result' \in [Calls -> Got]
    BY <1>5 DEF StepToolCalls, Got
  <2>3. B \subseteq Calls /\ asked' \in [Steps -> SUBSET Calls]
    BY <1>0, <1>5, ConstantsAssumption DEF StepToolCalls, Shape, TypeOK
  <2>4. tool' \in [Steps -> [Calls -> {"none", "asked", "answered", "over"}]]
    BY <1>0, <1>5 DEF StepToolCalls, Shape, TypeOK
  <2>5. inbox' \in Seq(Events) /\ Len(inbox') <= Cap /\ traffic' \in 0 .. MaxTraffic
    BY <1>5, ConstantsAssumption DEF StepToolCalls
  <2> QED BY <1>0, <1>5, <2>1, <2>2, <2>3, <2>4, <2>5 DEF StepToolCalls, Shape, TypeOK, userVars
<1>6. ASSUME NEW c \in Calls, CallTimesOut(c)
      PROVE  Shape'
  <2>1. result' \in [Calls -> Got]
    BY <1>0, <1>6 DEF CallTimesOut, Got, Shape, TypeOK
  <2> QED BY <1>0, <1>6, <2>1 DEF CallTimesOut, Shape, TypeOK, sessionVars, userVars
<1>7. CASE AllCollected
  BY <1>0, <1>7 DEF AllCollected, Shape, TypeOK, batchVars, userVars
<1>8. CASE AppendResults
  <2>1. result' \in [Calls -> Got]
    BY <1>8 DEF AppendResults, Got
  <2>2. replies' \in Seq(Replies) /\ \A i \in DOMAIN replies' : replies'[i] \in Replies
    BY <1>0, <1>8, MessagesAppended
  <2>3. \A i \in DOMAIN replies' : replies'[i].call \in Calls /\ replies'[i].got \in Got \ {Pending}
    BY <2>2 DEF Replies
  <2> QED BY <1>0, <1>8, <2>1, <2>2, <2>3 DEF AppendResults, Shape, TypeOK, userVars
<1>9. CASE Cancelled
  <2>1. placeholder' \in {"completed", "error"}
    BY <1>0, <1>9, ShownStatus DEF Cancelled, Shape, TypeOK
  <2> QED BY <1>0, <1>9, <2>1 DEF Cancelled, End, Shape, TypeOK, batchVars, userVars
<1>10. ASSUME NEW reason \in Reasons, FinishContinues(reason)
       PROVE  Shape'
  <2>1. chain' \in Steps
    BY <1>0, <1>10, ConstantsAssumption DEF FinishContinues, Shape, TypeOK, Steps, BelowLimit
  <2>2. retries' \in [DOMAIN Limit -> Nat] /\ \A k \in DOMAIN Limit : retries'[k] \in 0 .. Limit[k]
    BY <1>0, <1>10, LimitsAreNumbers DEF FinishContinues, MayRetry, Shape, TypeOK
  <2> QED BY <1>0, <1>10, <2>1, <2>2 DEF FinishContinues, Shape, TypeOK, batchVars, userVars
<1>11. ASSUME NEW reason \in Reasons, FinishCompletes(reason)
       PROVE  Shape'
  BY <1>0, <1>11 DEF FinishCompletes, End, Shape, TypeOK, batchVars, userVars
<1>12. ASSUME NEW reason \in Reasons, FinishExhausted(reason)
       PROVE  Shape'
  <2>1. placeholder' \in {"completed", "error"}
    BY <1>0, <1>12, ShownStatus DEF FinishExhausted, Shape, TypeOK
  <2> QED BY <1>0, <1>12, <2>1 DEF FinishExhausted, End, Shape, TypeOK, batchVars, userVars
<1>13. CASE Dispatch
  <2>1. inbox' \in Seq(Events) /\ Len(inbox') <= Cap
    BY <1>0, <1>13, ConstantsAssumption DEF Dispatch, Shape, TypeOK
  <2>2. result' \in [Calls -> Got] /\ waiters' \subseteq Calls /\ listening' \in BOOLEAN
    <3>1. CASE Head(inbox).step = chain
      <4>1. Answer(chain) \in Got
        BY <1>0 DEF Shape, TypeOK, Got
      <4>2. waiters' = waiters \ {Head(inbox).call} /\ listening' = (waiters' # {})
        BY <1>13, <3>1 DEF Dispatch
      <4>3. result' = result \/ result' = [result EXCEPT ![Head(inbox).call] = Answer(chain)]
        BY <1>13, <3>1 DEF Dispatch
      <4>4. result' \in [Calls -> Got]
        BY <1>0, <4>1, <4>3 DEF Shape, TypeOK
      <4> QED BY <1>0, <4>2, <4>4 DEF Shape, TypeOK
    <3>2. CASE Head(inbox).step # chain
      BY <1>0, <1>13, <3>2 DEF Dispatch, Shape, TypeOK
    <3> QED BY <3>1, <3>2
  <2> QED BY <1>0, <1>13, <2>1, <2>2 DEF Dispatch, Shape, TypeOK, sessionVars, userVars
<1>14. ASSUME NEW c \in Calls, NEW k \in Steps, Tool(c, k) \/ ToolAnswersAgain(c, k)
       PROVE  Shape'
  <2>1. tool' \in [Steps -> [Calls -> {"none", "asked", "answered", "over"}]]
    <3> DEFINE Task == {"none", "asked", "answered", "over"}
    <3>1. tool \in [Steps -> [Calls -> Task]]
      BY <1>0 DEF Shape, TypeOK
    <3>2. \E v \in Task : tool' = [tool EXCEPT ![k][c] = v]
      BY <1>14 DEF Tool, ToolAnswers, ToolSilent, ToolAnswersAgain
    <3> HIDE DEF Task
    <3>3. tool' \in [Steps -> [Calls -> Task]]
      BY <3>1, <3>2
    <3> QED BY <3>3 DEF Task
  <2>2. inbox' \in Seq(Events) /\ Len(inbox') <= Cap /\ missing' \in BOOLEAN
    <3>1. Event(c, k) \in Events
      BY DEF Event, Events
    <3>2. CASE ToolSilent(c, k)
      BY <1>0, <3>2 DEF ToolSilent, Shape, TypeOK
    <3>3. CASE Send(Event(c, k))
      BY <1>0, <3>1, <3>3, SendKeepsInbox DEF Send, Shape, TypeOK
    <3> QED BY <1>14, <3>2, <3>3 DEF Tool, ToolAnswers, ToolAnswersAgain
  <2>3. UNCHANGED <<sessionVars, result, waiters, listening, traffic, userVars>>
    BY <1>14 DEF Tool, ToolAnswers, ToolSilent, ToolAnswersAgain
  <2> QED BY <1>0, <2>1, <2>2, <2>3 DEF Shape, TypeOK, sessionVars, userVars
<1>15. CASE OtherTraffic
  <2>1. inbox' \in Seq(Events) /\ Len(inbox') <= Cap /\ missing' \in BOOLEAN
    BY <1>0, <1>15, SendKeepsInbox DEF OtherTraffic, Events, Send, Shape, TypeOK
  <2>2. traffic' \in 0 .. MaxTraffic
    BY <1>0, <1>15, ConstantsAssumption DEF OtherTraffic, Shape, TypeOK
  <2> QED BY <1>0, <1>15, <2>1, <2>2 DEF OtherTraffic, Shape, TypeOK, sessionVars, userVars
<1>16. CASE PressEsc
  <2>1. cancels' \in 0 .. MaxCancels
    BY <1>0, <1>16, ConstantsAssumption DEF PressEsc, Shape, TypeOK
  <2> QED BY <1>0, <1>16, <2>1 DEF PressEsc, Shape, TypeOK, sessionVars, batchVars
<1>17. CASE SubmitAgain
  BY <1>0, <1>17 DEF SubmitAgain, Shape, TypeOK, sessionVars, batchVars
<1>18. CASE UNCHANGED vars
  BY <1>0, <1>18 DEF Shape, TypeOK, vars, sessionVars, batchVars, userVars
<1> QED
  BY <1>1, <1>2, <1>3, <1>4, <1>5, <1>6, <1>7, <1>8, <1>9, <1>10, <1>11, <1>12, <1>13, <1>14,
     <1>15, <1>16, <1>17, <1>18 DEF Next, Session

\* The steps of the dispatcher, the timers, the tools and the user are not the loop's.
Loop ==
  \/ BeginStep \/ StepFails \/ UnknownTool \/ StepContent
  \/ \E B \in Batches : StepToolCalls(B)
  \/ AllCollected \/ AppendResults \/ Cancelled
  \/ \E reason \in Reasons :
       FinishContinues(reason) \/ FinishCompletes(reason) \/ FinishExhausted(reason)

LEMMA LoopOrNot == [Next]_vars => Loop \/ UNCHANGED sessionVars
BY DEF Next, Session, Loop, vars, CallTimesOut, Dispatch, Tool, ToolAnswers, ToolSilent,
       ToolAnswersAgain, OtherTraffic, PressEsc, SubmitAgain

\* The loop stays below the chain limit, and knows calls only of steps it has begun.
LEMMA ProgressKept == IInv /\ [Next]_vars => Progressing'
<1> SUFFICES ASSUME IInv, [Next]_vars PROVE Progressing'
  OBVIOUS
<1>0. /\ Shape /\ BelowLimit /\ AskedSoFar
      /\ chain \in 0 .. ChainLimit /\ ChainLimit \in Nat /\ asked \in [Steps -> SUBSET Calls]
  BY ConstantsAssumption DEF IInv, Progressing, Shape, TypeOK, Steps
<1>1. CASE UNCHANGED sessionVars
  BY <1>0, <1>1 DEF Progressing, BelowLimit, AskedSoFar, sessionVars
<1>2. CASE BeginStep
  BY <1>0, <1>2 DEF BeginStep, End, Progressing, BelowLimit, AskedSoFar, Steps
<1>3. CASE StepFails \/ StepContent \/ AllCollected \/ AppendResults \/ Cancelled
  BY <1>0, <1>3 DEF StepFails, StepContent, AllCollected, AppendResults, Cancelled, End, Progressing,
     BelowLimit, AskedSoFar, Steps
<1>4. CASE UnknownTool
  BY <1>0, <1>4 DEF UnknownTool, Progressing, BelowLimit, AskedSoFar, Steps
<1>5. ASSUME NEW B \in Batches, StepToolCalls(B)
      PROVE  Progressing'
  <2>1. IsFiniteSet(B)
    BY ConstantsAssumption
  <2> QED BY <1>0, <1>5, <2>1 DEF StepToolCalls, Progressing, BelowLimit, AskedSoFar, Steps
<1>6. ASSUME NEW reason \in Reasons,
             FinishContinues(reason) \/ FinishCompletes(reason) \/ FinishExhausted(reason)
      PROVE  Progressing'
  BY <1>0, <1>6 DEF FinishContinues, FinishCompletes, FinishExhausted, End, Progressing, BelowLimit,
     AskedSoFar, Steps
<1> QED BY <1>1, <1>2, <1>3, <1>4, <1>5, <1>6, LoopOrNot DEF Loop

\* Results stay with the batch they are of.
LEMMA BatchKept == IInv /\ [Next]_vars => Batch'
<1> SUFFICES ASSUME IInv, [Next]_vars PROVE Batch'
  OBVIOUS
<1>0. OwnResults /\ BatchOver /\ Collected /\ chain \in Steps /\ result \in [Calls -> Got]
      /\ asked \in [Steps -> SUBSET Calls]
  BY DEF IInv, Batch, Shape, TypeOK
<1>1. CASE BeginStep \/ StepFails \/ StepContent \/ Cancelled
  BY <1>0, <1>1 DEF BeginStep, StepFails, StepContent, Cancelled, End, Batch, OwnResults, BatchOver,
     Collected, batchVars
<1>2. CASE UnknownTool \/ \E reason \in Reasons :
             FinishContinues(reason) \/ FinishCompletes(reason) \/ FinishExhausted(reason)
  BY <1>0, <1>2 DEF UnknownTool, FinishContinues, FinishCompletes, FinishExhausted, End, Batch,
     OwnResults, BatchOver, Collected, batchVars, Pending
<1>3. ASSUME NEW B \in Batches, StepToolCalls(B)
      PROVE  Batch'
  BY <1>3 DEF StepToolCalls, Batch, OwnResults, BatchOver, Collected, Pending
<1>4. ASSUME NEW c \in Calls, CallTimesOut(c)
      PROVE  Batch'
  BY <1>0, <1>4 DEF CallTimesOut, Batch, OwnResults, BatchOver, Collected, TimedOut, Pending,
     sessionVars
<1>5. CASE AllCollected
  BY <1>0, <1>5 DEF AllCollected, Batch, OwnResults, BatchOver, Collected, batchVars
<1>6. CASE AppendResults
  BY <1>6 DEF AppendResults, Batch, OwnResults, BatchOver, Collected, Pending
<1>7. CASE Dispatch
  <2>1. UNCHANGED <<phase, chain, asked>> /\ listening
    BY <1>7 DEF Dispatch, sessionVars
  <2>2. \A c \in Calls : result'[c] = result[c] \/ (result[c] = Pending /\ result'[c] = Answer(chain))
    BY <1>0, <1>7 DEF Dispatch
  <2>3. Answer(chain) # Pending
    BY DEF Answer, Pending
  <2> QED BY <1>0, <2>1, <2>2, <2>3 DEF Batch, OwnResults, BatchOver, Collected
<1>8. CASE UNCHANGED <<sessionVars, result, listening>>
  BY <1>0, <1>8 DEF Batch, OwnResults, BatchOver, Collected, sessionVars
<1>9. CASE \/ \E c \in Calls, k \in Steps : Tool(c, k) \/ ToolAnswersAgain(c, k)
           \/ OtherTraffic \/ PressEsc \/ SubmitAgain \/ UNCHANGED vars
  BY <1>8, <1>9 DEF Tool, ToolAnswers, ToolSilent, ToolAnswersAgain, OtherTraffic, PressEsc,
     SubmitAgain, vars, batchVars
<1> QED BY <1>1, <1>2, <1>3, <1>4, <1>5, <1>6, <1>7, <1>9 DEF Next, Session

\* The session ends once, with something shown.
LEMMA EndingKept == IInv /\ [Next]_vars => Ending'
<1> SUFFICES ASSUME IInv, [Next]_vars PROVE Ending'
  OBVIOUS
<1>0. /\ Shown /\ NotOver /\ SessionClosed /\ ttl \in Nat
      /\ placeholder \in {"pending", "completed", "error"}
  BY DEF IInv, Ending, Shape, TypeOK
<1>1. CASE UNCHANGED sessionVars
  BY <1>0, <1>1 DEF Ending, Shown, NotOver, SessionClosed, sessionVars
<1>2. CASE BeginStep
  BY <1>0, <1>2 DEF BeginStep, End, Show, Ending, Shown, NotOver, SessionClosed
<1>3. CASE StepFails \/ UnknownTool \/ StepContent \/ AllCollected \/ AppendResults \/ Cancelled
  BY <1>0, <1>3 DEF StepFails, UnknownTool, StepContent, AllCollected, AppendResults, Cancelled, End,
     Show, Ending, Shown, NotOver, SessionClosed
<1>4. ASSUME NEW B \in Batches, StepToolCalls(B)
      PROVE  Ending'
  BY <1>0, <1>4 DEF StepToolCalls, Show, Ending, Shown, NotOver, SessionClosed
<1>5. ASSUME NEW reason \in Reasons,
             FinishContinues(reason) \/ FinishCompletes(reason) \/ FinishExhausted(reason)
      PROVE  Ending'
  BY <1>0, <1>5 DEF FinishContinues, FinishCompletes, FinishExhausted, End, Show, Ending, Shown,
     NotOver, SessionClosed
<1> QED BY <1>1, <1>2, <1>3, <1>4, <1>5, LoopOrNot DEF Loop

\* The batch's messages complete the conversation of its step.
LEMMA AppendCompletes == IInv /\ AppendResults => RepliesSound'
<1> SUFFICES ASSUME IInv, AppendResults PROVE RepliesSound'
  OBVIOUS
<1>0. Shape /\ AskedSoFar /\ Collected /\ OwnResults /\ RepliesAsked /\ RepliedOnce /\ StepsInOrder
      /\ NoForeignAnswer
  BY DEF IInv, Progressing, Batch, RepliesSound
<1>1. /\ chain \in Nat /\ chain \in Steps /\ replies \in Seq(Replies)
      /\ asked \in [Steps -> SUBSET Calls]
      /\ phase = "join" /\ phase' = "finish" /\ UNCHANGED <<chain, asked>>
  BY <1>0 DEF AppendResults, Shape, TypeOK, Steps
<1>2. PICK n \in Nat : \E s \in [1 .. n -> asked[chain]] :
           /\ IsInjective(s) /\ \A c \in asked[chain] : \E j \in 1 .. n : s[j] = c
           /\ replies' \in Seq(Replies) /\ Len(replies') = Len(replies) + n
           /\ \A i \in 1 .. Len(replies) : replies'[i] = replies[i]
           /\ \A j \in 1 .. n : replies'[Len(replies) + j] = Reply(s[j])
  BY <1>0, MessagesAppended
<1>3. PICK s \in [1 .. n -> asked[chain]] :
           /\ IsInjective(s) /\ \A c \in asked[chain] : \E j \in 1 .. n : s[j] = c
           /\ replies' \in Seq(Replies) /\ Len(replies') = Len(replies) + n
           /\ \A i \in 1 .. Len(replies) : replies'[i] = replies[i]
           /\ \A j \in 1 .. n : replies'[Len(replies) + j] = Reply(s[j])
  BY <1>2
<1> DEFINE old == Len(replies)
<1>4. /\ old \in Nat /\ DOMAIN replies = 1 .. old /\ DOMAIN replies' = 1 .. (old + n)
      /\ \A i \in 1 .. old : replies[i] \in Replies /\ replies'[i] = replies[i]
  BY <1>1, <1>3
<1>5. \A j \in 1 .. n : /\ replies'[old + j].step = chain /\ replies'[old + j].call = s[j]
                        /\ replies'[old + j].got = result[s[j]]
  <2> SUFFICES ASSUME NEW j \in 1 .. n
               PROVE  /\ replies'[old + j].step = chain /\ replies'[old + j].call = s[j]
                      /\ replies'[old + j].got = result[s[j]]
    OBVIOUS
  <2>1. replies'[old + j] = Reply(s[j])
    BY <1>3
  <2> QED BY <2>1 DEF Reply
<1>6. \A i \in 1 .. old : replies[i].step \in Nat /\ replies[i].step < chain
                         /\ replies[i].call \in asked[replies[i].step]
  BY <1>0, <1>1, <1>4 DEF RepliesAsked, Replies, Steps
<1>7. \A i \in 1 .. (old + n) : i \in 1 .. old \/ \E j \in 1 .. n : i = old + j
  <2> SUFFICES ASSUME NEW i \in 1 .. (old + n), i \notin 1 .. old PROVE \E j \in 1 .. n : i = old + j
    OBVIOUS
  <2>1. i - old \in 1 .. n /\ i = old + (i - old)
    BY <1>4
  <2> QED BY <2>1
<1> HIDE DEF old
<1>8. RepliesAsked'
  <2> SUFFICES ASSUME NEW i \in DOMAIN replies'
               PROVE  /\ replies'[i].call \in asked[replies'[i].step]
                      /\ replies'[i].step <= chain
    BY <1>1 DEF RepliesAsked
  <2>1. CASE i \in 1 .. old
    BY <1>1, <1>4, <1>6, <2>1
  <2>2. ASSUME NEW j \in 1 .. n, i = old + j
        PROVE  replies'[i].call \in asked[replies'[i].step] /\ replies'[i].step <= chain
    <3>1. s[j] \in asked[chain]
      OBVIOUS
    <3> QED BY <1>1, <1>5, <2>2, <3>1
  <2> QED BY <1>4, <1>7, <2>1, <2>2
<1>9. RepliedOnce'
  <2> SUFFICES ASSUME NEW k \in Steps, Appended(k)', NEW c \in asked[k]
               PROVE  \E i \in DOMAIN replies' : RepliesTo(k, c)' = {i}
    BY <1>1 DEF RepliedOnce
  <2>1. CASE k < chain
    <3>1. PICK i \in DOMAIN replies : RepliesTo(k, c) = {i}
      BY <1>0, <2>1 DEF RepliedOnce, Appended
    <3>2. RepliesTo(k, c)' = RepliesTo(k, c)
      <4>1. \A l \in DOMAIN replies' : replies'[l].step = k => l \in 1 .. old
        BY <1>1, <1>4, <1>5, <1>7, <2>1
      <4>2. \A l \in 1 .. old : l \in DOMAIN replies' /\ replies'[l] = replies[l]
        BY <1>4
      <4> QED BY <1>4, <4>1, <4>2 DEF RepliesTo
    <3> QED BY <1>4, <3>1, <3>2
  <2>2. CASE k = chain
    <3>1. PICK j \in 1 .. n : s[j] = c
      BY <1>3, <2>2
    <3>2. \A l \in 1 .. n : s[l] = c => l = j
      BY <1>3, <3>1 DEF IsInjective
    <3>3. \A i \in DOMAIN replies' : replies'[i].step = chain /\ replies'[i].call = c <=> i = old + j
      <4>1. \A i \in 1 .. old : replies'[i].step # chain /\ i # old + j
        BY <1>1, <1>4, <1>6
      <4>2. \A l \in 1 .. n : old + l = old + j <=> l = j
        BY <1>4
      <4>3. \A l \in 1 .. n : replies'[old + l].call = c <=> l = j
        BY <1>5, <3>1, <3>2
      <4> SUFFICES ASSUME NEW i \in DOMAIN replies'
                   PROVE  replies'[i].step = chain /\ replies'[i].call = c <=> i = old + j
        OBVIOUS
      <4>4. CASE i \in 1 .. old
        BY <4>1, <4>4
      <4>5. ASSUME NEW l \in 1 .. n, i = old + l
            PROVE  replies'[i].step = chain /\ replies'[i].call = c <=> i = old + j
        BY <1>5, <4>2, <4>3, <4>5
      <4> QED BY <1>4, <1>7, <4>4, <4>5
    <3>4. old + j \in DOMAIN replies'
      BY <1>4
    <3>5. RepliesTo(k, c)' = {old + j}
      BY <2>2, <3>3, <3>4, <1>1 DEF RepliesTo
    <3> QED BY <3>4, <3>5
  <2> QED BY <1>1, <2>1, <2>2 DEF Appended, Steps
<1>10. StepsInOrder'
  <2> SUFFICES ASSUME NEW i \in DOMAIN replies', NEW j \in DOMAIN replies', i < j
               PROVE  replies'[i].step <= replies'[j].step
    BY DEF StepsInOrder
  <2>1. CASE j \in 1 .. old
    <3>1. i \in 1 .. old
      BY <1>4, <2>1
    <3> QED BY <1>0, <1>4, <2>1, <3>1 DEF StepsInOrder
  <2>2. CASE j \notin 1 .. old
    <3>1. PICK l \in 1 .. n : j = old + l
      BY <1>4, <1>7, <2>2
    <3>2. replies'[j].step = chain
      BY <1>5, <3>1
    <3>3. CASE i \in 1 .. old
      <4>1. replies'[i].step \in Nat /\ replies'[i].step < chain
        BY <1>4, <1>6, <3>3
      <4> QED BY <1>1, <3>2, <4>1
    <3>4. ASSUME NEW m \in 1 .. n, i = old + m
          PROVE  replies'[i].step <= replies'[j].step
      BY <1>1, <1>5, <3>2, <3>4
    <3> QED BY <1>4, <1>7, <3>3, <3>4
  <2> QED BY <2>1, <2>2
<1>11. NoForeignAnswer'
  <2> SUFFICES ASSUME NEW i \in DOMAIN replies', replies'[i].got.from = "tool"
               PROVE  replies'[i].got.step = replies'[i].step
    BY DEF NoForeignAnswer
  <2>1. CASE i \in 1 .. old
    BY <1>0, <1>4, <2>1 DEF NoForeignAnswer
  <2>2. ASSUME NEW j \in 1 .. n, i = old + j
        PROVE  replies'[i].got.step = replies'[i].step
    <3>1. s[j] \in Calls
      BY <1>1
    <3> QED BY <1>0, <1>5, <2>2, <3>1 DEF OwnResults, Answer
  <2> QED BY <1>4, <1>7, <2>1, <2>2
<1> QED BY <1>8, <1>9, <1>10, <1>11 DEF RepliesSound

\* Of the loop's steps only AppendResults adds tool messages: the others begin or end a
\* step all of whose calls have theirs.
LEMMA ConversationKept == IInv /\ [Next]_vars => RepliesSound'
<1> SUFFICES ASSUME IInv, [Next]_vars PROVE RepliesSound'
  OBVIOUS
<1>0. /\ RepliesAsked /\ RepliedOnce /\ StepsInOrder /\ NoForeignAnswer /\ AskedSoFar
      /\ chain \in Nat /\ chain \in Steps /\ asked \in [Steps -> SUBSET Calls]
      /\ \A i \in DOMAIN replies : replies[i].step \in Nat /\ replies[i].step \in Steps
  <2>1. \A i \in DOMAIN replies : replies[i] \in Replies
    BY DEF IInv, Shape
  <2>2. \A i \in DOMAIN replies : replies[i].step \in Nat /\ replies[i].step \in Steps
    BY <2>1 DEF Replies, Steps
  <2> QED BY <2>2 DEF IInv, RepliesSound, Progressing, Shape, TypeOK, Steps
<1>1. CASE UNCHANGED replies /\ UNCHANGED asked /\ UNCHANGED chain
           /\ (phase \in {"finish", "done"} => phase' \in {"finish", "done"})
           /\ (phase' = "finish" => phase \in {"http", "finish"})
  <2>1. \A k \in Steps : Appended(k)' => Appended(k) \/ asked[k] = {}
    BY <1>0, <1>1 DEF Appended, AskedSoFar
  <2>2. \A k \in Steps, c \in Calls : RepliesTo(k, c)' = RepliesTo(k, c)
    BY <1>1 DEF RepliesTo
  <2>3. RepliedOnce'
    <3> SUFFICES ASSUME NEW k \in Steps, Appended(k)', NEW c \in asked[k]
                 PROVE  \E i \in DOMAIN replies : RepliesTo(k, c)' = {i}
      BY <1>1 DEF RepliedOnce
    <3>1. c \in Calls /\ Appended(k)
      BY <1>0, <2>1
    <3>2. PICK i \in DOMAIN replies : RepliesTo(k, c) = {i}
      BY <1>0, <3>1 DEF RepliedOnce
    <3>3. RepliesTo(k, c)' = {i}
      BY <2>2, <3>1, <3>2
    <3> QED BY <3>3
  <2> QED BY <1>0, <1>1, <2>3 DEF RepliesSound, RepliesAsked, StepsInOrder, NoForeignAnswer
<1>2. CASE UNCHANGED replies /\ UNCHANGED asked /\ chain' = chain + 1 /\ phase \in {"http", "finish"}
  <2>1. \A k \in Steps : Appended(k)' => Appended(k) \/ asked[k] = {}
    BY <1>0, <1>2, ShapeKept DEF Appended, AskedSoFar, Steps, Shape, TypeOK
  <2>2. \A k \in Steps, c \in Calls : RepliesTo(k, c)' = RepliesTo(k, c)
    BY <1>2 DEF RepliesTo
  <2>3. RepliedOnce'
    <3> SUFFICES ASSUME NEW k \in Steps, Appended(k)', NEW c \in asked[k]
                 PROVE  \E i \in DOMAIN replies : RepliesTo(k, c)' = {i}
      BY <1>2 DEF RepliedOnce
    <3>1. c \in Calls /\ Appended(k)
      BY <1>0, <2>1
    <3>2. PICK i \in DOMAIN replies : RepliesTo(k, c) = {i}
      BY <1>0, <3>1 DEF RepliedOnce
    <3>3. RepliesTo(k, c)' = {i}
      BY <2>2, <3>1, <3>2
    <3> QED BY <3>3
  <2> QED BY <1>0, <1>2, <2>3 DEF RepliesSound, RepliesAsked, StepsInOrder, NoForeignAnswer
<1>3. ASSUME NEW B \in Batches, StepToolCalls(B)
      PROVE  RepliesSound'
  <2>1. /\ UNCHANGED <<replies, chain>> /\ phase = "http" /\ phase' = "collect"
        /\ asked' = [asked EXCEPT ![chain] = B]
    BY <1>3 DEF StepToolCalls
  <2>2. \A i \in DOMAIN replies : replies[i].step < chain
    BY <1>0, <2>1 DEF RepliesAsked
  <2>3. \A k \in Steps : k # chain => asked'[k] = asked[k]
    BY <1>0, <2>1
  <2>4. RepliesAsked'
    BY <1>0, <2>1, <2>2, <2>3 DEF RepliesAsked
  <2>5. RepliedOnce'
    BY <1>0, <2>1, <2>3 DEF RepliedOnce, Appended, RepliesTo, Steps
  <2> QED BY <1>0, <2>1, <2>4, <2>5 DEF RepliesSound, StepsInOrder, NoForeignAnswer
<1>4. CASE BeginStep \/ StepFails \/ StepContent \/ AllCollected \/ Cancelled
  BY <1>1, <1>4 DEF BeginStep, StepFails, StepContent, AllCollected, Cancelled, End
<1>5. CASE UnknownTool
  BY <1>2, <1>5 DEF UnknownTool
<1>6. ASSUME NEW reason \in Reasons,
             FinishContinues(reason) \/ FinishCompletes(reason) \/ FinishExhausted(reason)
      PROVE  RepliesSound'
  BY <1>1, <1>2, <1>6 DEF FinishContinues, FinishCompletes, FinishExhausted, End
<1>7. CASE AppendResults
  BY <1>7, AppendCompletes
<1>8. CASE UNCHANGED sessionVars
  BY <1>1, <1>8 DEF sessionVars
<1> QED BY <1>3, <1>4, <1>5, <1>6, <1>7, <1>8, LoopOrNot DEF Loop

(***************************************************************************)
(* The theorems.                                                           *)
(***************************************************************************)

\* IInv holds of every state of a session.
THEOREM Invariance == Spec => []IInv
<1>1. IInv /\ [Next]_vars => IInv'
  BY ShapeKept, ProgressKept, BatchKept, EndingKept, ConversationKept DEF IInv
<1> QED BY <1>1, Initially, PTL DEF Spec

\* The locals of run_chat_session keep their shape; the retry counters stay within their
\* limits and the steps within the chain limit (session.rs).
THEOREM TypeCorrect == Spec => []TypeOK
<1>1. IInv => TypeOK
  BY DEF IInv, Shape
<1> QED BY <1>1, Invariance, PTL

\* However answers are delayed, repeated, lost or taken back by a timeout, whenever the
\* model is asked again it gets one tool message for each call (session.rs, 808-871).
THEOREM EachCallAnsweredOnce == Spec => []ConversationComplete
<1>1. IInv => ConversationComplete
  <2> SUFFICES ASSUME IInv PROVE ConversationComplete
    OBVIOUS
  <2>0. RepliesAsked /\ RepliedOnce /\ StepsInOrder /\ AskedSoFar /\ chain \in Nat
        /\ asked \in [Steps -> SUBSET Calls]
    BY DEF IInv, RepliesSound, Progressing, Shape, TypeOK, Steps
  <2>1. ASSUME phase \in {"top", "http"}, NEW k \in Steps, NEW c \in Calls
        PROVE  Cardinality(RepliesTo(k, c)) = IF c \in asked[k] THEN 1 ELSE 0
    <3>1. CASE c \in asked[k]
      <4>1. k < chain
        BY <2>0, <2>1, <3>1 DEF AskedSoFar, Steps
      <4>2. PICK i \in DOMAIN replies : RepliesTo(k, c) = {i}
        BY <2>0, <3>1, <4>1 DEF RepliedOnce, Appended
      <4> QED BY <3>1, <4>2, FS_Singleton
    <3>2. CASE c \notin asked[k]
      <4>1. RepliesTo(k, c) = {}
        BY <2>0, <3>2 DEF RepliesAsked, RepliesTo
      <4> QED BY <3>2, <4>1, FS_EmptySet
    <3> QED BY <3>1, <3>2
  <2> QED BY <2>0, <2>1 DEF ConversationComplete, StepsInOrder
<1> QED BY <1>1, Invariance, PTL

\* The dispatcher never takes an answer of another step for one of this step, though call
\* ids come again and its channel is shared (session.rs, 1371-1423).
THEOREM AnswersAreOwn == Spec => []NoForeignAnswer
<1>1. IInv => NoForeignAnswer
  BY DEF IInv, RepliesSound
<1> QED BY <1>1, Invariance, PTL

\* Each way out of run_chat_session closes the placeholder and ages the context at most
\* once, when it completes.
THEOREM SessionsClose == Spec => []SessionClosed
<1>1. IInv => SessionClosed
  BY DEF IInv, Ending
<1> QED BY <1>1, Invariance, PTL

=============================================================================
