----------------------------- MODULE ChatSession -----------------------------
(***************************************************************************)
(* One chat session of ploke-tui: run_chat_session asks the model for a    *)
(* step, runs the tool calls of the step in one batch over the event bus,  *)
(* appends their results to the conversation and asks again, until the     *)
(* model stops, a policy gives up, the chain limit is reached or the user  *)
(* cancels.                                                                *)
(*                                                                         *)
(* Actors.  The session; the dispatcher task it spawns for a batch, which  *)
(* moves answers from the broadcast channel to the calls that wait; a      *)
(* timer for each call; the tool tasks, which outlive their batch and may  *)
(* answer twice, late or never; the rest of the program, whose events      *)
(* share the channel; the user, who cancels and goes on.                   *)
(***************************************************************************)
EXTENDS Naturals, FiniteSets, SequencesExt

CONSTANTS
  Calls,          \* call ids; a provider may use the same ids again in a later step
  Batches,        \* the sets of calls a step may ask for
  SilentCalls,    \* the calls whose tool may never answer
  Cap,            \* capacity of the realtime broadcast channel
  ChainLimit,     \* tool_call_chain_limit
  LengthLimit,    \* length_retry_limit
  ErrorLimit,     \* error_retry_limit
  TimeoutLimit,   \* retries of the timeout strategy
  MaxTraffic,     \* bound: events of the rest of the program in one batch
  MaxCancels      \* bound: cancellations by the user

ASSUME ConstantsAssumption ==
  /\ Batches \subseteq SUBSET Calls /\ SilentCalls \subseteq Calls
  /\ \A B \in Batches : IsFiniteSet(B)
  /\ Cap \in Nat \ {0}
  /\ {ChainLimit, LengthLimit, ErrorLimit, TimeoutLimit, MaxTraffic, MaxCancels} \subseteq Nat

Steps == 0 .. ChainLimit

\* finish_reason of a response, chosen where it is looked at; "None" when no
\* choice has one.
Reasons == {"Stop", "Length", "ContentFilter", "ToolCalls", "Timeout", "Error", "None"}

VARIABLES
  phase,       \* where run_chat_session is
  outcome,     \* report.outcome
  chain,       \* chain_index, which also names the step_request_id of the step
  retries,     \* ChatLoopState: what was retried how often
  asked,       \* the calls of each step, as pushed to the request's messages
  replies,     \* the tool messages pushed to the request, in order
  result,      \* what the waiting call got: of the current batch
  waiters,     \* the dispatcher's map of calls that wait
  listening,   \* the dispatcher runs
  inbox,       \* the dispatcher's receiver of the broadcast channel
  tool,        \* the task of each call of each step
  traffic,
  placeholder, \* status of the assistant message made for this session
  ttl,         \* DecrementChatTtl commands sent
  cancel,      \* the value in the cancel watch channel
  cancels,
  missing      \* history: some call of a batch is never going to be answered

sessionVars == <<phase, outcome, chain, retries, asked, replies, placeholder, ttl>>
batchVars == <<result, waiters, listening, inbox, tool, traffic, missing>>
userVars == <<cancel, cancels>>
vars == <<sessionVars, batchVars, userVars>>

Pending == [from |-> "none"]
TimedOut == [from |-> "timer"]
Answer(k) == [from |-> "tool", step |-> k]

\* ToolCallCompleted or ToolCallFailed: the session treats both the same way.
Event(c, k) == [call |-> c, step |-> k]
OtherEvent == [step |-> ChainLimit + 1]  \* of no step of this session

\* emit_loop_error and add_or_update_assistant_message: the first text goes into
\* the placeholder, with its status, the later ones become messages of their own.
Show(status) == placeholder' = IF placeholder = "pending" THEN status ELSE placeholder

End(how) == phase' = "done" /\ outcome' = how

(***************************************************************************)
(* The session.                                                            *)
(***************************************************************************)

\* The top of the loop: the chain limit, then a look at the cancel token.
BeginStep ==
  /\ phase = "top"
  /\ IF chain = ChainLimit \/ cancel = "close"
     THEN End("aborted") /\ Show("error")
     ELSE phase' = "http" /\ UNCHANGED <<outcome, placeholder>>
  /\ UNCHANGED <<chain, retries, asked, replies, ttl, batchVars, userVars>>

\* chat_step fails, or its response has neither text nor calls.
StepFails ==
  /\ phase = "http"
  /\ End("aborted") /\ Show("error")
  /\ UNCHANGED <<chain, retries, asked, replies, ttl, batchVars, userVars>>

\* The model asked for a tool that does not exist: tell it and go on.
UnknownTool ==
  /\ phase = "http"
  /\ phase' = "top" /\ chain' = chain + 1
  /\ Show("error")
  /\ UNCHANGED <<outcome, retries, asked, replies, ttl, batchVars, userVars>>

StepContent ==
  /\ phase = "http"
  /\ phase' = "finish"
  /\ Show("completed")
  /\ UNCHANGED <<outcome, chain, retries, asked, replies, ttl, batchVars, userVars>>

\* Tool calls: subscribe, register the waiters, spawn the dispatcher, and only
\* then emit the requests.
StepToolCalls(B) ==
  /\ phase = "http"
  /\ phase' = "collect"
  /\ asked' = [asked EXCEPT ![chain] = B]
  /\ Show("completed")
  /\ result' = [c \in Calls |-> Pending]
  /\ waiters' = B /\ listening' = TRUE /\ inbox' = <<>>
  /\ tool' = [tool EXCEPT ![chain] = [c \in Calls |-> IF c \in B THEN "asked" ELSE "none"]]
  /\ traffic' = 0
  /\ UNCHANGED <<outcome, chain, retries, replies, ttl, missing, userVars>>

\* A call's timer: its receiver is dropped, its waiter stays with the dispatcher.
CallTimesOut(c) ==
  /\ phase = "collect"
  /\ c \in asked[chain] /\ result[c] = Pending
  /\ result' = [result EXCEPT ![c] = TimedOut]
  /\ UNCHANGED <<sessionVars, waiters, listening, inbox, tool, traffic, missing, userVars>>

\* join_all is done; the session now awaits the dispatcher.
AllCollected ==
  /\ phase = "collect"
  /\ \A c \in asked[chain] : result[c] # Pending
  /\ phase' = "join"
  /\ UNCHANGED <<outcome, chain, retries, asked, replies, placeholder, ttl,
                 batchVars, userVars>>

Reply(c) == [step |-> chain, call |-> c, got |-> result[c]]

\* A slip ConversationComplete notices: calls that timed out get no tool message.
AppendAnswered ==
  /\ phase = "join" /\ ~listening
  /\ LET answered == { c \in asked[chain] : result[c].from = "tool" } IN
     replies' = replies \o [i \in 1 .. Cardinality(answered) |-> Reply(SetToSeq(answered)[i])]
  /\ phase' = "finish"
  /\ result' = [c \in Calls |-> Pending]
  /\ UNCHANGED <<outcome, chain, retries, asked, placeholder, ttl, waiters, listening, inbox,
                 tool, traffic, missing, userVars>>

\* The dispatcher has ended: append the results, in the order of the calls.
AppendResults ==
  /\ phase = "join" /\ ~listening
  /\ replies' = replies \o [i \in 1 .. Cardinality(asked[chain]) |->
                              Reply(SetToSeq(asked[chain])[i])]
  /\ phase' = "finish"
  /\ result' = [c \in Calls |-> Pending]
  /\ UNCHANGED <<outcome, chain, retries, asked, placeholder, ttl, waiters, listening, inbox,
                 tool, traffic, missing, userVars>>

\* A slip CancelEnds notices: only the request to the model can be cancelled.
CancelledInRequest ==
  /\ phase = "http"
  /\ cancel = "close"
  /\ End("aborted") /\ Show("error")
  /\ UNCHANGED <<chain, retries, asked, replies, ttl, batchVars, userVars>>

\* A slip SessionClosed notices: a cancellation leaves the placeholder as it is.
CancelledSilently ==
  /\ phase \in {"http", "collect", "join"}
  /\ cancel = "close"
  /\ End("aborted")
  /\ UNCHANGED <<chain, retries, asked, replies, placeholder, ttl, batchVars, userVars>>

\* wait_for_cancel_signal wins the select: the future of the step is dropped, a
\* dispatcher that was spawned for it goes on.
Cancelled ==
  /\ phase \in {"http", "collect", "join"}
  /\ cancel = "close"
  /\ End("aborted") /\ Show("error")
  /\ UNCHANGED <<chain, retries, asked, replies, ttl, batchVars, userVars>>

\* handle_finish_reasons, and what run_chat_session makes of its decision.
Limit == [Length |-> LengthLimit, Error |-> ErrorLimit, Timeout |-> TimeoutLimit]

\* A slip TypeOK notices: the retry limits are not looked at.
RetryForever(reason) == reason = "ToolCalls" \/ reason \in DOMAIN Limit

MayRetry(reason) ==
  reason = "ToolCalls" \/ (reason \in DOMAIN Limit /\ retries[reason] < Limit[reason])

FinishContinues(reason) ==
  /\ phase = "finish" /\ MayRetry(reason)
  /\ phase' = "top" /\ chain' = chain + 1
  /\ retries' = [k \in DOMAIN Limit |-> IF k = reason THEN retries[k] + 1 ELSE retries[k]]
  /\ UNCHANGED <<outcome, asked, replies, placeholder, ttl, batchVars, userVars>>

FinishCompletes(reason) ==
  /\ phase = "finish" /\ reason = "Stop"
  /\ End("completed") /\ ttl' = ttl + 1
  /\ UNCHANGED <<chain, retries, asked, replies, placeholder, batchVars, userVars>>

FinishExhausted(reason) ==
  /\ phase = "finish" /\ reason # "Stop" /\ ~MayRetry(reason)
  /\ End("exhausted") /\ Show("error")
  /\ UNCHANGED <<chain, retries, asked, replies, ttl, batchVars, userVars>>

(***************************************************************************)
(* The dispatcher, the tools and the channel between them.                 *)
(***************************************************************************)

\* A broadcast send: a receiver that is Cap events behind loses the oldest one.
Send(e) ==
  /\ inbox' = IF ~listening THEN inbox
              ELSE IF Len(inbox) < Cap THEN Append(inbox, e) ELSE Append(Tail(inbox), e)
  /\ missing' = (missing \/ (listening /\ Len(inbox) = Cap))

\* A slip NoForeignAnswer notices: the step of an event is not compared.
DispatchAnyStep ==
  /\ listening /\ inbox # <<>>
  /\ inbox' = Tail(inbox)
  /\ LET e == Head(inbox) IN
     IF e # OtherEvent
     THEN /\ waiters' = waiters \ {e.call}
          /\ listening' = (waiters' # {})
          /\ result' = IF e.call \in waiters /\ result[e.call] = Pending
                       THEN [result EXCEPT ![e.call] = Answer(e.step)] ELSE result
     ELSE UNCHANGED <<waiters, listening, result>>
  /\ UNCHANGED <<sessionVars, tool, traffic, missing, userVars>>

\* A slip EndsIfAnswered notices: the dispatcher does not stop after its last waiter.
DispatchForever ==
  /\ listening /\ inbox # <<>>
  /\ inbox' = Tail(inbox)
  /\ LET e == Head(inbox) IN
     IF e.step = chain
     THEN /\ waiters' = waiters \ {e.call}
          /\ result' = IF e.call \in waiters /\ result[e.call] = Pending
                       THEN [result EXCEPT ![e.call] = Answer(e.step)] ELSE result
     ELSE UNCHANGED <<waiters, result>>
  /\ UNCHANGED <<sessionVars, listening, tool, traffic, missing, userVars>>

\* The dispatcher takes one event; it ends when an event of its step leaves no
\* waiter behind.  An answer to a call that has timed out reaches nobody.
Dispatch ==
  /\ listening /\ inbox # <<>>
  /\ inbox' = Tail(inbox)
  /\ LET e == Head(inbox) IN
     IF e.step = chain
     THEN /\ waiters' = waiters \ {e.call}
          /\ listening' = (waiters' # {})
          /\ result' = IF e.call \in waiters /\ result[e.call] = Pending
                       THEN [result EXCEPT ![e.call] = Answer(e.step)] ELSE result
     ELSE UNCHANGED <<waiters, listening, result>>
  /\ UNCHANGED <<sessionVars, tool, traffic, missing, userVars>>

\* What a tool does after the session matters only while a dispatcher is left.
Heard == phase # "done" \/ listening

ToolAnswers(c, k) ==
  /\ Heard
  /\ tool[k][c] = "asked"
  /\ tool' = [tool EXCEPT ![k][c] = "answered"]
  /\ Send(Event(c, k))
  /\ UNCHANGED <<sessionVars, result, waiters, listening, traffic, userVars>>

\* process_tool reports once more after the tool has reported itself; an approval
\* of a staged edit reports under the same call again.
ToolAnswersAgain(c, k) ==
  /\ Heard
  /\ tool[k][c] = "answered"
  /\ tool' = [tool EXCEPT ![k][c] = "over"]
  /\ Send(Event(c, k))
  /\ UNCHANGED <<sessionVars, result, waiters, listening, traffic, userVars>>

\* The tool hangs, or its request is lost because the LLM manager lags behind.
ToolSilent(c, k) ==
  /\ Heard
  /\ c \in SilentCalls /\ tool[k][c] = "asked"
  /\ tool' = [tool EXCEPT ![k][c] = "over"]
  /\ missing' = TRUE
  /\ UNCHANGED <<sessionVars, result, waiters, listening, inbox, traffic, userVars>>

OtherTraffic ==
  /\ listening /\ traffic < MaxTraffic
  /\ traffic' = traffic + 1
  /\ Send(OtherEvent)
  /\ UNCHANGED <<sessionVars, result, waiters, listening, tool, userVars>>

(***************************************************************************)
(* The user: Esc cancels; the next message or command opens the token      *)
(* again, for the sessions that still run too.                             *)
(***************************************************************************)

PressEsc ==
  /\ cancel = "open" /\ cancels < MaxCancels
  /\ cancel' = "close" /\ cancels' = cancels + 1
  /\ UNCHANGED <<sessionVars, batchVars>>

SubmitAgain ==
  /\ cancel = "close"
  /\ cancel' = "open"
  /\ UNCHANGED <<sessionVars, batchVars, cancels>>

Init ==
  /\ phase = "top" /\ outcome = "running" /\ chain = 0
  /\ retries = [k \in DOMAIN Limit |-> 0]
  /\ asked = [k \in Steps |-> {}] /\ replies = <<>>
  /\ result = [c \in Calls |-> Pending]
  /\ waiters = {} /\ listening = FALSE /\ inbox = <<>>
  /\ tool = [k \in Steps |-> [c \in Calls |-> "none"]]
  /\ traffic = 0 /\ missing = FALSE
  /\ placeholder = "pending" /\ ttl = 0
  /\ cancel = "open" /\ cancels = 0

Session ==
  \/ BeginStep \/ StepFails \/ UnknownTool \/ StepContent
  \/ (\E B \in Batches : StepToolCalls(B))
  \/ AllCollected \/ AppendResults
  \/ \E reason \in Reasons :
       FinishContinues(reason) \/ FinishCompletes(reason) \/ FinishExhausted(reason)

Tool(c, k) == ToolAnswers(c, k) \/ ToolSilent(c, k)

Next ==
  \/ Session \/ Cancelled \/ Dispatch
  \/ \E c \in Calls : CallTimesOut(c)
  \/ \E c \in Calls, k \in Steps : Tool(c, k) \/ ToolAnswersAgain(c, k)
  \/ OtherTraffic \/ PressEsc \/ SubmitAgain

Spec == Init /\ [][Next]_vars

\* The runtime polls every ready task, timers expire, the HTTP client has a
\* timeout, and a tool answers unless it is one of the silent ones.
Fairness ==
  /\ WF_vars(Session) /\ WF_vars(Cancelled) /\ WF_vars(Dispatch)
  /\ \A c \in Calls : WF_vars(CallTimesOut(c))
  /\ \A c \in Calls, k \in Steps : WF_vars(Tool(c, k))

FairSpec == Spec /\ Fairness

(***************************************************************************)
(* Properties.                                                             *)
(***************************************************************************)

Got == {Pending, TimedOut} \cup { Answer(k) : k \in Steps }

\* The shape of the session's locals, the dispatcher's and the channel.
TypeOK ==
  /\ phase \in {"top", "http", "collect", "join", "finish", "done"}
  /\ outcome \in {"running", "completed", "exhausted", "aborted"}
  /\ chain \in Steps
  /\ \A k \in DOMAIN Limit : retries[k] \in 0 .. Limit[k]
  /\ asked \in [Steps -> SUBSET Calls]
  /\ \A i \in DOMAIN replies : replies[i].call \in Calls /\ replies[i].got \in Got \ {Pending}
  /\ result \in [Calls -> Got]
  /\ waiters \subseteq Calls /\ listening \in BOOLEAN
  /\ Len(inbox) <= Cap
  /\ tool \in [Steps -> [Calls -> {"none", "asked", "answered", "over"}]]
  /\ traffic \in 0 .. MaxTraffic /\ missing \in BOOLEAN
  /\ placeholder \in {"pending", "completed", "error"} /\ ttl \in Nat
  /\ cancel \in {"open", "close"} /\ cancels \in 0 .. MaxCancels

RepliesTo(k, c) == { i \in DOMAIN replies : replies[i].step = k /\ replies[i].call = c }

\* Whenever the model is asked again, each tool call it made in an earlier step
\* has exactly one tool message, and the messages of one step come before those
\* of the next: timeouts, late and repeated answers neither drop nor double one.
ConversationComplete ==
  /\ phase \in {"top", "http"} =>
       \A k \in Steps, c \in Calls :
         Cardinality(RepliesTo(k, c)) = IF c \in asked[k] THEN 1 ELSE 0
  /\ \A i, j \in DOMAIN replies : i < j => replies[i].step <= replies[j].step

\* A tool message carries the timeout or the answer to its own call of its own
\* step, although a provider may reuse call ids and a timed-out tool of an
\* earlier step may answer while a later step waits.
NoForeignAnswer ==
  \A i \in DOMAIN replies :
    replies[i].got.from = "tool" => replies[i].got.step = replies[i].step

\* When the session is over, the assistant message it was started for is no longer
\* shown as being generated, and the messages it used have been aged exactly if
\* it ran to completion.
SessionClosed ==
  phase = "done" => /\ placeholder # "pending"
                    /\ ttl = IF outcome = "completed" THEN 1 ELSE 0

\* A cancellation that is not taken back ends the session, whatever it waits for.
CancelEnds == <>[](cancel = "close") => <>(phase = "done")

\* If no call stays unanswered, the session comes to an end by itself.
EndsIfAnswered == <>(phase = "done" \/ missing)

\* The deadline of a tool call holds for the step: a step that has asked for tool
\* calls gets past them, whatever the tools do.
DeadlineHolds == phase \in {"collect", "join"} ~> phase \notin {"collect", "join"}

=============================================================================
