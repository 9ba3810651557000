----------------------------- MODULE Conversation -----------------------------
(***************************************************************************)
(* How a question of the user becomes a request to the model, and what     *)
(* happens to the chat history meanwhile.                                  *)
(*                                                                         *)
(* Actors.  The terminal interface, which sends commands and never waits;  *)
(* the state manager, which handles one command after the other, some of   *)
(* them in two steps with the lock released in between; the LLM manager,   *)
(* which pairs a request with the prompt made for it; a session for each   *)
(* pair (its inside is ChatSession), which sends commands too; the tasks   *)
(* of tools and approvals, which write to the history by themselves.       *)
(*                                                                         *)
(* Left out: ScanForChange, which does not touch the history, the commands *)
(* that only count tokens or annotate a message, and the tip that is added *)
(* when there is nothing to retrieve from.                                 *)
(***************************************************************************)
EXTENDS ChatHistory

CONSTANTS
  MaxQuestions, \* bound: what the user submits, numbered in that order
  Answered,    \* the questions whose sessions get further than the placeholder
  Outcomes,    \* the status and the length of the first text of a session
  Notes,       \* the messages that tool and approval tasks add
  QueueCap,    \* capacity of the command channel
  Keys,        \* navigations by direction; deletions by what they remove: "node", as the
               \* Delete key does, or "subtree"
  MaxKeys      \* bound: how many of them are pressed, after the last question

ASSUME ConversationAssumption ==
  /\ MaxQuestions \in Nat /\ Answered \subseteq 1 .. MaxQuestions
  /\ QueueCap \in Nat \ {0} /\ MaxKeys \in Nat
  /\ Keys \subseteq Directions \cup {"node", "subtree"}

Questions == 1 .. MaxQuestions

\* The messages that belong to a question: its own, the notice that it is being
\* embedded, the answer, a tool's result, the text after it, a warning.
IdOf(role, q) == <<role, q>>
Roles == {"question", "notice", "answer", "tool", "more", "warning"}
Fresh == (Roles \X Questions) \cup ({"note"} \X Notes)
Ids == {Root} \cup Fresh

\* Ids are uuids, and NoMessage is Option::None.
ASSUME IdsAssumption == Root \notin Fresh /\ NoMessage \notin Ids

VARIABLES
  chat,       \* the history, behind its lock
  toSend,     \* what is left of the commands of one Submit
  queue,      \* the command channel
  manager,    \* the second step of the command the state manager is at
  added,      \* the questions whose AddUserMessage was handled: completion_tx
  events,     \* Request and PromptConstructed on their way to the LLM manager
  pending,    \* pending_requests, by question
  ready,      \* ready_contexts: prompts that came without a request
  session,    \* where the session of each question is
  included,   \* the messages in the prompt of that session
  task,       \* where each task of a tool or an approval is
  asked,      \* how many questions the user has submitted
  keys,       \* the navigations and deletions so far
  starts,     \* history: how many sessions each question got
  raced       \* history: deletions, and what happened between the two steps of an add

uiVars == <<toSend, asked, keys>>
llmVars == <<events, pending, ready, session, included, starts>>
vars == <<chat, queue, manager, added, task, raced, uiVars, llmVars>>

Idle == [step |-> "idle"]

\* Somebody has added a message and is about to select it.
InGap == manager.step = "select" \/ \E n \in Notes : task[n] = "select"

\* Add m below parent, under one hold of the lock; select it if selected is TRUE.
Grow(parent, m, message, selected) ==
  LET grown == AddChild(chat, parent, m, message) IN
  /\ chat' = IF selected /\ Exists(grown, m) THEN [grown EXCEPT !.current = m] ELSE grown
  /\ IF Exists(grown, m) /\ InGap THEN raced' = raced \cup {"added in gap"}
     ELSE UNCHANGED raced

(***************************************************************************)
(* The terminal interface.                                                 *)
(***************************************************************************)

Submit(q) ==
  /\ toSend = <<>> /\ q = asked + 1
  /\ asked' = q
  /\ toSend' = << [cmd |-> "AddUserMessage", q |-> q], [cmd |-> "EmbedMessage", q |-> q],
                  [cmd |-> "AddMessage", q |-> q] >>
  /\ UNCHANGED <<chat, queue, manager, added, task, raced, keys, llmVars>>

\* A slip TypeOK notices: the channel has no end.
SendAnyway ==
  /\ toSend # <<>>
  /\ toSend' = Tail(toSend) /\ queue' = Append(queue, Head(toSend))
  /\ UNCHANGED <<chat, manager, added, task, raced, asked, keys, llmVars>>

\* try_send: a command that does not fit the channel is lost.
SendNext ==
  /\ toSend # <<>>
  /\ toSend' = Tail(toSend)
  /\ queue' = IF Len(queue) < QueueCap THEN Append(queue, Head(toSend)) ELSE queue
  /\ UNCHANGED <<chat, manager, added, task, raced, asked, keys, llmVars>>

\* So is a key's, if there is no room for its command.
Key(command) ==
  /\ toSend = <<>> /\ asked = MaxQuestions
  /\ keys < MaxKeys /\ keys' = keys + 1
  /\ Len(queue) < QueueCap /\ queue' = Append(queue, command)
  /\ UNCHANGED <<chat, manager, added, task, raced, toSend, asked, llmVars>>

Move(direction) == direction \in Keys /\ Key([cmd |-> "NavigateList", direction |-> direction])

\* The message that is selected when the key is pressed.
Delete(what) == what \in Keys /\ Key([cmd |-> "Delete", what |-> what, msg |-> chat.current])

(***************************************************************************)
(* The state manager.                                                      *)
(***************************************************************************)

User == Message("User", "Completed", Leased, 1)
Assistant(status) == Message("Assistant", status, Leased, 1)
ToolResult == Message("Tool", "Completed", Leased, 1)
SysInfo(context) == Message("SysInfo", "Completed", context, 1)

\* The next command is c; it takes one step with the lock.
Handle(c) == manager = Idle /\ queue # <<>> /\ Head(queue) = c /\ queue' = Tail(queue)

\* add_msg_immediate, first step: add below the selected message.
AddThenSelect(m, message) ==
  /\ Grow(chat.current, m, message, FALSE)
  /\ manager' = IF Exists(chat, chat.current) THEN [step |-> "select", msg |-> m] ELSE Idle

AddUserMessage(q) ==
  /\ Handle([cmd |-> "AddUserMessage", q |-> q])
  /\ AddThenSelect(IdOf("question", q), User)
  /\ added' = IF manager' = Idle THEN added \cup {q} ELSE added
  /\ UNCHANGED <<task, uiVars, llmVars>>

\* AddMessageImmediate, by a session that has shown an answer already.
AddMessageImmediate(q) ==
  /\ Handle([cmd |-> "AddMessageImmediate", q |-> q])
  /\ AddThenSelect(IdOf("more", q), Assistant("Completed"))
  /\ UNCHANGED <<added, task, uiVars, llmVars>>

\* Its second step: select the new message, whatever has become of it.  A question
\* is then announced to the LLM manager.
SelectAdded ==
  /\ manager.step = "select"
  /\ chat' = [chat EXCEPT !.current = manager.msg]
  /\ manager' = Idle
  /\ LET q == manager.msg[2] IN
     IF manager.msg[1] = "question"
     THEN /\ events' = Append(events, [event |-> "Request", parent |-> q])
          /\ added' = added \cup {q}
     ELSE UNCHANGED <<events, added>>
  /\ UNCHANGED <<queue, task, raced, uiVars, pending, ready, session, included, starts>>

\* EmbedMessage: the prompt is made for the last question before the selected
\* message.  If AddUserMessage was lost there is only a warning.
EmbedMessage(q) ==
  /\ Handle([cmd |-> "EmbedMessage", q |-> q])
  /\ IF q \notin added
     THEN /\ Grow(chat.current, IdOf("warning", q), SysInfo(Leased), FALSE)
          /\ UNCHANGED manager
     ELSE IF LastUserMessage(chat) = NoMessage
     THEN UNCHANGED <<chat, manager, raced>>
     ELSE LET parent == LastUserMessage(chat)[2] IN
          /\ chat' = AfterPrompt(chat)
          /\ manager' = [step |-> "prompt", parent |-> parent,
                         messages |-> Prompt(chat)]
          /\ UNCHANGED raced
  /\ UNCHANGED <<added, task, uiVars, llmVars>>

\* Retrieval is done.
SendPrompt ==
  /\ manager.step = "prompt"
  /\ manager' = Idle
  /\ events' = Append(events, [event |-> "PromptConstructed", parent |-> manager.parent,
                              messages |-> manager.messages])
  /\ UNCHANGED <<chat, queue, added, task, raced, uiVars, pending, ready, session,
                 included, starts>>

AddMessage(q) ==
  /\ Handle([cmd |-> "AddMessage", q |-> q])
  /\ Grow(IdOf("question", q), IdOf("notice", q), SysInfo(Leased), TRUE)
  /\ UNCHANGED <<manager, added, task, uiVars, llmVars>>

NavigateListCommand(direction) ==
  /\ Handle([cmd |-> "NavigateList", direction |-> direction])
  /\ chat' = NavigateList(chat, direction)
  /\ UNCHANGED <<manager, added, task, raced, uiVars, llmVars>>

DeleteNodeCommand(m) ==
  /\ Handle([cmd |-> "Delete", what |-> "node", msg |-> m])
  /\ chat' = DeleteNode(chat, m)
  /\ raced' = raced \cup {"deleted"} \cup IF InGap THEN {"deleted in gap"} ELSE {}
  /\ UNCHANGED <<manager, added, task, uiVars, llmVars>>

\* DeleteMessage selects the new current once more, in a second step.
DeleteMessageCommand(m) ==
  /\ Handle([cmd |-> "Delete", what |-> "subtree", msg |-> m])
  /\ chat' = DeleteSubtree(chat, m)
  /\ manager' = IF IsDeletable(chat, m) THEN [step |-> "reselect", msg |-> chat'.current] ELSE Idle
  /\ raced' = raced \cup {"deleted"} \cup IF InGap THEN {"deleted in gap"} ELSE {}
  /\ UNCHANGED <<added, task, uiVars, llmVars>>

Reselect ==
  /\ manager.step = "reselect"
  /\ chat' = [chat EXCEPT !.current = manager.msg]
  /\ manager' = Idle
  /\ UNCHANGED <<queue, added, task, raced, uiVars, llmVars>>

\* The answer's placeholder; without the question the responder is dropped.
CreateAssistantMessage(q) ==
  /\ Handle([cmd |-> "CreateAssistantMessage", q |-> q])
  /\ Grow(IdOf("question", q), IdOf("answer", q), Assistant("Generating"), TRUE)
  /\ session' = [session EXCEPT ![q] = IF Exists(chat, IdOf("question", q))
                                       THEN "running" ELSE "failed"]
  /\ UNCHANGED <<manager, added, task, uiVars, events, pending, ready, included, starts>>

UpdateMessage(q, status, tokens) ==
  /\ Handle([cmd |-> "UpdateMessage", q |-> q, status |-> status, tokens |-> tokens])
  /\ chat' = TryUpdate(chat, IdOf("answer", q), status, tokens)
  /\ UNCHANGED <<manager, added, task, raced, uiVars, llmVars>>

AddMessageTool(q) ==
  /\ Handle([cmd |-> "AddMessageTool", q |-> q])
  /\ Grow(chat.current, IdOf("tool", q), ToolResult, TRUE)
  /\ UNCHANGED <<manager, added, task, uiVars, llmVars>>

\* Of the messages in the session's prompt; the session is over.
DecrementChatTtl(q) ==
  /\ Handle([cmd |-> "DecrementChatTtl", q |-> q])
  /\ chat' = DecrementTtl(chat, included[q])
  /\ included' = [included EXCEPT ![q] = {}]
  /\ UNCHANGED <<manager, added, task, raced, uiVars, events, pending, ready, session,
                 starts>>

(***************************************************************************)
(* The LLM manager.                                                        *)
(***************************************************************************)

Receive(kind) == events # <<>> /\ Head(events).event = kind /\ events' = Tail(events)

\* A slip NoPromptStranded notices: a request is refused while another one is pending.
HandleOneRequest ==
  /\ Receive("Request")
  /\ pending' = IF pending = {} THEN {Head(events).parent} ELSE pending
  /\ UNCHANGED <<chat, queue, manager, added, task, raced, uiVars, ready, session,
                 included, starts>>

HandleRequest ==
  /\ Receive("Request")
  /\ pending' = pending \cup {Head(events).parent}
  /\ UNCHANGED <<chat, queue, manager, added, task, raced, uiVars, ready, session,
                 included, starts>>

\* A prompt without a request is kept, and nobody asks for it again.
KeepPrompt(q) ==
  /\ ready' = ready \cup {q}
  /\ UNCHANGED <<pending, session, included, starts>>

\* A slip OneSessionPerQuestion notices: the request stays pending.
HandlePromptAgain ==
  /\ Receive("PromptConstructed")
  /\ LET q == Head(events).parent IN
     IF q \notin pending THEN KeepPrompt(q)
     ELSE /\ session' = [session EXCEPT ![q] = "paired"]
          /\ included' = [included EXCEPT ![q] = Head(events).messages]
          /\ starts' = [starts EXCEPT ![q] = @ + 1]
          /\ UNCHANGED <<pending, ready>>
  /\ UNCHANGED <<chat, queue, manager, added, task, raced, uiVars>>

HandlePrompt ==
  /\ Receive("PromptConstructed")
  /\ LET q == Head(events).parent IN
     IF q \notin pending THEN KeepPrompt(q)
     ELSE /\ pending' = pending \ {q}
          /\ session' = [session EXCEPT ![q] = "paired"]
          /\ included' = [included EXCEPT ![q] = Head(events).messages]
          /\ starts' = [starts EXCEPT ![q] = @ + 1]
          /\ UNCHANGED ready
  /\ UNCHANGED <<chat, queue, manager, added, task, raced, uiVars>>

(***************************************************************************)
(* A session, and the tasks that write by themselves.                      *)
(***************************************************************************)

\* send().await: there is room for the command.  A session may give up at any point:
\* nothing makes it take its next step.
Command(q, from, to, command) ==
  /\ session[q] = from /\ session' = [session EXCEPT ![q] = to]
  /\ Len(queue) < QueueCap /\ queue' = Append(queue, command)
  /\ UNCHANGED <<chat, manager, added, task, raced, uiVars, events, pending, ready,
                 included, starts>>

\* CreateAssistantMessage; then the session waits for the id.
StartSession(q) == Command(q, "paired", "creating", [cmd |-> "CreateAssistantMessage", q |-> q])

\* The first text, or an error, goes into the placeholder.
ShowFirst(q) ==
  q \in Answered /\ \E update \in Outcomes :
    Command(q, "running", "shown",
            [cmd |-> "UpdateMessage", q |-> q, status |-> update[1], tokens |-> update[2]])

ShowTool(q) == Command(q, "shown", "tools", [cmd |-> "AddMessageTool", q |-> q])

ShowMore(q) == Command(q, "tools", "told", [cmd |-> "AddMessageImmediate", q |-> q])

EndSession(q) ==
  \E from \in {"shown", "told"} : Command(q, from, "done", [cmd |-> "DecrementChatTtl", q |-> q])

\* There are tasks once a session has called a tool; they may outlive it.
ToolsStarted == \E q \in Answered : session[q] \in {"shown", "tools", "told", "done"}

\* add_msg_immediate_sysinfo_unpinned.
TaskAdds(n) ==
  /\ task[n] = "idle" /\ ToolsStarted
  /\ Grow(chat.current, IdOf("note", n), SysInfo(Unpinned), FALSE)
  /\ task' = [task EXCEPT ![n] = IF Exists(chat, chat.current) THEN "select" ELSE "done"]
  /\ UNCHANGED <<queue, manager, added, uiVars, llmVars>>

TaskSelects(n) ==
  /\ task[n] = "select"
  /\ task' = [task EXCEPT ![n] = "done"]
  /\ chat' = [chat EXCEPT !.current = IdOf("note", n)]
  /\ UNCHANGED <<queue, manager, added, raced, uiVars, llmVars>>

\* add_msg_immediate_background, of an approval.
TaskAddsInBackground(n) ==
  /\ task[n] = "idle" /\ ToolsStarted
  /\ task' = [task EXCEPT ![n] = "done"]
  /\ chat' = AddInBackground(chat, chat.current, IdOf("note", n), SysInfo(Leased))
  /\ UNCHANGED <<queue, manager, added, raced, uiVars, llmVars>>

Init ==
  /\ chat = NewHistory
  /\ toSend = <<>> /\ queue = <<>> /\ manager = Idle /\ added = {}
  /\ events = <<>> /\ pending = {} /\ ready = {}
  /\ session = [q \in Questions |-> "none"] /\ included = [q \in Questions |-> {}]
  /\ task = [n \in Notes |-> "idle"]
  /\ asked = 0 /\ keys = 0
  /\ starts = [q \in Questions |-> 0] /\ raced = {}

Interface ==
  \/ \E q \in Questions : Submit(q)
  \/ SendNext
  \/ \E d \in Directions : Move(d)
  \/ \E what \in {"node", "subtree"} : Delete(what)

StateManager ==
  \/ \E q \in Questions :
       \/ AddUserMessage(q) \/ AddMessageImmediate(q) \/ EmbedMessage(q) \/ AddMessage(q)
       \/ CreateAssistantMessage(q) \/ AddMessageTool(q) \/ DecrementChatTtl(q)
       \/ \E status \in {"Completed", "Error"}, tokens \in 0 .. 1 :
            UpdateMessage(q, status, tokens)
  \/ SelectAdded \/ Reselect \/ SendPrompt
  \/ \E d \in Directions : NavigateListCommand(d)
  \/ \E m \in Ids : DeleteNodeCommand(m) \/ DeleteMessageCommand(m)

Session(q) ==
  \/ StartSession(q) \/ ShowFirst(q) \/ ShowTool(q) \/ ShowMore(q) \/ EndSession(q)

Task(n) == TaskAdds(n) \/ TaskSelects(n) \/ TaskAddsInBackground(n)

Next ==
  \/ Interface \/ StateManager \/ HandleRequest \/ HandlePrompt
  \/ \E q \in Questions : Session(q)
  \/ \E n \in Notes : Task(n)

Spec == Init /\ [][Next]_vars

(***************************************************************************)
(* Properties.                                                             *)
(***************************************************************************)

\* The shape of the state.
TypeOK ==
  /\ DOMAIN chat.msgs \subseteq Ids /\ Root \in DOMAIN chat.msgs
  /\ chat.current \in Ids /\ chat.tail \in Ids
  /\ Len(queue) <= QueueCap /\ Len(toSend) <= 3
  /\ manager.step \in {"idle", "select", "reselect", "prompt"}
  /\ added \subseteq 1 .. asked
  /\ pending \subseteq added /\ ready \subseteq added
  /\ session \in [Questions -> {"none", "paired", "creating", "running", "failed", "shown",
                                "tools", "told", "done"}]
  /\ included \in [Questions -> SUBSET Ids]
  /\ task \in [Notes -> {"idle", "select", "done"}]

\* The messages are a tree below the system prompt, each listed once with its
\* parent, whatever is added, removed and reparented by whom; the path on display
\* is the one to the tail, and the tail is there.
TreeSound ==
  LET h == chat IN
  /\ Exists(h, h.tail) /\ h.path = PathTo(h, h.tail)
  /\ \A m \in DOMAIN h.msgs :
       /\ Head(PathTo(h, m)) = Root
       /\ IsInjective(h.msgs[m].children)
       /\ h.msgs[m].selected \in ToSet(h.msgs[m].children) \cup {NoMessage}
       /\ ToSet(h.msgs[m].children) = { n \in DOMAIN h.msgs : h.msgs[n].parent = m }

\* The selected message is one of the history, unless it was deleted before the
\* task that added it came to select it; and as long as nothing is deleted and
\* nothing added in such a gap it is on the path on display, so that moving up and
\* down starts from it.  Everything that is added goes below the selected message.
SelectionSound ==
  /\ "deleted in gap" \notin raced => Exists(chat, chat.current)
  /\ raced \cap {"deleted", "added in gap"} = {} => chat.current \in ToSet(chat.path)

\* A question gets one session at most, though prompts can be made for it more than
\* once: by EmbedMessage of another question while its branch is selected.
OneSessionPerQuestion == \A q \in Questions : starts[q] <= 1

\* The placeholder of an answer does not stay behind: when the session has shown
\* something, and its command was handled, the answer is completed or an error.
AnswersClosed ==
  \A q \in Questions :
    /\ session[q] \in {"shown", "tools", "told", "done"}
    /\ Exists(chat, IdOf("answer", q))
    /\ \A i \in DOMAIN queue : queue[i].cmd = "UpdateMessage" => queue[i].q # q
    => chat.msgs[IdOf("answer", q)].status # "Generating"

\* No prompt is left in ready_contexts, where nobody looks, while the question it was
\* made for still waits in pending_requests: a request is announced before any prompt
\* for its question, however many other questions come in between.
NoPromptStranded == \A q \in ready : starts[q] > 0

=============================================================================
