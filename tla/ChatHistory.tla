----------------------------- MODULE ChatHistory -----------------------------
(***************************************************************************)
(* The message tree of ploke-tui: chat_history.rs.  A history is a record: *)
(* the messages by id, the selected message (current), the end of the path *)
(* on display (tail), that path (path_cache), and the turn counter of the  *)
(* branch.  The operators are the methods of ChatHistory.                  *)
(*                                                                         *)
(* No command makes a second branch (add_sibling has no caller), so all    *)
(* messages share the branch, and the turn counter, of the root.           *)
(***************************************************************************)
EXTENDS Integers, SequencesExt, FiniteSetsExt

CONSTANTS
  Root,        \* the system prompt
  NoMessage,   \* no id
  Ttl,         \* TurnsToLive::default
  LeasedCap    \* max_leased_tokens

ASSUME HistoryAssumption == Ttl \in Nat /\ LeasedCap \in Nat /\ Root # NoMessage

Sticky == [class |-> "sticky", ttl |-> 0]
Leased == [class |-> "leased", ttl |-> Ttl]   \* 0: TurnsToLive::NoneRemaining
Unpinned == [class |-> "unpinned", ttl |-> 0]

\* A message; of its content only the token count is kept, 0 when it is empty.
Message(kind, status, context, tokens) ==
  [kind |-> kind, status |-> status, context |-> context, tokens |-> tokens,
   parent |-> NoMessage, children |-> <<>>, selected |-> NoMessage,
   lastTurn |-> 0, count |-> 0]

NewHistory ==
  [msgs |-> [m \in {Root} |-> Message("System", "Completed", Sticky, 1)],
   current |-> Root, tail |-> Root, path |-> <<Root>>, turn |-> 0]

Exists(h, m) == m \in DOMAIN h.msgs

\* The messages from the root to m; an id that is not there is its own path.
Paths(msgs) ==
  LET up[n \in DOMAIN msgs] ==
        IF msgs[n].parent \in DOMAIN msgs THEN Append(up[msgs[n].parent], n) ELSE <<n>>
  IN  up
PathTo(h, m) == IF Exists(h, m) THEN Paths(h.msgs)[m] ELSE <<m>>

RebuildPath(h) == [h EXCEPT !.path = PathTo(h, h.tail)]

LastOr(s, default) == IF s = <<>> THEN default ELSE Last(s)
FirstOr(s, default) == IF s = <<>> THEN default ELSE Head(s)

(***************************************************************************)
(* Growing and shrinking the tree.                                         *)
(***************************************************************************)

\* The messages with m below parent, as the last child and the default one.
WithChild(h, parent, m, message) ==
  [n \in DOMAIN h.msgs \cup {m} |->
     IF n = m THEN [message EXCEPT !.parent = parent]
     ELSE IF n = parent THEN [h.msgs[n] EXCEPT !.children = Append(@, m), !.selected = m]
     ELSE h.msgs[n]]

\* A slip SelectionSound notices: the tail, and with it the path, stays behind.
AddChildOffPath(h, parent, m, message) ==
  IF ~Exists(h, parent) THEN h
  ELSE [h EXCEPT !.msgs = WithChild(h, parent, m, message)]

\* The new message becomes the tail; without its parent nothing happens.
AddChild(h, parent, m, message) ==
  IF ~Exists(h, parent) THEN h
  ELSE RebuildPath([h EXCEPT !.msgs = WithChild(h, parent, m, message), !.tail = m])

\* add_msg_immediate_background: the tail and the default child stay what they were.
AddInBackground(h, parent, m, message) ==
  IF ~Exists(h, parent) THEN h
  ELSE RebuildPath([AddChild(h, parent, m, message) EXCEPT
         !.tail = h.tail, !.msgs[parent].selected = h.msgs[parent].selected])

IsDeletable(h, m) == Exists(h, m) /\ h.msgs[m].parent # NoMessage

\* The list s with t in the place of m.
Splice(s, m, t) ==
  IF m \notin ToSet(s) THEN s \o t
  ELSE LET i == CHOOSE j \in DOMAIN s : s[j] = m
       IN  SubSeq(s, 1, i - 1) \o t \o SubSeq(s, i + 1, Len(s))

Without(h, gone) == [n \in DOMAIN h.msgs \ gone |-> h.msgs[n]]

\* delete_message: m and all that is below it.
DeleteSubtree(h, m) ==
  IF ~IsDeletable(h, m) THEN h
  ELSE LET parent == h.msgs[m].parent
           gone == { n \in DOMAIN h.msgs : m \in ToSet(PathTo(h, n)) }
           kept == Splice(h.msgs[parent].children, m, <<>>)
       IN RebuildPath([h EXCEPT
            !.msgs = [Without(h, gone) EXCEPT
                        ![parent].children = kept,
                        ![parent].selected = IF @ = m THEN LastOr(kept, NoMessage) ELSE @],
            !.tail = IF @ \in gone THEN parent ELSE @,
            !.current = IF @ \in gone THEN parent ELSE @])

\* A slip TreeSound notices: the children keep the deleted parent.
DeleteNodeOrphaning(h, m) ==
  IF ~IsDeletable(h, m) THEN h
  ELSE LET parent == h.msgs[m].parent
           children == h.msgs[m].children
           kept == Splice(h.msgs[parent].children, m, <<>>)
       IN RebuildPath([h EXCEPT
            !.msgs = [Without(h, {m}) EXCEPT
                        ![parent].children = kept \o children,
                        ![parent].selected =
                          IF @ = m THEN FirstOr(children, LastOr(kept, NoMessage)) ELSE @],
            !.tail = IF @ = m THEN LastOr(children, parent) ELSE @,
            !.current = IF @ = m THEN FirstOr(children, parent) ELSE @])

\* delete_node: m alone; its children take its place among its siblings.
DeleteNode(h, m) ==
  IF ~IsDeletable(h, m) THEN h
  ELSE LET parent == h.msgs[m].parent
           children == h.msgs[m].children
           spliced == Splice(h.msgs[parent].children, m, children)
       IN RebuildPath([h EXCEPT
            !.msgs = [n \in DOMAIN h.msgs \ {m} |->
                        IF n \in ToSet(children) THEN [h.msgs[n] EXCEPT !.parent = parent]
                        ELSE IF n = parent
                        THEN [h.msgs[n] EXCEPT
                                !.children = spliced,
                                !.selected = IF @ = m
                                             THEN FirstOr(children, LastOr(spliced, NoMessage))
                                             ELSE @]
                        ELSE h.msgs[n]],
            !.tail = IF @ = m THEN LastOr(children, parent) ELSE @,
            !.current = IF @ = m THEN FirstOr(children, parent) ELSE @])

(***************************************************************************)
(* Selecting, updating, and reading the path.                              *)
(***************************************************************************)

Directions == {"Up", "Down", "Top", "Bottom"}

\* A selected message that is not on the path counts as its first one.
NavigateList(h, direction) ==
  LET here == IF h.current \in ToSet(h.path)
              THEN CHOOSE i \in DOMAIN h.path : h.path[i] = h.current ELSE 1
      there == CASE direction = "Up" -> Max({here - 1, 1})
                 [] direction = "Down" -> Min({here + 1, Len(h.path)})
                 [] direction = "Top" -> 1
                 [] direction = "Bottom" -> Len(h.path)
  IN [h EXCEPT !.current = h.path[there]]

\* MessageUpdate::validate, of an update with a content and a status.
MayBecome(from, to) == from = "Generating" /\ to \in {"Completed", "Error"}

\* A slip AnswersClosed notices: only what is selected can be updated.
TryUpdateSelected(h, m, status, tokens) ==
  IF h.current # m \/ ~Exists(h, m) \/ ~MayBecome(h.msgs[m].status, status) THEN h
  ELSE [h EXCEPT !.msgs[m].status = status, !.msgs[m].tokens = tokens]

\* try_update: a message completed without content is an error after all.
TryUpdate(h, m, status, tokens) ==
  IF ~Exists(h, m) \/ ~MayBecome(h.msgs[m].status, status) THEN h
  ELSE [h EXCEPT !.msgs[m] = [h.msgs[m] EXCEPT
         !.status = IF status = "Completed" /\ tokens = 0 THEN "Error" ELSE status,
         !.tokens = tokens]]

\* last_user_msg, on the path to the selected message.
LastUserMessage(h) ==
  LET path == PathTo(h, h.current)
      users == { i \in DOMAIN path : Exists(h, path[i]) /\ h.msgs[path[i]].kind = "User" }
      last(i) == \A j \in users : j <= i
  IN IF \E i \in users : last(i) THEN path[CHOOSE i \in users : last(i)] ELSE NoMessage

DecrementTtl(h, ids) ==
  [h EXCEPT !.msgs = [m \in DOMAIN h.msgs |->
     IF m \in ids /\ h.msgs[m].context.class = "leased"
     THEN [h.msgs[m] EXCEPT !.context.ttl = Max({h.msgs[m].context.ttl - 1, 0})]
     ELSE h.msgs[m]]]

(***************************************************************************)
(* current_path_as_llm_request_messages_with_plan.                         *)
(***************************************************************************)

OnCurrentPath(h) == { m \in ToSet(PathTo(h, h.current)) : Exists(h, m) }

Candidates(h) == { m \in OnCurrentPath(h) : /\ h.msgs[m].context.class = "leased"
                                            /\ h.msgs[m].context.ttl > 0 }

\* The order in which the leased messages are let in: by the turn of the last
\* inclusion, then by their number, then from the end of the path.
Precedes(h, m, n) ==
  LET rank(x) == <<h.msgs[x].lastTurn, h.msgs[x].count, Len(PathTo(h, x))>>
      p == rank(m)
      q == rank(n)
  IN \E i \in 1 .. 3 : p[i] > q[i] /\ \A j \in 1 .. i - 1 : p[j] = q[j]

\* As many of them as fit the cap, one in any case.
Kept(h) ==
  LET take(acc, m) ==
        IF acc.used + h.msgs[m].tokens > LeasedCap /\ acc.in # {} THEN acc
        ELSE [used |-> acc.used + h.msgs[m].tokens, in |-> acc.in \cup {m}]
      order == SetToSortSeq(Candidates(h), LAMBDA m, n : Precedes(h, m, n))
  IN FoldLeft(take, [used |-> 0, in |-> {}], order).in

\* The messages of the prompt; their order is that of the path.
Prompt(h) ==
  { m \in OnCurrentPath(h) : h.msgs[m].context.class = "sticky" \/ m \in Kept(h) }

\* Making it counts a turn, and the messages it lets in are marked.
AfterPrompt(h) ==
  [h EXCEPT !.turn = @ + 1,
            !.msgs = [m \in DOMAIN h.msgs |->
                        IF m \in Kept(h)
                        THEN [h.msgs[m] EXCEPT !.lastTurn = h.turn + 1,
                                               !.count = h.msgs[m].count + 1]
                        ELSE h.msgs[m]]]

=============================================================================
