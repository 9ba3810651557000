-------------------------- MODULE Conversation_proofs --------------------------
(***************************************************************************)
(* What is proved of Conversation, for any number of questions and tasks,  *)
(* any capacity of the channel and any keys.                               *)
(*                                                                         *)
(* A question gets one session at most, no prompt is stranded, and no      *)
(* answer keeps its placeholder: a question is at one place at a time, not *)
(* submitted, in a command not sent yet, in the channel, being added, in a *)
(* request on its way to the LLM manager, pending there, or with a session.*)
(*                                                                         *)
(* The history is a tree, and its selection is as SelectionSound says: no  *)
(* message comes in twice, every method of ChatHistory keeps a tree one,   *)
(* and what somebody is about to select is held to what the selection is.  *)
(***************************************************************************)
EXTENDS Conversation, Induction, SequenceTheorems, TLAPS

(***************************************************************************)
(* The methods of ChatHistory.  To the kind and the status of the          *)
(* messages: only AddChild and AddInBackground bring a message in, only    *)
(* TryUpdate changes a status, and no method changes a kind.  To the tree: *)
(* every method leaves the messages a tree below the system prompt, whose  *)
(* path to the tail is the one on display.                                 *)
(***************************************************************************)

Shaped(r) ==
  r \in [kind : {r.kind}, status : {r.status}, context : {r.context}, tokens : {r.tokens},
         parent : {r.parent}, children : {r.children}, selected : {r.selected},
         lastTurn : {r.lastTurn}, count : {r.count}]

IsHistory(h) ==
  /\ h \in [msgs : {h.msgs}, current : {h.current}, tail : {h.tail}, path : {h.path},
            turn : {h.turn}]
  /\ h.msgs = [m \in DOMAIN h.msgs |-> h.msgs[m]]
  /\ \A m \in DOMAIN h.msgs : Shaped(h.msgs[m])

\* The message n is in both, with the same kind and status.
Carried(h, new, n) ==
  /\ Exists(h, n)
  /\ new.msgs[n].kind = h.msgs[n].kind
  /\ new.msgs[n].status = h.msgs[n].status

\* Nothing comes in, and nothing gets another kind or status.
NothingNew(h, new) ==
  IsHistory(new) /\ \A n \in DOMAIN new.msgs : Carried(h, new, n)

\* At most m comes in, with the kind and the status of message.
OnlyNew(h, new, m, message) ==
  /\ IsHistory(new)
  /\ \A n \in DOMAIN new.msgs :
       \/ n = m /\ new.msgs[n].kind = message.kind /\ new.msgs[n].status = message.status
       \/ n # m /\ Carried(h, new, n)

LEMMA RebuildKeeps ==
  ASSUME NEW h, IsHistory(h)
  PROVE  RebuildPath(h).msgs = h.msgs /\ IsHistory(RebuildPath(h))
  BY DEF RebuildPath, IsHistory

LEMMA MessageIsShaped ==
  ASSUME NEW kind, NEW status, NEW context, NEW tokens
  PROVE  /\ Shaped(Message(kind, status, context, tokens))
         /\ Message(kind, status, context, tokens).kind = kind
         /\ Message(kind, status, context, tokens).status = status
  BY DEF Message, Shaped

\* msgs is the messages of h and m, which is like message.
GrownBy(h, m, message, msgs) ==
  /\ msgs = [n \in DOMAIN msgs |-> msgs[n]]
  /\ DOMAIN msgs = DOMAIN h.msgs \cup {m}
  /\ \A n \in DOMAIN msgs :
       /\ Shaped(msgs[n])
       /\ n = m => msgs[n].kind = message.kind /\ msgs[n].status = message.status
       /\ n # m => /\ msgs[n].kind = h.msgs[n].kind
                   /\ msgs[n].status = h.msgs[n].status

LEMMA WithChildKeeps ==
  ASSUME NEW h, IsHistory(h), NEW parent, NEW m, NEW message, Shaped(message)
  PROVE  GrownBy(h, m, message, WithChild(h, parent, m, message))
<1> DEFINE msgs == WithChild(h, parent, m, message)
<1>1. DOMAIN msgs = DOMAIN h.msgs \cup {m} /\ msgs = [n \in DOMAIN msgs |-> msgs[n]]
  BY DEF WithChild
<1>2. \A n \in DOMAIN h.msgs : Shaped(h.msgs[n])
  BY DEF IsHistory
<1>3. \A n \in DOMAIN msgs :
        /\ Shaped(msgs[n])
        /\ n = m => msgs[n].kind = message.kind /\ msgs[n].status = message.status
        /\ n # m => /\ msgs[n].kind = h.msgs[n].kind
                    /\ msgs[n].status = h.msgs[n].status
  BY <1>2 DEF WithChild, Shaped
<1> QED BY <1>1, <1>3 DEF GrownBy

\* Selecting another message changes no message.
LEMMA SelectKeeps ==
  ASSUME NEW h, IsHistory(h), NEW m
  PROVE  /\ NothingNew(h, [h EXCEPT !.current = m])
         /\ [h EXCEPT !.current = m].msgs = h.msgs
  BY DEF NothingNew, Carried, Exists, IsHistory

LEMMA NewHistoryIsHistory ==
  /\ IsHistory(NewHistory) /\ DOMAIN NewHistory.msgs = {Root}
  /\ NewHistory.msgs[Root].kind = "System" /\ NewHistory.msgs[Root].status = "Completed"
  BY MessageIsShaped DEF NewHistory, IsHistory

LEMMA SameIsNothingNew ==
  ASSUME NEW h, IsHistory(h)
  PROVE  NothingNew(h, h)
  BY DEF NothingNew, Carried, Exists

LEMMA AddChildKeeps ==
  ASSUME NEW h, IsHistory(h), NEW parent, NEW m, NEW message, Shaped(message)
  PROVE  IF Exists(h, parent) THEN OnlyNew(h, AddChild(h, parent, m, message), m, message)
         ELSE AddChild(h, parent, m, message) = h
<1> DEFINE msgs == WithChild(h, parent, m, message)
           grown == [h EXCEPT !.msgs = msgs, !.tail = m]
<1>1. CASE Exists(h, parent)
  <2>0. GrownBy(h, m, message, msgs)
    BY WithChildKeeps
  <2>1. IsHistory(grown) /\ grown.msgs = msgs
    <3> HIDE DEF msgs
    <3> QED BY <2>0 DEF GrownBy, IsHistory
  <2> HIDE DEF grown
  <2>2. RebuildPath(grown).msgs = msgs /\ IsHistory(RebuildPath(grown))
    BY <2>1, RebuildKeeps
  <2>3. AddChild(h, parent, m, message) = RebuildPath(grown)
    BY <1>1 DEF AddChild, grown
  <2> HIDE DEF msgs
  <2> QED BY <1>1, <2>0, <2>2, <2>3 DEF GrownBy, OnlyNew, Carried, Exists
<1>2. CASE ~Exists(h, parent)
  BY <1>2 DEF AddChild
<1> QED BY <1>1, <1>2

LEMMA AddInBackgroundKeeps ==
  ASSUME NEW h, IsHistory(h), NEW parent, NEW m, NEW message, Shaped(message)
  PROVE  IF Exists(h, parent)
         THEN OnlyNew(h, AddInBackground(h, parent, m, message), m, message)
         ELSE AddInBackground(h, parent, m, message) = h
<1> DEFINE child == AddChild(h, parent, m, message)
           restored == [child EXCEPT !.tail = h.tail,
                                     !.msgs[parent].selected = h.msgs[parent].selected]
<1>1. CASE Exists(h, parent)
  <2>0. OnlyNew(h, child, m, message)
    BY <1>1, AddChildKeeps
  <2>1. IsHistory(child)
    BY <2>0 DEF OnlyNew
  <2> HIDE DEF child
  <2>2. /\ IsHistory(restored) /\ DOMAIN restored.msgs = DOMAIN child.msgs
        /\ \A n \in DOMAIN child.msgs : /\ restored.msgs[n].kind = child.msgs[n].kind
                                        /\ restored.msgs[n].status = child.msgs[n].status
    <3>1. restored = [child EXCEPT
                        !.tail = h.tail,
                        !.msgs = [child.msgs EXCEPT
                                    ![parent] = [child.msgs[parent] EXCEPT
                                                   !.selected = h.msgs[parent].selected]]]
      BY <2>1 DEF IsHistory
    <3> DEFINE msgs == [child.msgs EXCEPT
                          ![parent] = [child.msgs[parent] EXCEPT
                                         !.selected = h.msgs[parent].selected]]
    <3>2. /\ DOMAIN msgs = DOMAIN child.msgs /\ msgs = [n \in DOMAIN msgs |-> msgs[n]]
          /\ \A n \in DOMAIN child.msgs : /\ Shaped(msgs[n])
                                          /\ msgs[n].kind = child.msgs[n].kind
                                          /\ msgs[n].status = child.msgs[n].status
      BY <2>1 DEF IsHistory, Shaped
    <3>3. IsHistory(restored) /\ restored.msgs = msgs
      <4> HIDE DEF msgs
      <4>1. restored = [child EXCEPT !.tail = h.tail, !.msgs = msgs]
        BY <3>1 DEF msgs
      <4> HIDE DEF restored
      <4> QED BY <2>1, <3>2, <4>1 DEF IsHistory
    <3> QED BY <3>2, <3>3
  <2>3. AddInBackground(h, parent, m, message) = RebuildPath(restored)
    BY <1>1 DEF AddInBackground, child
  <2> HIDE DEF restored
  <2>4. RebuildPath(restored).msgs = restored.msgs /\ IsHistory(RebuildPath(restored))
    BY <2>2, RebuildKeeps
  <2> QED BY <1>1, <2>0, <2>2, <2>3, <2>4 DEF OnlyNew, Carried, Exists
<1>2. CASE ~Exists(h, parent)
  BY <1>2 DEF AddInBackground
<1> QED BY <1>1, <1>2

LEMMA DeleteSubtreeKeeps ==
  ASSUME NEW h, IsHistory(h), NEW m
  PROVE  NothingNew(h, DeleteSubtree(h, m))
<1>1. CASE IsDeletable(h, m)
  <2> DEFINE parent == h.msgs[m].parent
             gone == { n \in DOMAIN h.msgs : m \in ToSet(PathTo(h, n)) }
             kept == Splice(h.msgs[parent].children, m, <<>>)
             without == Without(h, gone)
             msgs == [without EXCEPT
                        ![parent].children = kept,
                        ![parent].selected = IF @ = m THEN LastOr(kept, NoMessage) ELSE @]
             new == [h EXCEPT !.msgs = msgs,
                              !.tail = IF @ \in gone THEN parent ELSE @,
                              !.current = IF @ \in gone THEN parent ELSE @]
  <2>1. DeleteSubtree(h, m) = RebuildPath(new)
    BY <1>1 DEF DeleteSubtree
  <2>2. /\ DOMAIN msgs \subseteq DOMAIN h.msgs /\ msgs = [n \in DOMAIN msgs |-> msgs[n]]
        /\ \A n \in DOMAIN msgs : /\ Shaped(msgs[n])
                                  /\ msgs[n].kind = h.msgs[n].kind
                                  /\ msgs[n].status = h.msgs[n].status
    <3> HIDE DEF gone, kept, parent
    <3> DEFINE first == [without EXCEPT ![parent] = [without[parent] EXCEPT !.children = kept]]
               next == [first EXCEPT
                          ![parent] = [first[parent] EXCEPT
                                         !.selected = IF without[parent].selected = m
                                                      THEN LastOr(kept, NoMessage)
                                                      ELSE without[parent].selected]]
    <3>1. msgs = next
      OBVIOUS
    <3>2. /\ DOMAIN without \subseteq DOMAIN h.msgs
          /\ without = [n \in DOMAIN without |-> without[n]]
          /\ \A n \in DOMAIN without : Shaped(without[n]) /\ without[n] = h.msgs[n]
      BY DEF Without, IsHistory
    <3> HIDE DEF without, msgs
    <3>3. /\ DOMAIN first = DOMAIN without /\ first = [n \in DOMAIN first |-> first[n]]
          /\ \A n \in DOMAIN first : /\ Shaped(first[n])
                                     /\ first[n].kind = h.msgs[n].kind
                                     /\ first[n].status = h.msgs[n].status
      BY <3>2 DEF Shaped
    <3> HIDE DEF first
    <3>4. /\ DOMAIN next = DOMAIN first /\ next = [n \in DOMAIN next |-> next[n]]
          /\ \A n \in DOMAIN next : /\ Shaped(next[n])
                                    /\ next[n].kind = h.msgs[n].kind
                                    /\ next[n].status = h.msgs[n].status
      BY <3>3 DEF Shaped
    <3> QED BY <3>1, <3>2, <3>3, <3>4
  <2>3. IsHistory(new) /\ new.msgs = msgs
    <3> HIDE DEF msgs
    <3> QED BY <2>2 DEF IsHistory
  <2> HIDE DEF new, msgs
  <2> QED BY <2>1, <2>2, <2>3, RebuildKeeps DEF NothingNew, Carried, Exists
<1>2. CASE ~IsDeletable(h, m)
  BY <1>2, SameIsNothingNew DEF DeleteSubtree
<1> QED BY <1>1, <1>2

LEMMA DeleteNodeKeeps ==
  ASSUME NEW h, IsHistory(h), NEW m
  PROVE  NothingNew(h, DeleteNode(h, m))
<1>1. CASE IsDeletable(h, m)
  <2> DEFINE parent == h.msgs[m].parent
             children == h.msgs[m].children
             spliced == Splice(h.msgs[parent].children, m, children)
             msgs == [n \in DOMAIN h.msgs \ {m} |->
                        IF n \in ToSet(children) THEN [h.msgs[n] EXCEPT !.parent = parent]
                        ELSE IF n = parent
                        THEN [h.msgs[n] EXCEPT
                                !.children = spliced,
                                !.selected = IF @ = m
                                             THEN FirstOr(children, LastOr(spliced, NoMessage))
                                             ELSE @]
                        ELSE h.msgs[n]]
             new == [h EXCEPT !.msgs = msgs,
                              !.tail = IF @ = m THEN LastOr(children, parent) ELSE @,
                              !.current = IF @ = m THEN FirstOr(children, parent) ELSE @]
  <2>1. DeleteNode(h, m) = RebuildPath(new)
    BY <1>1 DEF DeleteNode
  <2>2. /\ DOMAIN msgs \subseteq DOMAIN h.msgs /\ msgs = [n \in DOMAIN msgs |-> msgs[n]]
        /\ \A n \in DOMAIN msgs : /\ Shaped(msgs[n])
                                  /\ msgs[n].kind = h.msgs[n].kind
                                  /\ msgs[n].status = h.msgs[n].status
    <3> HIDE DEF spliced, children, parent
    <3> QED BY DEF IsHistory, Shaped
  <2>3. IsHistory(new) /\ new.msgs = msgs
    <3> HIDE DEF msgs
    <3> QED BY <2>2 DEF IsHistory
  <2> HIDE DEF new, msgs
  <2> QED BY <2>1, <2>2, <2>3, RebuildKeeps DEF NothingNew, Carried, Exists
<1>2. CASE ~IsDeletable(h, m)
  BY <1>2, SameIsNothingNew DEF DeleteNode
<1> QED BY <1>1, <1>2

LEMMA NavigateKeeps ==
  ASSUME NEW h, IsHistory(h), NEW direction
  PROVE  NothingNew(h, NavigateList(h, direction))
  BY SelectKeeps DEF NavigateList

LEMMA DecrementTtlKeeps ==
  ASSUME NEW h, IsHistory(h), NEW ids
  PROVE  NothingNew(h, DecrementTtl(h, ids))
<1> DEFINE msgs == [m \in DOMAIN h.msgs |->
                      IF m \in ids /\ h.msgs[m].context.class = "leased"
                      THEN [h.msgs[m] EXCEPT !.context.ttl = Max({h.msgs[m].context.ttl - 1, 0})]
                      ELSE h.msgs[m]]
<1>1. /\ DOMAIN msgs = DOMAIN h.msgs /\ msgs = [n \in DOMAIN msgs |-> msgs[n]]
      /\ \A n \in DOMAIN msgs : /\ Shaped(msgs[n])
                                /\ msgs[n].kind = h.msgs[n].kind
                                /\ msgs[n].status = h.msgs[n].status
  BY DEF IsHistory, Shaped
<1>2. DecrementTtl(h, ids) = [h EXCEPT !.msgs = msgs]
  BY DEF DecrementTtl
<1> HIDE DEF msgs
<1> QED BY <1>1, <1>2 DEF NothingNew, Carried, Exists, IsHistory

LEMMA AfterPromptKeeps ==
  ASSUME NEW h, IsHistory(h)
  PROVE  NothingNew(h, AfterPrompt(h))
  BY DEF AfterPrompt, NothingNew, Carried, Exists, IsHistory, Shaped

\* No kind changes, and no status but that of m, which is not a placeholder any more.
Closes(h, new, m) ==
  /\ IsHistory(new) /\ DOMAIN new.msgs = DOMAIN h.msgs
  /\ \A n \in DOMAIN h.msgs :
       /\ new.msgs[n].kind = h.msgs[n].kind
       /\ n # m => new.msgs[n].status = h.msgs[n].status
  /\ Exists(h, m) => new.msgs[m].status # "Generating"

LEMMA TryUpdateCloses ==
  ASSUME NEW h, IsHistory(h), NEW m, NEW status \in {"Completed", "Error"}, NEW tokens
  PROVE  Closes(h, TryUpdate(h, m, status, tokens), m)
<1> DEFINE new == TryUpdate(h, m, status, tokens)
           becomes == IF status = "Completed" /\ tokens = 0 THEN "Error" ELSE status
           message == [h.msgs[m] EXCEPT !.status = becomes, !.tokens = tokens]
           msgs == [h.msgs EXCEPT ![m] = message]
<1>1. CASE Exists(h, m) /\ MayBecome(h.msgs[m].status, status)
  <2>1. new = [h EXCEPT !.msgs = msgs]
    BY <1>1 DEF TryUpdate
  <2> HIDE DEF new
  <2>2. becomes # "Generating"
    OBVIOUS
  <2>3. Shaped(message) /\ message.kind = h.msgs[m].kind /\ message.status # "Generating"
    <3> HIDE DEF becomes
    <3> QED BY <1>1, <2>2 DEF IsHistory, Shaped, Exists
  <2>4. /\ DOMAIN msgs = DOMAIN h.msgs /\ msgs = [n \in DOMAIN msgs |-> msgs[n]]
        /\ \A n \in DOMAIN msgs : /\ Shaped(msgs[n])
                                  /\ msgs[n].kind = h.msgs[n].kind
                                  /\ n # m => msgs[n].status = h.msgs[n].status
        /\ msgs[m].status # "Generating"
    <3> HIDE DEF message
    <3> QED BY <1>1, <2>3 DEF IsHistory, Exists
  <2> HIDE DEF msgs
  <2>5. Closes(h, new, m)
    BY <1>1, <2>1, <2>4 DEF Closes, IsHistory, Exists
  <2> QED BY <2>5 DEF new
<1>2. CASE ~Exists(h, m) \/ ~MayBecome(h.msgs[m].status, status)
  BY <1>2 DEF TryUpdate, MayBecome, Closes, Exists
<1> QED BY <1>1, <1>2

\* It is a message of the user that is there, if any.
LEMMA LastUserMessageIsThere ==
  ASSUME NEW h, LastUserMessage(h) # NoMessage
  PROVE  Exists(h, LastUserMessage(h)) /\ h.msgs[LastUserMessage(h)].kind = "User"
  BY DEF LastUserMessage

(***************************************************************************)
(* Lists: what is left when an entry is replaced by a list.                *)
(***************************************************************************)

\* u is the list s with t in the place of its entry k, m.
SplicedAt(S, s, k, m, t, u) ==
  /\ s[k] = m
  /\ u \in Seq(S)
  /\ Len(u) = Len(s) - 1 + Len(t)
  /\ \A j \in 1 .. k - 1 : u[j] = s[j]
  /\ \A j \in 1 .. Len(t) : u[k - 1 + j] = t[j]
  /\ \A j \in k + 1 .. Len(s) : u[j - 1 + Len(t)] = s[j]

LEMMA SpliceIsSpliced ==
  ASSUME NEW S, NEW s \in Seq(S), NEW t \in Seq(S), NEW m, m \in ToSet(s)
  PROVE  \E k \in 1 .. Len(s) : SplicedAt(S, s, k, m, t, Splice(s, m, t))
<1> DEFINE k == CHOOSE j \in DOMAIN s : s[j] = m
           u == Splice(s, m, t)
           head == SubSeq(s, 1, k - 1)
           rest == SubSeq(s, k + 1, Len(s))
<1>0. Len(s) \in Nat /\ Len(t) \in Nat /\ DOMAIN s = 1 .. Len(s) /\ DOMAIN t = 1 .. Len(t)
  OBVIOUS
<1>1. k \in 1 .. Len(s) /\ s[k] = m
  <2>1. \E j \in DOMAIN s : s[j] = m
    BY DEF ToSet
  <2> QED BY <1>0, <2>1
<1>2. u = head \o t \o rest
  BY DEF Splice
<1> HIDE DEF k, u
<1>3. /\ head \in Seq(S) /\ Len(head) = k - 1 /\ \A j \in 1 .. k - 1 : head[j] = s[j]
  BY <1>0, <1>1, SubSeqProperties
<1>4. /\ rest \in Seq(S) /\ Len(rest) = Len(s) - k
      /\ \A j \in 1 .. Len(s) - k : rest[j] = s[j + k]
  <2>1. k + 1 \in Int /\ Len(s) \in Int /\ \A j \in k + 1 .. Len(s) : s[j] \in S
    BY <1>0, <1>1
  <2>2. /\ rest \in Seq(S)
        /\ Len(rest) = IF k + 1 <= Len(s) THEN Len(s) - (k + 1) + 1 ELSE 0
        /\ \A j \in 1 .. Len(s) - (k + 1) + 1 : rest[j] = s[(k + 1) + j - 1]
    BY <2>1, SubSeqProperties
  <2> HIDE DEF rest
  <2>3. ASSUME NEW j \in 1 .. Len(s) - k PROVE rest[j] = s[j + k]
    <3>1. j \in 1 .. Len(s) - (k + 1) + 1 /\ (k + 1) + j - 1 = j + k
      BY <1>0, <1>1
    <3>2. rest[j] = s[(k + 1) + j - 1]
      BY <2>2, <3>1
    <3> QED BY <3>1, <3>2
  <2>4. Len(rest) = Len(s) - k
    <3>1. CASE k + 1 <= Len(s)
      <4>1. Len(rest) = Len(s) - (k + 1) + 1
        BY <2>2, <3>1
      <4> QED BY <1>0, <1>1, <4>1
    <3>2. CASE ~(k + 1 <= Len(s))
      <4>1. Len(rest) = 0
        BY <2>2, <3>2
      <4>2. k \in Int /\ Len(s) \in Int /\ k <= Len(s)
        BY <1>0, <1>1
      <4>3. Len(s) - k = 0
        BY <3>2, <4>2
      <4> QED BY <4>1, <4>3
    <3> QED BY <3>1, <3>2
  <2> QED BY <2>2, <2>3, <2>4
<1> HIDE DEF head, rest
<1>5. /\ head \o t \in Seq(S) /\ Len(head \o t) = k - 1 + Len(t)
      /\ \A j \in 1 .. k - 1 : (head \o t)[j] = s[j]
      /\ \A j \in 1 .. Len(t) : (head \o t)[k - 1 + j] = t[j]
  <2>1. /\ head \o t \in Seq(S) /\ Len(head \o t) = Len(head) + Len(t)
        /\ \A i \in 1 .. Len(head) + Len(t) :
             (head \o t)[i] = IF i <= Len(head) THEN head[i] ELSE t[i - Len(head)]
    BY <1>3, ConcatProperties
  <2> DEFINE v == head \o t
  <2> HIDE DEF v
  <2>2. Len(head) = k - 1 /\ k - 1 \in Nat
    BY <1>1, <1>3
  <2>3. \A j \in 1 .. k - 1 : v[j] = s[j]
    <3>1. \A j \in 1 .. k - 1 : v[j] = head[j]
      BY <1>0, <2>1, <2>2 DEF v
    <3> QED BY <1>3, <3>1
  <2>4. ASSUME NEW j \in 1 .. Len(t) PROVE v[k - 1 + j] = t[j]
    <3> DEFINE i == k - 1 + j
    <3>1. i \in 1 .. k - 1 + Len(t) /\ ~(i <= k - 1) /\ i - (k - 1) = j
      BY <1>0, <2>2
    <3> HIDE DEF i
    <3>2. v[i] = t[j]
      BY <2>1, <2>2, <3>1 DEF v
    <3> QED BY <3>2 DEF i
  <2> QED BY <2>1, <2>2, <2>3, <2>4 DEF v
<1>6. /\ u \in Seq(S) /\ Len(u) = Len(s) - 1 + Len(t)
      /\ \A j \in 1 .. k - 1 + Len(t) : u[j] = (head \o t)[j]
      /\ \A j \in 1 .. Len(s) - k : u[k - 1 + Len(t) + j] = rest[j]
  <2> DEFINE v == head \o t
  <2>1. v \in Seq(S) /\ Len(v) = k - 1 + Len(t) /\ u = v \o rest
    BY <1>2, <1>5
  <2> HIDE DEF v
  <2>2. /\ u \in Seq(S) /\ Len(u) = Len(v) + Len(rest)
        /\ \A j \in 1 .. Len(v) + Len(rest) :
             u[j] = IF j <= Len(v) THEN v[j] ELSE rest[j - Len(v)]
    <3>1. rest \in Seq(S) /\ v \in Seq(S) /\ u = v \o rest
      BY <1>4, <2>1
    <3> QED BY <3>1, ConcatProperties
  <2>3. \A j \in 1 .. k - 1 + Len(t) : u[j] = v[j]
    BY <1>0, <1>1, <1>4, <2>1, <2>2
  <2>4. ASSUME NEW j \in 1 .. Len(s) - k PROVE u[k - 1 + Len(t) + j] = rest[j]
    <3> DEFINE i == k - 1 + Len(t) + j
    <3>1. i \in 1 .. Len(v) + Len(rest) /\ ~(i <= Len(v)) /\ i - Len(v) = j
      BY <1>0, <1>1, <1>4, <2>1
    <3> HIDE DEF i
    <3>2. u[i] = rest[j]
      BY <2>2, <3>1
    <3> QED BY <3>2 DEF i
  <2>5. Len(u) = Len(s) - 1 + Len(t)
    BY <1>0, <1>1, <1>4, <2>1, <2>2
  <2> QED BY <2>2, <2>3, <2>4, <2>5 DEF v
<1>7. \A j \in 1 .. k - 1 : u[j] = s[j]
  <2>1. \A j \in 1 .. k - 1 : j \in 1 .. k - 1 + Len(t)
    BY <1>0, <1>1
  <2> QED BY <1>5, <1>6, <2>1
<1>8. ASSUME NEW j \in 1 .. Len(t) PROVE u[k - 1 + j] = t[j]
  <2>1. k - 1 + j \in 1 .. k - 1 + Len(t)
    BY <1>0, <1>1
  <2> QED BY <1>5, <1>6, <2>1
<1>9. ASSUME NEW j \in k + 1 .. Len(s) PROVE u[j - 1 + Len(t)] = s[j]
  <2>1. /\ j - k \in 1 .. Len(s) - k /\ k - 1 + Len(t) + (j - k) = j - 1 + Len(t)
        /\ (j - k) + k = j
    BY <1>0, <1>1
  <2>2. u[k - 1 + Len(t) + (j - k)] = rest[j - k]
    BY <1>6, <2>1
  <2>3. rest[j - k] = s[(j - k) + k]
    BY <1>4, <2>1
  <2> QED BY <2>1, <2>2, <2>3
<1> QED BY <1>1, <1>6, <1>7, <1>8, <1>9 DEF u, SplicedAt

\* Splicing keeps a list without repetitions one, if what comes in was not in it.
LEMMA SpliceSound ==
  ASSUME NEW S, NEW s \in Seq(S), NEW t \in Seq(S), NEW m, m \in ToSet(s),
         IsInjective(s), IsInjective(t), ToSet(s) \cap ToSet(t) = {}
  PROVE  /\ Splice(s, m, t) \in Seq(S) /\ IsInjective(Splice(s, m, t))
         /\ ToSet(Splice(s, m, t)) = (ToSet(s) \ {m}) \cup ToSet(t)
<1> DEFINE u == Splice(s, m, t)
<1>0. Len(s) \in Nat /\ Len(t) \in Nat /\ DOMAIN s = 1 .. Len(s) /\ DOMAIN t = 1 .. Len(t)
  OBVIOUS
<1>1. PICK k \in 1 .. Len(s) : SplicedAt(S, s, k, m, t, u)
  BY SpliceIsSpliced
<1>a. /\ s[k] = m /\ u \in Seq(S) /\ Len(u) = Len(s) - 1 + Len(t)
      /\ \A j \in 1 .. k - 1 : u[j] = s[j]
      /\ \A j \in 1 .. Len(t) : u[k - 1 + j] = t[j]
      /\ \A j \in k + 1 .. Len(s) : u[j - 1 + Len(t)] = s[j]
  BY <1>1 DEF SplicedAt
<1> HIDE DEF u
<1>2. DOMAIN u = 1 .. Len(s) - 1 + Len(t)
  BY <1>a
<1>3. /\ \A i, j \in 1 .. Len(s) : s[i] = s[j] => i = j
      /\ \A i, j \in 1 .. Len(t) : t[i] = t[j] => i = j
  BY <1>0 DEF IsInjective
<1>4. \A i \in 1 .. Len(s), j \in 1 .. Len(t) : s[i] # t[j]
  BY <1>0 DEF ToSet
\* Where each entry comes from.
<1>5. ASSUME NEW j \in DOMAIN u
      PROVE  \/ j <= k - 1 /\ j \in 1 .. Len(s) /\ u[j] = s[j]
             \/ j >= k /\ j - k + 1 \in 1 .. Len(t) /\ u[j] = t[j - k + 1]
             \/ j >= k + Len(t) /\ j + 1 - Len(t) \in k + 1 .. Len(s)
                /\ u[j] = s[j + 1 - Len(t)]
  <2>1. CASE j <= k - 1
    BY <1>0, <1>a, <1>2, <2>1
  <2>2. CASE j >= k /\ j < k + Len(t)
    <3>1. j - k + 1 \in 1 .. Len(t) /\ k - 1 + (j - k + 1) = j
      BY <1>0, <1>a, <1>2, <2>2
    <3> QED BY <1>a, <2>2, <3>1
  <2>3. CASE j >= k + Len(t)
    <3>1. j + 1 - Len(t) \in k + 1 .. Len(s) /\ (j + 1 - Len(t)) - 1 + Len(t) = j
      BY <1>0, <1>a, <1>2, <2>3
    <3> QED BY <1>a, <2>3, <3>1
  <2> QED BY <1>0, <1>2, <2>1, <2>2, <2>3
<1>6. IsInjective(u)
  <2> SUFFICES ASSUME NEW i \in DOMAIN u, NEW j \in DOMAIN u, u[i] = u[j] PROVE i = j
    BY DEF IsInjective
  <2> DEFINE From(n) == n >= k + Len(t) /\ n + 1 - Len(t) \in k + 1 .. Len(s)
                           /\ u[n] = s[n + 1 - Len(t)]
  <2>0. i \in Int /\ j \in Int
    BY <1>0, <1>2
  <2>1. CASE i <= k - 1 /\ i \in 1 .. Len(s) /\ u[i] = s[i]
    <3>1. CASE j <= k - 1 /\ j \in 1 .. Len(s) /\ u[j] = s[j]
      BY <1>3, <2>1, <3>1
    <3>2. CASE j >= k /\ j - k + 1 \in 1 .. Len(t) /\ u[j] = t[j - k + 1]
      BY <1>4, <2>1, <3>2
    <3>3. CASE From(j)
      <4>0. j + 1 - Len(t) \in 1 .. Len(s)
        BY <1>0, <3>3
      <4>1. i = j + 1 - Len(t)
        BY <1>3, <2>1, <3>3, <4>0
      <4> QED BY <1>0, <2>0, <2>1, <3>3, <4>1
    <3> QED BY <1>5, <3>1, <3>2, <3>3
  <2>2. CASE i >= k /\ i - k + 1 \in 1 .. Len(t) /\ u[i] = t[i - k + 1]
    <3>1. CASE j <= k - 1 /\ j \in 1 .. Len(s) /\ u[j] = s[j]
      BY <1>4, <2>2, <3>1
    <3>2. CASE j >= k /\ j - k + 1 \in 1 .. Len(t) /\ u[j] = t[j - k + 1]
      <4>1. i - k + 1 = j - k + 1
        BY <1>3, <2>2, <3>2
      <4> QED BY <2>0, <4>1
    <3>3. CASE From(j)
      <4>1. j + 1 - Len(t) \in 1 .. Len(s)
        BY <1>0, <3>3
      <4> QED BY <1>4, <2>2, <3>3, <4>1
    <3> QED BY <1>5, <3>1, <3>2, <3>3
  <2>3. CASE From(i)
    <3>0. i + 1 - Len(t) \in 1 .. Len(s)
      BY <1>0, <2>3
    <3>1. CASE j <= k - 1 /\ j \in 1 .. Len(s) /\ u[j] = s[j]
      <4>1. j = i + 1 - Len(t)
        BY <1>3, <2>3, <3>0, <3>1
      <4> QED BY <1>0, <2>0, <2>3, <3>1, <4>1
    <3>2. CASE j >= k /\ j - k + 1 \in 1 .. Len(t) /\ u[j] = t[j - k + 1]
      BY <1>4, <2>3, <3>0, <3>2
    <3>3. CASE From(j)
      <4>1. j + 1 - Len(t) \in 1 .. Len(s)
        BY <1>0, <3>3
      <4>2. i + 1 - Len(t) = j + 1 - Len(t)
        BY <1>3, <2>3, <3>0, <3>3, <4>1
      <4> QED BY <1>0, <2>0, <4>2
    <3> QED BY <1>5, <3>1, <3>2, <3>3
  <2> QED BY <1>5, <2>1, <2>2, <2>3
<1>7. ASSUME NEW x \in ToSet(u) PROVE x \in (ToSet(s) \ {m}) \cup ToSet(t)
  <2>1. PICK j \in DOMAIN u : x = u[j]
    BY DEF ToSet
  <2>2. CASE j <= k - 1 /\ j \in 1 .. Len(s) /\ u[j] = s[j]
    <3>1. s[j] # s[k]
      BY <1>0, <1>3, <2>2
    <3> QED BY <1>0, <1>a, <2>1, <2>2, <3>1 DEF ToSet
  <2>3. CASE j >= k /\ j - k + 1 \in 1 .. Len(t) /\ u[j] = t[j - k + 1]
    BY <1>0, <2>1, <2>3 DEF ToSet
  <2>4. CASE j >= k + Len(t) /\ j + 1 - Len(t) \in k + 1 .. Len(s)
             /\ u[j] = s[j + 1 - Len(t)]
    <3>1. j + 1 - Len(t) \in 1 .. Len(s) /\ s[j + 1 - Len(t)] # s[k]
      BY <1>0, <1>3, <2>4
    <3> QED BY <1>0, <1>a, <2>1, <2>4, <3>1 DEF ToSet
  <2> QED BY <1>5, <2>2, <2>3, <2>4
<1>8. ASSUME NEW x \in (ToSet(s) \ {m}) \cup ToSet(t) PROVE x \in ToSet(u)
  <2>1. CASE x \in ToSet(t)
    <3>1. PICK j \in 1 .. Len(t) : x = t[j]
      BY <1>0, <2>1 DEF ToSet
    <3>2. k - 1 + j \in DOMAIN u
      BY <1>0, <1>2
    <3> QED BY <1>a, <3>1, <3>2 DEF ToSet
  <2>2. CASE x \in ToSet(s) /\ x # m
    <3>1. PICK j \in 1 .. Len(s) : x = s[j]
      BY <1>0, <2>2 DEF ToSet
    <3>2. j # k
      BY <1>a, <2>2, <3>1
    <3>3. CASE j < k
      <4>1. j \in DOMAIN u /\ j \in 1 .. k - 1
        BY <1>0, <1>2, <3>3
      <4> QED BY <1>a, <3>1, <4>1 DEF ToSet
    <3>4. CASE j > k
      <4>1. j - 1 + Len(t) \in DOMAIN u /\ j \in k + 1 .. Len(s)
        BY <1>0, <1>2, <3>4
      <4> QED BY <1>a, <3>1, <4>1 DEF ToSet
    <3> QED BY <3>2, <3>3, <3>4
  <2> QED BY <2>1, <2>2
<1>9. ToSet(u) = (ToSet(s) \ {m}) \cup ToSet(t)
  BY <1>7, <1>8
<1> QED BY <1>a, <1>6, <1>9 DEF u

(***************************************************************************)
(* The messages as a tree, and induction from the root downwards.          *)
(***************************************************************************)

\* rank counts up from a message to those below it.
Ranks(msgs, N, rank) ==
  /\ rank \in [DOMAIN msgs -> 0 .. N]
  /\ \A n \in DOMAIN msgs :
       msgs[n].parent \in DOMAIN msgs => rank[msgs[n].parent] < rank[n]

Ordered(msgs) == \E N \in Nat : \E rank : Ranks(msgs, N, rank)

\* A message is listed once, with its parent.
Listed(msgs, n) ==
  /\ msgs[n].children \in Seq(DOMAIN msgs) /\ IsInjective(msgs[n].children)
  /\ ToSet(msgs[n].children) = { c \in DOMAIN msgs : msgs[c].parent = n }
  /\ msgs[n].selected \in ToSet(msgs[n].children) \cup {NoMessage}

Tree(msgs) ==
  /\ Root \in DOMAIN msgs /\ NoMessage \notin DOMAIN msgs
  /\ msgs[Root].parent = NoMessage
  /\ \A n \in DOMAIN msgs : n # Root => msgs[n].parent \in DOMAIN msgs
  /\ \A n \in DOMAIN msgs : Listed(msgs, n)
  /\ Ordered(msgs)

\* What holds of a message when it holds of its parent holds of all.
LEMMA Downwards ==
  ASSUME NEW msgs, Ordered(msgs), NEW T,
         \A n \in DOMAIN msgs :
           (msgs[n].parent \in DOMAIN msgs => msgs[n].parent \in T) => n \in T
  PROVE  \A n \in DOMAIN msgs : n \in T
<1>1. PICK N \in Nat : \E rank : Ranks(msgs, N, rank)
  BY DEF Ordered
<1>2. PICK rank : Ranks(msgs, N, rank)
  BY <1>1
<1> DEFINE Upto(k) == \A n \in DOMAIN msgs : rank[n] <= k => n \in T
           K == { k \in 0 .. N : Upto(k) }
<1>3. /\ \A n \in DOMAIN msgs : rank[n] \in 0 .. N
      /\ \A n \in DOMAIN msgs : msgs[n].parent \in DOMAIN msgs => rank[msgs[n].parent] < rank[n]
  BY <1>2 DEF Ranks
<1>4. 0 \in K
  <2> SUFFICES ASSUME NEW n \in DOMAIN msgs, rank[n] <= 0 PROVE n \in T
    OBVIOUS
  <2>1. msgs[n].parent \notin DOMAIN msgs
    <3> SUFFICES ASSUME msgs[n].parent \in DOMAIN msgs PROVE FALSE
      OBVIOUS
    <3>1. rank[msgs[n].parent] \in 0 .. N /\ rank[msgs[n].parent] < rank[n] /\ rank[n] \in 0 .. N
      BY <1>3
    <3> QED BY <3>1
  <2> QED BY <2>1
<1>5. ASSUME NEW k \in 0 .. N, k < N, k \in K PROVE k + 1 \in K
  <2>1. k + 1 \in 0 .. N
    BY <1>1, <1>5
  <2> SUFFICES ASSUME NEW n \in DOMAIN msgs, rank[n] <= k + 1 PROVE n \in T
    BY <2>1
  <2>2. msgs[n].parent \in DOMAIN msgs => msgs[n].parent \in T
    <3> SUFFICES ASSUME msgs[n].parent \in DOMAIN msgs PROVE msgs[n].parent \in T
      OBVIOUS
    <3>1. rank[msgs[n].parent] \in 0 .. N /\ rank[msgs[n].parent] < rank[n] /\ rank[n] \in 0 .. N
      BY <1>3
    <3>2. rank[msgs[n].parent] <= k
      BY <3>1
    <3> QED BY <1>5, <3>2
  <2> QED BY <2>2
<1>6. N \in K
  <2>1. N \in 0 .. N
    BY <1>1
  <2> HIDE DEF K
  <2> QED BY <1>1, <1>4, <1>5, <2>1, UpTo
<1> QED BY <1>3, <1>6

\* One step of the recursion.
Up(msgs, f, n) ==
  IF msgs[n].parent \in DOMAIN msgs THEN Append(f[msgs[n].parent], n) ELSE <<n>>

\* The recursion is well founded: the paths are given by it.
LEMMA PathsDef ==
  ASSUME NEW msgs, Ordered(msgs)
  PROVE  Paths(msgs) = [n \in DOMAIN msgs |-> Up(msgs, Paths(msgs), n)]
<1>1. PICK N \in Nat : \E rank : Ranks(msgs, N, rank)
  BY DEF Ordered
<1>2. PICK rank : Ranks(msgs, N, rank)
  BY <1>1
<1> DEFINE D(k) == { n \in DOMAIN msgs : rank[n] <= k }
           Ups(g, k) == g = [n \in D(k) |-> Up(msgs, g, n)]
           K == { k \in 0 .. N : \E g : Ups(g, k) }
<1>3. /\ \A n \in DOMAIN msgs : rank[n] \in 0 .. N
      /\ \A n \in DOMAIN msgs : msgs[n].parent \in DOMAIN msgs => rank[msgs[n].parent] < rank[n]
  BY <1>2 DEF Ranks
<1>4. 0 \in K
  <2> DEFINE g == [n \in D(0) |-> <<n>>]
  <2>1. ASSUME NEW n \in D(0) PROVE Up(msgs, g, n) = <<n>>
    <3>1. msgs[n].parent \notin DOMAIN msgs
      <4> SUFFICES ASSUME msgs[n].parent \in DOMAIN msgs PROVE FALSE
        OBVIOUS
      <4>1. /\ rank[msgs[n].parent] \in 0 .. N /\ rank[msgs[n].parent] < rank[n]
            /\ rank[n] \in 0 .. N /\ rank[n] <= 0
        BY <1>3
      <4> QED BY <4>1
    <3> QED BY <3>1 DEF Up
  <2>2. Ups(g, 0)
    BY <2>1
  <2>3. 0 \in 0 .. N
    BY <1>1
  <2> HIDE DEF g, Ups
  <2> QED BY <2>2, <2>3
<1>5. ASSUME NEW k \in 0 .. N, k < N, k \in K PROVE k + 1 \in K
  <2>1. k + 1 \in 0 .. N
    BY <1>1, <1>5
  <2>2. PICK g : Ups(g, k)
    BY <1>5
  <2> DEFINE h == [n \in D(k + 1) |-> Up(msgs, g, n)]
  <2>3. ASSUME NEW n \in D(k) PROVE h[n] = g[n]
    <3>1. n \in D(k + 1)
      BY <1>3
    <3>2. g[n] = Up(msgs, g, n)
      BY <2>2
    <3> QED BY <3>1, <3>2
  <2>4. ASSUME NEW n \in D(k + 1) PROVE Up(msgs, g, n) = Up(msgs, h, n)
    <3>1. ASSUME msgs[n].parent \in DOMAIN msgs PROVE msgs[n].parent \in D(k)
      <4>1. /\ rank[msgs[n].parent] \in 0 .. N /\ rank[msgs[n].parent] < rank[n]
            /\ rank[n] \in 0 .. N /\ rank[n] <= k + 1
        BY <1>3, <3>1
      <4> QED BY <3>1, <4>1
    <3> HIDE DEF h, D
    <3> QED BY <2>3, <3>1 DEF Up
  <2>5. Ups(h, k + 1)
    <3>1. \A n \in D(k + 1) : Up(msgs, g, n) = Up(msgs, h, n)
      BY <2>4
    <3> HIDE DEF D
    <3>2. h = [n \in D(k + 1) |-> Up(msgs, g, n)]
      OBVIOUS
    <3> HIDE DEF h
    <3> QED BY <3>1, <3>2
  <2> HIDE DEF h, Ups
  <2> QED BY <2>1, <2>5
<1>6. N \in K
  <2>1. N \in 0 .. N
    BY <1>1
  <2> HIDE DEF K
  <2> QED BY <1>1, <1>4, <1>5, <2>1, UpTo
<1>7. PICK g : Ups(g, N)
  BY <1>6
<1>8. D(N) = DOMAIN msgs
  BY <1>3
<1>9. Paths(msgs) = CHOOSE f : f = [n \in DOMAIN msgs |-> Up(msgs, f, n)]
  BY DEF Paths, Up
<1>10. g = [n \in DOMAIN msgs |-> Up(msgs, g, n)]
  BY <1>7, <1>8
<1> QED BY <1>9, <1>10

(***************************************************************************)
(* The paths of a tree, and a tree with one more message.                  *)
(***************************************************************************)

LEMMA AppendSet ==
  ASSUME NEW S, NEW s \in Seq(S), NEW x
  PROVE  ToSet(Append(s, x)) = ToSet(s) \cup {x}
<1> DEFINE t == Append(s, x)
<1>1. /\ DOMAIN t = 1 .. Len(s) + 1 /\ DOMAIN s = 1 .. Len(s) /\ Len(s) \in Nat
      /\ t[Len(s) + 1] = x /\ \A i \in 1 .. Len(s) : t[i] = s[i]
  OBVIOUS
<1> HIDE DEF t
<1>2. \A i \in DOMAIN t : i \in DOMAIN s \/ i = Len(s) + 1
  BY <1>1
<1>3. Len(s) + 1 \in DOMAIN t /\ \A i \in DOMAIN s : i \in DOMAIN t
  BY <1>1
<1> QED BY <1>1, <1>2, <1>3 DEF ToSet, t

\* A path is that of the parent and the message.
LEMMA PathSteps ==
  ASSUME NEW msgs, Tree(msgs)
  PROVE  /\ Paths(msgs)[Root] = <<Root>>
         /\ \A n \in DOMAIN msgs :
              n # Root => Paths(msgs)[n] = Append(Paths(msgs)[msgs[n].parent], n)
<1>1. Paths(msgs) = [n \in DOMAIN msgs |-> Up(msgs, Paths(msgs), n)]
  BY PathsDef DEF Tree
<1>2. \A n \in DOMAIN msgs : Paths(msgs)[n] = Up(msgs, Paths(msgs), n)
  BY <1>1
<1> QED BY <1>2 DEF Up, Tree

\* It begins at the root and ends at the message.
LEMMA PathShape ==
  ASSUME NEW msgs, Tree(msgs), NEW n \in DOMAIN msgs
  PROVE  /\ Paths(msgs)[n] \in Seq(DOMAIN msgs) /\ Paths(msgs)[n] # <<>>
         /\ Head(Paths(msgs)[n]) = Root
         /\ n \in ToSet(Paths(msgs)[n]) /\ ToSet(Paths(msgs)[n]) \subseteq DOMAIN msgs
<1> DEFINE D == DOMAIN msgs
           path == Paths(msgs)
           T == { x \in D : /\ path[x] \in Seq(D) /\ path[x] # <<>> /\ Head(path[x]) = Root
                            /\ x \in ToSet(path[x]) }
<1>1. ASSUME NEW x \in D, msgs[x].parent \in D => msgs[x].parent \in T PROVE x \in T
  <2>1. CASE x = Root
    <3>1. path[x] = <<Root>>
      BY <2>1, PathSteps
    <3>2. <<Root>> \in Seq(D) /\ <<Root>> # <<>> /\ Head(<<Root>>) = Root
      BY <2>1
    <3>3. Root \in ToSet(<<Root>>)
      BY DEF ToSet
    <3> QED BY <2>1, <3>1, <3>2, <3>3
  <2>2. CASE x # Root
    <3> DEFINE p == path[msgs[x].parent]
    <3>1. path[x] = Append(p, x) /\ msgs[x].parent \in T
      BY <1>1, <2>2, PathSteps DEF Tree
    <3>2. p \in Seq(D) /\ p # <<>> /\ Head(p) = Root
      BY <3>1
    <3> HIDE DEF p, path
    <3>3. Append(p, x) \in Seq(D) /\ Append(p, x) # <<>> /\ Head(Append(p, x)) = Root
      BY <3>2
    <3>4. x \in ToSet(Append(p, x))
      BY <3>2, AppendSet
    <3> QED BY <3>1, <3>3, <3>4
  <2> QED BY <2>1, <2>2
<1>2. \A x \in D : x \in T
  <2> HIDE DEF T
  <2> QED BY <1>1, Downwards DEF Tree
<1>3. path[n] \in Seq(D)
  BY <1>2
<1>4. ToSet(path[n]) \subseteq D
  <2> HIDE DEF path
  <2> QED BY <1>3 DEF ToSet
<1> QED BY <1>2, <1>4

\* The messages on it, from those on the path of the parent.
LEMMA PathGrows ==
  ASSUME NEW msgs, Tree(msgs), NEW n \in DOMAIN msgs, n # Root
  PROVE  ToSet(Paths(msgs)[n]) = ToSet(Paths(msgs)[msgs[n].parent]) \cup {n}
<1>1. msgs[n].parent \in DOMAIN msgs
  BY DEF Tree
<1>2. Paths(msgs)[msgs[n].parent] \in Seq(DOMAIN msgs)
  BY <1>1, PathShape
<1>3. Paths(msgs)[n] = Append(Paths(msgs)[msgs[n].parent], n)
  BY PathSteps
<1> QED BY <1>2, <1>3, AppendSet

\* No message is above itself.
LEMMA NotAboveItself ==
  ASSUME NEW msgs, Tree(msgs), NEW n \in DOMAIN msgs, n # Root
  PROVE  n \notin ToSet(Paths(msgs)[msgs[n].parent])
<1>1. PICK N \in Nat : \E rank : Ranks(msgs, N, rank)
  BY DEF Tree, Ordered
<1>2. PICK rank : Ranks(msgs, N, rank)
  BY <1>1
<1> DEFINE D == DOMAIN msgs
           T == { x \in D : \A y \in ToSet(Paths(msgs)[x]) : rank[y] <= rank[x] }
<1>3. /\ \A x \in D : rank[x] \in 0 .. N
      /\ \A x \in D : msgs[x].parent \in D => rank[msgs[x].parent] < rank[x]
  BY <1>2 DEF Ranks
<1>4. ASSUME NEW x \in D, msgs[x].parent \in D => msgs[x].parent \in T PROVE x \in T
  <2> SUFFICES ASSUME NEW y \in ToSet(Paths(msgs)[x]) PROVE rank[y] <= rank[x]
    OBVIOUS
  <2>0. rank[x] \in Nat
    BY <1>3
  <2>1. CASE x = Root
    <3>1. y = Root
      <4>1. Paths(msgs)[x] = <<Root>>
        BY <2>1, PathSteps
      <4> QED BY <4>1 DEF ToSet
    <3> QED BY <2>0, <2>1, <3>1
  <2>2. CASE x # Root
    <3>1. msgs[x].parent \in D
      BY <2>2 DEF Tree
    <3>2. y = x \/ y \in ToSet(Paths(msgs)[msgs[x].parent])
      BY <2>2, PathGrows
    <3>3. ASSUME y \in ToSet(Paths(msgs)[msgs[x].parent]) PROVE rank[y] <= rank[x]
      <4>1. rank[y] <= rank[msgs[x].parent]
        BY <1>4, <3>1, <3>3
      <4>2. y \in D
        BY PathShape
      <4>3. rank[y] \in Nat /\ rank[msgs[x].parent] \in Nat /\ rank[msgs[x].parent] < rank[x]
        BY <1>3, <3>1, <4>2
      <4> QED BY <2>0, <4>1, <4>3
    <3> QED BY <2>0, <3>2, <3>3
  <2> QED BY <2>1, <2>2
<1>5. \A x \in D : x \in T
  <2> HIDE DEF T
  <2> QED BY <1>4, Downwards DEF Tree
<1>6. msgs[n].parent \in D
  BY DEF Tree
<1>7. rank[msgs[n].parent] \in Nat /\ rank[n] \in Nat /\ rank[msgs[n].parent] < rank[n]
  BY <1>3, <1>6
<1> SUFFICES ASSUME n \in ToSet(Paths(msgs)[msgs[n].parent]) PROVE FALSE
  OBVIOUS
<1>8. rank[n] <= rank[msgs[n].parent]
  BY <1>5, <1>6
<1> QED BY <1>7, <1>8

\* A path depends on the parents of the messages only.
LEMMA PathsAgree ==
  ASSUME NEW old, Tree(old), NEW new, Tree(new), DOMAIN old \subseteq DOMAIN new,
         \A n \in DOMAIN old : new[n].parent = old[n].parent
  PROVE  \A n \in DOMAIN old : Paths(new)[n] = Paths(old)[n]
<1> DEFINE T == { x \in DOMAIN old : Paths(new)[x] = Paths(old)[x] }
<1>1. ASSUME NEW x \in DOMAIN old, old[x].parent \in DOMAIN old => old[x].parent \in T
      PROVE  x \in T
  <2>1. CASE x = Root
    BY <2>1, PathSteps
  <2>2. CASE x # Root
    <3>1. old[x].parent \in T /\ new[x].parent = old[x].parent
      BY <1>1, <2>2 DEF Tree
    <3>2. Paths(new)[x] = Append(Paths(new)[new[x].parent], x)
      BY <2>2, PathSteps
    <3>3. Paths(old)[x] = Append(Paths(old)[old[x].parent], x)
      BY <2>2, PathSteps
    <3> QED BY <3>1, <3>2, <3>3
  <2> QED BY <2>1, <2>2
<1>2. \A x \in DOMAIN old : x \in T
  <2> HIDE DEF T
  <2> QED BY <1>1, Downwards DEF Tree
<1> QED BY <1>2

(***************************************************************************)
(* Trees that grow and shrink.                                             *)
(***************************************************************************)

SameLinks(old, new, n) ==
  /\ new[n].parent = old[n].parent /\ new[n].children = old[n].children
  /\ new[n].selected = old[n].selected

\* new is old with the message m below parent.
OneMore(old, new, parent, m) ==
  /\ DOMAIN new = DOMAIN old \cup {m}
  /\ new[m].parent = parent /\ new[m].children = <<>> /\ new[m].selected = NoMessage
  /\ new[parent].parent = old[parent].parent
  /\ new[parent].children = Append(old[parent].children, m)
  /\ new[parent].selected \in {m, old[parent].selected}
  /\ \A n \in DOMAIN old \ {parent} : SameLinks(old, new, n)

LEMMA TreeGrows ==
  ASSUME NEW old, Tree(old), NEW new, NEW parent \in DOMAIN old, NEW m, m \notin DOMAIN old,
         m # NoMessage, OneMore(old, new, parent, m)
  PROVE  Tree(new)
<1>1. /\ Root \in DOMAIN old /\ NoMessage \notin DOMAIN old /\ old[Root].parent = NoMessage
      /\ \A n \in DOMAIN old : n # Root => old[n].parent \in DOMAIN old
      /\ \A n \in DOMAIN old : Listed(old, n)
  BY DEF Tree
<1>2. \A n \in DOMAIN old : new[n].parent = old[n].parent
  BY DEF OneMore, SameLinks
<1>3. \A n \in DOMAIN old : old[n].parent # m
  BY <1>1
<1>4. ASSUME NEW n \in DOMAIN new PROVE Listed(new, n)
  <2>0. DOMAIN new = DOMAIN old \cup {m} /\ new[m].parent = parent
    BY DEF OneMore
  <2>1. CASE n = m
    <3>1. new[n].children = <<>> /\ new[n].selected = NoMessage
      BY <2>1 DEF OneMore
    <3>2. /\ <<>> \in Seq(DOMAIN new) /\ IsInjective(<<>>) /\ ToSet(<<>>) = {}
      BY DEF IsInjective, ToSet
    <3>3. { c \in DOMAIN new : new[c].parent = n } = {}
      BY <1>2, <1>3, <2>0, <2>1
    <3> QED BY <3>1, <3>2, <3>3 DEF Listed
  <2>2. CASE n = parent
    <3> DEFINE s == old[parent].children
    <3>1. new[n].children = Append(s, m) /\ new[n].selected \in {m, old[parent].selected}
      BY <2>2 DEF OneMore
    <3>2. /\ s \in Seq(DOMAIN old) /\ IsInjective(s)
          /\ ToSet(s) = { c \in DOMAIN old : old[c].parent = parent }
          /\ old[parent].selected \in ToSet(s) \cup {NoMessage}
      BY <1>1 DEF Listed
    <3> HIDE DEF s
    <3>3. ToSet(Append(s, m)) = ToSet(s) \cup {m} /\ m \notin ToSet(s)
      BY <3>2, AppendSet
    <3>4. IsInjective(Append(s, m))
      <4>1. /\ DOMAIN Append(s, m) = 1 .. Len(s) + 1 /\ DOMAIN s = 1 .. Len(s)
            /\ Len(s) \in Nat /\ Append(s, m)[Len(s) + 1] = m
            /\ \A i \in 1 .. Len(s) : Append(s, m)[i] = s[i]
        BY <3>2
      <4>2. \A i \in 1 .. Len(s) : s[i] # m
        BY <3>3, <4>1 DEF ToSet
      <4>3. \A i \in 1 .. Len(s) + 1 : i \in 1 .. Len(s) \/ i = Len(s) + 1
        BY <4>1
      <4> QED BY <3>2, <4>1, <4>2, <4>3 DEF IsInjective
    <3>5. Append(s, m) \in Seq(DOMAIN new)
      <4>1. s \in Seq(DOMAIN new)
        BY <2>0, <3>2, SeqMonotonic
      <4> QED BY <2>0, <4>1
    <3>6. ToSet(s) \cup {m} = { c \in DOMAIN new : new[c].parent = n }
      BY <1>2, <2>0, <2>2, <3>2
    <3> QED BY <3>1, <3>2, <3>3, <3>4, <3>5, <3>6 DEF Listed
  <2>3. CASE n # m /\ n # parent
    <3>1. n \in DOMAIN old /\ SameLinks(old, new, n) /\ Listed(old, n)
      BY <1>1, <2>0, <2>3 DEF OneMore
    <3>2. new[n].children = old[n].children /\ new[n].selected = old[n].selected
      BY <3>1 DEF SameLinks
    <3>3. old[n].children \in Seq(DOMAIN new)
      <4>1. old[n].children \in Seq(DOMAIN old)
        BY <3>1 DEF Listed
      <4> QED BY <2>0, <4>1, SeqMonotonic
    <3>4. { c \in DOMAIN new : new[c].parent = n } = { c \in DOMAIN old : old[c].parent = n }
      BY <1>2, <2>0, <2>3
    <3> QED BY <3>1, <3>2, <3>3, <3>4 DEF Listed
  <2> QED BY <2>1, <2>2, <2>3
<1>5. Ordered(new)
  <2>1. PICK N \in Nat : \E rank : Ranks(old, N, rank)
    BY DEF Tree, Ordered
  <2>2. PICK rank : Ranks(old, N, rank)
    BY <2>1
  <2> DEFINE more == [n \in DOMAIN new |-> IF n = m THEN N + 1 ELSE rank[n]]
  <2>3. /\ \A n \in DOMAIN old : rank[n] \in 0 .. N
        /\ \A n \in DOMAIN old :
             old[n].parent \in DOMAIN old => rank[old[n].parent] < rank[n]
    BY <2>2 DEF Ranks
  <2>4. DOMAIN new = DOMAIN old \cup {m} /\ new[m].parent = parent
    BY DEF OneMore
  <2>5. /\ more[m] = N + 1 /\ \A n \in DOMAIN old : more[n] = rank[n]
        /\ more \in [DOMAIN new -> 0 .. N + 1]
    BY <2>1, <2>3, <2>4
  <2> HIDE DEF more
  <2>6. ASSUME NEW n \in DOMAIN new, new[n].parent \in DOMAIN new
        PROVE  more[new[n].parent] < more[n]
    <3>1. CASE n = m
      <4>1. more[parent] \in 0 .. N
        BY <2>3, <2>5
      <4> QED BY <2>1, <2>4, <2>5, <3>1, <4>1
    <3>2. CASE n # m
      BY <1>2, <1>3, <2>3, <2>4, <2>5, <2>6, <3>2
    <3> QED BY <3>1, <3>2
  <2>7. N + 1 \in Nat /\ Ranks(new, N + 1, more)
    BY <2>1, <2>5, <2>6 DEF Ranks
  <2> QED BY <2>7 DEF Ordered
<1>6. DOMAIN new = DOMAIN old \cup {m} /\ new[m].parent = parent
  BY DEF OneMore
<1> QED BY <1>1, <1>2, <1>4, <1>5, <1>6 DEF Tree

(***************************************************************************)
(* A tree without a message: with all that is below it, or alone.          *)
(***************************************************************************)

\* The end of a list is in it.
LEMMA EndsAreIn ==
  ASSUME NEW S, NEW s \in Seq(S), NEW x
  PROVE  /\ LastOr(s, x) \in ToSet(s) \cup {x} /\ FirstOr(s, x) \in ToSet(s) \cup {x}
         /\ s = <<>> => LastOr(s, x) = x /\ FirstOr(s, x) = x
<1>1. CASE s = <<>>
  BY <1>1 DEF LastOr, FirstOr
<1>2. CASE s # <<>>
  <2>1. /\ Len(s) \in 1 .. Len(s) /\ 1 \in 1 .. Len(s) /\ DOMAIN s = 1 .. Len(s)
        /\ Head(s) = s[1]
    BY <1>2
  <2> QED BY <1>2, <2>1 DEF LastOr, FirstOr, Last, ToSet
<1> QED BY <1>1, <1>2

\* new is old without m and what is below it.
Pruned(old, new, m, gone) ==
  LET parent == old[m].parent
      kept == Splice(old[parent].children, m, <<>>)
  IN
  /\ DOMAIN new = DOMAIN old \ gone
  /\ new[parent].parent = old[parent].parent /\ new[parent].children = kept
  /\ new[parent].selected = IF old[parent].selected = m THEN LastOr(kept, NoMessage)
                            ELSE old[parent].selected
  /\ \A n \in DOMAIN new \ {parent} : SameLinks(old, new, n)

LEMMA TreePruned ==
  ASSUME NEW old, Tree(old), NEW new, NEW m \in DOMAIN old, m # Root,
         NEW gone, gone = { n \in DOMAIN old : m \in ToSet(Paths(old)[n]) },
         Pruned(old, new, m, gone)
  PROVE  /\ Tree(new) /\ old[m].parent \in DOMAIN new
         /\ m \in gone /\ Root \notin gone
<1> DEFINE parent == old[m].parent
           kept == Splice(old[parent].children, m, <<>>)
<1>1. /\ Root \in DOMAIN old /\ NoMessage \notin DOMAIN old /\ old[Root].parent = NoMessage
      /\ \A n \in DOMAIN old : n # Root => old[n].parent \in DOMAIN old
      /\ \A n \in DOMAIN old : Listed(old, n)
  BY DEF Tree
<1>2. /\ DOMAIN new = DOMAIN old \ gone
      /\ new[parent].parent = old[parent].parent /\ new[parent].children = kept
      /\ new[parent].selected = IF old[parent].selected = m THEN LastOr(kept, NoMessage)
                                ELSE old[parent].selected
      /\ \A n \in DOMAIN new \ {parent} : SameLinks(old, new, n)
  BY DEF Pruned
<1>3. parent \in DOMAIN old /\ parent \notin gone
  BY <1>1, NotAboveItself
<1>4. m \in gone
  BY PathShape
<1>5. Root \notin gone
  <2>1. Paths(old)[Root] = <<Root>>
    BY PathSteps
  <2> QED BY <2>1 DEF ToSet
\* Below what is gone everything is, above only m has a parent that stays.
<1>6. ASSUME NEW n \in DOMAIN old, n # Root
      PROVE  n \in gone <=> old[n].parent \in gone \/ n = m
  <2>1. ToSet(Paths(old)[n]) = ToSet(Paths(old)[old[n].parent]) \cup {n}
    BY <1>6, PathGrows
  <2>2. old[n].parent \in DOMAIN old
    BY <1>1, <1>6
  <2> QED BY <2>1, <2>2
<1> HIDE DEF kept, parent
<1>7. \A n \in DOMAIN new : n \in DOMAIN old /\ new[n].parent = old[n].parent
  BY <1>2 DEF SameLinks
<1>8. ASSUME NEW n \in DOMAIN new PROVE Listed(new, n)
  <2>0. n \in DOMAIN old /\ Listed(old, n)
    BY <1>1, <1>2
  <2>1. CASE n = parent
    <3> DEFINE s == old[parent].children
    <3>1. /\ s \in Seq(DOMAIN old) /\ IsInjective(s)
          /\ ToSet(s) = { c \in DOMAIN old : old[c].parent = parent }
          /\ old[parent].selected \in ToSet(s) \cup {NoMessage}
      BY <2>0, <2>1 DEF Listed
    <3>2. m \in ToSet(s)
      BY <3>1 DEF parent
    <3>3. kept = Splice(s, m, <<>>)
      BY DEF kept, parent
    <3> HIDE DEF s
    <3>4. /\ kept \in Seq(DOMAIN old) /\ IsInjective(kept) /\ ToSet(kept) = ToSet(s) \ {m}
      <4> DEFINE none == <<>>
      <4>1. none \in Seq(DOMAIN old) /\ IsInjective(none) /\ ToSet(none) = {}
        BY DEF IsInjective, ToSet
      <4>2. kept = Splice(s, m, none)
        BY <3>3
      <4> HIDE DEF none
      <4>3. ToSet(s) \cap ToSet(none) = {}
        BY <4>1
      <4>4. /\ Splice(s, m, none) \in Seq(DOMAIN old) /\ IsInjective(Splice(s, m, none))
            /\ ToSet(Splice(s, m, none)) = (ToSet(s) \ {m}) \cup ToSet(none)
        BY <3>1, <3>2, <4>1, <4>3, SpliceSound
      <4> QED BY <4>1, <4>2, <4>4
    <3>5. ToSet(kept) = { c \in DOMAIN new : new[c].parent = n }
      <4>1. ASSUME NEW c \in ToSet(kept) PROVE c \in DOMAIN new /\ new[c].parent = n
        <5>1. c \in DOMAIN old /\ old[c].parent = parent /\ c # m
          BY <3>1, <3>4
        <5>2. c # Root
          BY <1>1, <1>3, <5>1
        <5>3. c \notin gone
          BY <1>3, <1>6, <5>1, <5>2
        <5> QED BY <1>2, <1>7, <2>1, <5>1, <5>3
      <4>2. ASSUME NEW c \in DOMAIN new, new[c].parent = n PROVE c \in ToSet(kept)
        BY <1>2, <1>4, <1>7, <2>1, <3>1, <3>4, <4>2
      <4> QED BY <4>1, <4>2
    <3>6. kept \in Seq(DOMAIN new)
      <4>1. ToSet(kept) \subseteq DOMAIN new
        BY <3>5
      <4>2. \A i \in 1 .. Len(kept) : kept[i] \in DOMAIN new
        BY <3>4, <4>1 DEF ToSet
      <4> QED BY <3>4, <4>2
    <3>7. new[n].children = kept
      BY <1>2, <2>1
    <3>8. new[n].selected \in ToSet(kept) \cup {NoMessage}
      BY <1>2, <2>1, <3>1, <3>4, EndsAreIn
    <3> QED BY <3>4, <3>5, <3>6, <3>7, <3>8 DEF Listed
  <2>2. CASE n # parent
    <3>1. new[n].children = old[n].children /\ new[n].selected = old[n].selected
      BY <1>2, <2>2 DEF SameLinks
    <3>2. /\ old[n].children \in Seq(DOMAIN old)
          /\ ToSet(old[n].children) = { c \in DOMAIN old : old[c].parent = n }
      BY <2>0 DEF Listed
    <3>3. { c \in DOMAIN old : old[c].parent = n } = { c \in DOMAIN new : new[c].parent = n }
      <4>1. ASSUME NEW c \in DOMAIN old, old[c].parent = n PROVE c \in DOMAIN new
        <5>1. c # Root /\ c # m
          BY <1>1, <2>0, <2>2, <4>1 DEF parent
        <5> QED BY <1>2, <1>6, <4>1, <5>1
      <4> QED BY <1>7, <4>1
    <3>4. old[n].children \in Seq(DOMAIN new)
      <4>1. \A i \in 1 .. Len(old[n].children) : old[n].children[i] \in DOMAIN new
        BY <3>2, <3>3 DEF ToSet
      <4> QED BY <3>2, <4>1
    <3> QED BY <2>0, <3>1, <3>3, <3>4 DEF Listed
  <2> QED BY <2>1, <2>2
<1>9. Ordered(new)
  <2>1. PICK N \in Nat : \E rank : Ranks(old, N, rank)
    BY DEF Tree, Ordered
  <2>2. PICK rank : Ranks(old, N, rank)
    BY <2>1
  <2> DEFINE less == [n \in DOMAIN new |-> rank[n]]
  <2>3. Ranks(new, N, less)
    BY <1>7, <2>2 DEF Ranks
  <2> QED BY <2>3 DEF Ordered
<1>10. ASSUME NEW n \in DOMAIN new, n # Root PROVE new[n].parent \in DOMAIN new
  <2>1. n \in DOMAIN old /\ n \notin gone /\ new[n].parent = old[n].parent
    BY <1>2, <1>7
  <2> QED BY <1>1, <1>2, <1>6, <1>10, <2>1
<1>11. Root \in DOMAIN new /\ NoMessage \notin DOMAIN new /\ new[Root].parent = NoMessage
  BY <1>1, <1>2, <1>5, <1>7
<1>12. parent \in DOMAIN new
  BY <1>2, <1>3
<1> QED BY <1>4, <1>5, <1>8, <1>9, <1>10, <1>11, <1>12 DEF Tree, parent

\* new is old without m, whose children take its place.
Lifted(old, new, m) ==
  LET parent == old[m].parent
      children == old[m].children
      spliced == Splice(old[parent].children, m, children)
  IN
  /\ DOMAIN new = DOMAIN old \ {m}
  /\ \A n \in ToSet(children) : /\ new[n].parent = parent
                                /\ new[n].children = old[n].children
                                /\ new[n].selected = old[n].selected
  /\ new[parent].parent = old[parent].parent /\ new[parent].children = spliced
  /\ new[parent].selected = IF old[parent].selected = m
                            THEN FirstOr(children, LastOr(spliced, NoMessage))
                            ELSE old[parent].selected
  /\ \A n \in DOMAIN new \ (ToSet(children) \cup {parent}) : SameLinks(old, new, n)

LEMMA TreeLifted ==
  ASSUME NEW old, Tree(old), NEW new, NEW m \in DOMAIN old, m # Root, Lifted(old, new, m)
  PROVE  /\ Tree(new) /\ old[m].parent \in DOMAIN new
         /\ ToSet(old[m].children) \subseteq DOMAIN new
<1> DEFINE parent == old[m].parent
           children == old[m].children
           siblings == old[parent].children
           spliced == Splice(siblings, m, children)
<1>1. /\ Root \in DOMAIN old /\ NoMessage \notin DOMAIN old /\ old[Root].parent = NoMessage
      /\ \A n \in DOMAIN old : n # Root => old[n].parent \in DOMAIN old
      /\ \A n \in DOMAIN old : Listed(old, n)
  BY DEF Tree
<1>2. /\ DOMAIN new = DOMAIN old \ {m}
      /\ \A n \in ToSet(children) : /\ new[n].parent = parent
                                    /\ new[n].children = old[n].children
                                    /\ new[n].selected = old[n].selected
      /\ new[parent].parent = old[parent].parent /\ new[parent].children = spliced
      /\ new[parent].selected = IF old[parent].selected = m
                                THEN FirstOr(children, LastOr(spliced, NoMessage))
                                ELSE old[parent].selected
      /\ \A n \in DOMAIN new \ (ToSet(children) \cup {parent}) : SameLinks(old, new, n)
  BY DEF Lifted
<1>3. PICK N \in Nat : \E rank : Ranks(old, N, rank)
  BY DEF Tree, Ordered
<1>4. PICK rank : Ranks(old, N, rank)
  BY <1>3
<1>5. /\ \A n \in DOMAIN old : rank[n] \in 0 .. N
      /\ \A n \in DOMAIN old :
           old[n].parent \in DOMAIN old => rank[old[n].parent] < rank[n]
  BY <1>4 DEF Ranks
<1>6. /\ children \in Seq(DOMAIN old) /\ IsInjective(children)
      /\ ToSet(children) = { c \in DOMAIN old : old[c].parent = m }
  BY <1>1 DEF Listed
<1>7. /\ parent \in DOMAIN old
      /\ siblings \in Seq(DOMAIN old) /\ IsInjective(siblings)
      /\ ToSet(siblings) = { c \in DOMAIN old : old[c].parent = parent }
      /\ old[parent].selected \in ToSet(siblings) \cup {NoMessage}
  <2>1. parent \in DOMAIN old /\ Listed(old, parent)
    BY <1>1
  <2> QED BY <2>1 DEF Listed
<1>8. m \in ToSet(siblings)
  BY <1>7
\* The parent is neither m nor one of its children.
<1>9. parent # m /\ parent \notin ToSet(children) /\ m \notin ToSet(children)
  <2>1. rank[parent] \in Nat /\ rank[m] \in Nat /\ rank[parent] < rank[m]
    BY <1>5, <1>7
  <2>2. parent \in ToSet(children) => rank[m] < rank[parent]
    BY <1>5, <1>6
  <2>3. m \in ToSet(children) => rank[m] < rank[m]
    BY <1>5, <1>6
  <2> QED BY <2>1, <2>2, <2>3
<1>10. /\ spliced \in Seq(DOMAIN old) /\ IsInjective(spliced)
       /\ ToSet(spliced) = (ToSet(siblings) \ {m}) \cup ToSet(children)
  <2>1. ToSet(siblings) \cap ToSet(children) = {}
    BY <1>6, <1>7, <1>9
  <2> HIDE DEF siblings, children
  <2> QED BY <1>6, <1>7, <1>8, <2>1, SpliceSound
<1> HIDE DEF spliced, siblings, children, parent
<1>11. \A n \in DOMAIN new :
         /\ n \in DOMAIN old /\ n # m
         /\ new[n].parent = IF n \in ToSet(children) THEN parent ELSE old[n].parent
  BY <1>2, <1>9 DEF SameLinks
<1>12. ToSet(children) \subseteq DOMAIN new /\ parent \in DOMAIN new
  BY <1>2, <1>6, <1>7, <1>9
<1>13. ASSUME NEW n \in DOMAIN new PROVE Listed(new, n)
  <2>0. n \in DOMAIN old /\ Listed(old, n) /\ n # m
    BY <1>1, <1>2
  <2>1. CASE n = parent
    <3>1. ToSet(spliced) = { c \in DOMAIN new : new[c].parent = n }
      <4>1. ASSUME NEW c \in ToSet(spliced) PROVE c \in DOMAIN new /\ new[c].parent = n
        <5>1. CASE c \in ToSet(children)
          BY <1>11, <1>12, <2>1, <5>1
        <5>2. CASE c \in ToSet(siblings) /\ c # m /\ c \notin ToSet(children)
          <6>1. c \in DOMAIN new
            BY <1>2, <1>7, <5>2
          <6> QED BY <1>7, <1>11, <2>1, <5>2, <6>1
        <5> QED BY <1>10, <5>1, <5>2
      <4>2. ASSUME NEW c \in DOMAIN new, new[c].parent = n PROVE c \in ToSet(spliced)
        BY <1>7, <1>10, <1>11, <2>1, <4>2
      <4> QED BY <4>1, <4>2
    <3>2. spliced \in Seq(DOMAIN new)
      <4>1. \A i \in 1 .. Len(spliced) : spliced[i] \in DOMAIN new
        BY <1>10, <3>1 DEF ToSet
      <4> QED BY <1>10, <4>1
    <3>3. new[n].children = spliced
      BY <1>2, <2>1
    <3>4. new[n].selected \in ToSet(spliced) \cup {NoMessage}
      <4>1. LastOr(spliced, NoMessage) \in ToSet(spliced) \cup {NoMessage}
        BY <1>10, EndsAreIn
      <4>2. FirstOr(children, LastOr(spliced, NoMessage)) \in
              ToSet(children) \cup {LastOr(spliced, NoMessage)}
        BY <1>6, EndsAreIn
      <4> QED BY <1>2, <1>7, <1>10, <2>1, <4>1, <4>2
    <3> QED BY <1>10, <3>1, <3>2, <3>3, <3>4 DEF Listed
  <2>2. CASE n # parent
    <3>1. new[n].children = old[n].children /\ new[n].selected = old[n].selected
      BY <1>2, <2>2 DEF SameLinks
    <3>2. /\ old[n].children \in Seq(DOMAIN old)
          /\ ToSet(old[n].children) = { c \in DOMAIN old : old[c].parent = n }
      BY <2>0 DEF Listed
    <3>3. { c \in DOMAIN old : old[c].parent = n } = { c \in DOMAIN new : new[c].parent = n }
      <4>1. ASSUME NEW c \in DOMAIN old, old[c].parent = n
            PROVE  c \in DOMAIN new /\ new[c].parent = n
        <5>1. c # m
          BY <2>2, <4>1 DEF parent
        <5>2. c \notin ToSet(children)
          BY <1>6, <2>0, <4>1
        <5> QED BY <1>2, <1>11, <4>1, <5>1, <5>2
      <4>2. ASSUME NEW c \in DOMAIN new, new[c].parent = n PROVE old[c].parent = n
        BY <1>11, <2>2, <4>2
      <4> QED BY <1>11, <4>1, <4>2
    <3>4. old[n].children \in Seq(DOMAIN new)
      <4>1. \A i \in 1 .. Len(old[n].children) : old[n].children[i] \in DOMAIN new
        BY <3>2, <3>3 DEF ToSet
      <4> QED BY <3>2, <4>1
    <3> QED BY <2>0, <3>1, <3>3, <3>4 DEF Listed
  <2> QED BY <2>1, <2>2
<1>14. Ordered(new)
  <2> DEFINE less == [n \in DOMAIN new |-> rank[n]]
  <2>1. ASSUME NEW n \in DOMAIN new, new[n].parent \in DOMAIN new
        PROVE  rank[new[n].parent] < rank[n]
    <3>1. CASE n \in ToSet(children)
      <4>1. rank[m] < rank[n] /\ rank[parent] < rank[m]
        BY <1>5, <1>6, <1>7, <3>1 DEF parent
      <4>2. rank[m] \in Nat /\ rank[n] \in Nat /\ rank[parent] \in Nat
        BY <1>5, <1>7, <1>11
      <4> QED BY <1>11, <3>1, <4>1, <4>2
    <3>2. CASE n \notin ToSet(children)
      BY <1>5, <1>11, <2>1, <3>2
    <3> QED BY <3>1, <3>2
  <2>2. Ranks(new, N, less)
    BY <1>5, <1>11, <2>1 DEF Ranks
  <2> QED BY <1>3, <2>2 DEF Ordered
<1>15. ASSUME NEW n \in DOMAIN new, n # Root PROVE new[n].parent \in DOMAIN new
  <2>1. CASE n \in ToSet(children)
    BY <1>11, <1>12, <2>1
  <2>2. CASE n \notin ToSet(children)
    BY <1>1, <1>2, <1>6, <1>11, <1>15, <2>2
  <2> QED BY <2>1, <2>2
<1>16. Root \in DOMAIN new /\ NoMessage \notin DOMAIN new /\ new[Root].parent = NoMessage
  <2>1. Root \notin ToSet(children)
    BY <1>1, <1>6
  <2> QED BY <1>1, <1>2, <1>11, <2>1
<1> QED BY <1>12, <1>13, <1>14, <1>15, <1>16 DEF Tree, parent, children

(***************************************************************************)
(* What the methods do to the tree, the path on display and the selection. *)
(***************************************************************************)

\* The messages are a tree, and the path on display is that to the tail.
Sound(h) ==
  /\ IsHistory(h) /\ Tree(h.msgs)
  /\ Exists(h, h.tail) /\ h.path = PathTo(h, h.tail)

\* The same messages are there, linked in the same way, and displayed so.
SameTree(h, new) ==
  /\ IsHistory(new) /\ DOMAIN new.msgs = DOMAIN h.msgs
  /\ \A n \in DOMAIN h.msgs : SameLinks(h.msgs, new.msgs, n)
  /\ new.tail = h.tail /\ new.path = h.path

LEMMA RebuildSound ==
  ASSUME NEW h, IsHistory(h), Tree(h.msgs), Exists(h, h.tail)
  PROVE  /\ Sound(RebuildPath(h)) /\ RebuildPath(h).msgs = h.msgs
         /\ RebuildPath(h).tail = h.tail /\ RebuildPath(h).current = h.current
         /\ RebuildPath(h).path = Paths(h.msgs)[h.tail]
<1> DEFINE new == RebuildPath(h)
<1>1. /\ IsHistory(new) /\ new.msgs = h.msgs /\ new.tail = h.tail
      /\ new.current = h.current /\ new.path = PathTo(h, h.tail)
  BY RebuildKeeps DEF RebuildPath, IsHistory
<1> HIDE DEF new
<1>2. PathTo(new, new.tail) = PathTo(h, h.tail) /\ PathTo(h, h.tail) = Paths(h.msgs)[h.tail]
  BY <1>1 DEF PathTo, Exists
<1> QED BY <1>1, <1>2 DEF Sound, Exists, new

\* The same tree is a sound one.
LEMMA SameTreeSound ==
  ASSUME NEW h, Sound(h), NEW new, SameTree(h, new)
  PROVE  Sound(new)
<1> DEFINE old == h.msgs
           now == new.msgs
<1>1. Tree(old) /\ DOMAIN now = DOMAIN old /\ \A n \in DOMAIN old : SameLinks(old, now, n)
  BY DEF Sound, SameTree
<1> HIDE DEF old, now
<1>2. Tree(now)
  <2>1. \A n \in DOMAIN old : Listed(old, n)
    BY <1>1 DEF Tree
  <2>2. ASSUME NEW n \in DOMAIN now PROVE Listed(now, n)
    <3>1. { c \in DOMAIN now : now[c].parent = n } = { c \in DOMAIN old : old[c].parent = n }
      BY <1>1 DEF SameLinks
    <3> QED BY <1>1, <2>1, <3>1 DEF SameLinks, Listed
  <2>3. Ordered(now)
    <3>1. PICK N \in Nat : \E rank : Ranks(old, N, rank)
      BY <1>1 DEF Tree, Ordered
    <3>2. PICK rank : Ranks(old, N, rank)
      BY <3>1
    <3>3. Ranks(now, N, rank)
      BY <1>1, <3>2 DEF Ranks, SameLinks
    <3> QED BY <3>3 DEF Ordered
  <2> QED BY <1>1, <2>2, <2>3 DEF Tree, SameLinks
<1>3. \A n \in DOMAIN old : Paths(now)[n] = Paths(old)[n]
  BY <1>1, <1>2, PathsAgree DEF SameLinks
<1> QED BY <1>2, <1>3 DEF Sound, SameTree, PathTo, Exists, old, now

LEMMA NewHistorySound == Sound(NewHistory)
<1> DEFINE msgs == NewHistory.msgs
<1>1. /\ DOMAIN msgs = {Root} /\ msgs[Root].parent = NoMessage
      /\ msgs[Root].children = <<>> /\ msgs[Root].selected = NoMessage
  BY DEF NewHistory, Message
<1>2. NewHistory.tail = Root /\ NewHistory.path = <<Root>>
  BY DEF NewHistory
<1> HIDE DEF msgs
<1>3. Root # NoMessage
  BY HistoryAssumption
<1>4. Listed(msgs, Root)
  <2>1. <<>> \in Seq(DOMAIN msgs) /\ IsInjective(<<>>) /\ ToSet(<<>>) = {}
    BY DEF IsInjective, ToSet
  <2> QED BY <1>1, <1>3, <2>1 DEF Listed
<1>5. Ordered(msgs)
  <2> DEFINE rank == [n \in DOMAIN msgs |-> 0]
  <2>1. Ranks(msgs, 0, rank)
    BY <1>1, <1>3 DEF Ranks
  <2> QED BY <2>1 DEF Ordered
<1>6. Tree(msgs)
  BY <1>1, <1>3, <1>4, <1>5 DEF Tree
<1>7. Paths(msgs)[Root] = <<Root>>
  BY <1>6, PathSteps
<1> QED BY <1>1, <1>2, <1>6, <1>7, NewHistoryIsHistory DEF Sound, PathTo, Exists, msgs

LEMMA SelectSound ==
  ASSUME NEW h, Sound(h), NEW m
  PROVE  /\ Sound([h EXCEPT !.current = m])
         /\ [h EXCEPT !.current = m].msgs = h.msgs
         /\ [h EXCEPT !.current = m].tail = h.tail
         /\ [h EXCEPT !.current = m].path = h.path
         /\ [h EXCEPT !.current = m].current = m
<1> DEFINE new == [h EXCEPT !.current = m]
<1>1. /\ IsHistory(new) /\ new.msgs = h.msgs /\ new.tail = h.tail /\ new.path = h.path
      /\ new.current = m
  BY DEF Sound, IsHistory
<1> HIDE DEF new
<1>2. Sound(new)
  BY <1>1 DEF Sound, PathTo, Exists
<1> QED BY <1>1, <1>2 DEF new

\* A message without links yet.
Loose(message) ==
  Shaped(message) /\ message.children = <<>> /\ message.selected = NoMessage

LEMMA MessageIsLoose ==
  ASSUME NEW kind, NEW status, NEW context, NEW tokens
  PROVE  Loose(Message(kind, status, context, tokens))
BY DEF Message, Loose, Shaped

\* add_child links the new message with its parent.
LEMMA WithChildLinks ==
  ASSUME NEW h, IsHistory(h), NEW parent, Exists(h, parent), NEW m, ~Exists(h, m),
         NEW message, Loose(message)
  PROVE  OneMore(h.msgs, WithChild(h, parent, m, message), parent, m)
<1> DEFINE old == h.msgs
           now == WithChild(h, parent, m, message)
<1>0. parent \in DOMAIN old /\ m \notin DOMAIN old
  BY DEF Exists
<1>1. /\ DOMAIN now = DOMAIN old \cup {m}
      /\ \A n \in DOMAIN old : Shaped(old[n])
  BY DEF WithChild, IsHistory
<1>2. now[m].parent = parent /\ now[m].children = <<>> /\ now[m].selected = NoMessage
  BY DEF WithChild, Loose, Shaped
<1>3. now[parent] = [old[parent] EXCEPT !.children = Append(old[parent].children, m),
                                        !.selected = m]
  BY <1>0 DEF WithChild
<1>4. /\ now[parent].parent = old[parent].parent
      /\ now[parent].children = Append(old[parent].children, m)
      /\ now[parent].selected = m
  <2>1. Shaped(old[parent])
    BY <1>0, <1>1
  <2> HIDE DEF now, old
  <2> QED BY <1>3, <2>1 DEF Shaped
<1>5. \A n \in DOMAIN old \ {parent} : now[n] = old[n]
  BY <1>0 DEF WithChild
<1>6. OneMore(old, now, parent, m)
  <2> HIDE DEF now, old
  <2> QED BY <1>0, <1>1, <1>2, <1>4, <1>5 DEF OneMore, SameLinks
<1> QED BY <1>6

\* The new message is at the end of the path, behind those on its parent's.
Extends(h, new, parent, m) ==
  /\ Sound(new) /\ DOMAIN new.msgs = DOMAIN h.msgs \cup {m}
  /\ new.tail = m /\ new.current = h.current
  /\ ToSet(new.path) = ToSet(PathTo(h, parent)) \cup {m}

LEMMA AddChildSound ==
  ASSUME NEW h, Sound(h), NEW parent, Exists(h, parent), NEW m, ~Exists(h, m),
         m # NoMessage, NEW message, Loose(message)
  PROVE  Extends(h, AddChild(h, parent, m, message), parent, m)
<1> DEFINE old == h.msgs
           now == WithChild(h, parent, m, message)
           grown == [h EXCEPT !.msgs = now, !.tail = m]
           new == AddChild(h, parent, m, message)
<1>1. IsHistory(h) /\ Tree(old) /\ parent \in DOMAIN old /\ m \notin DOMAIN old
  BY DEF Sound, Exists
<1>2. OneMore(old, now, parent, m)
  BY <1>1, WithChildLinks
<1>3. Tree(now)
  <2> HIDE DEF now, old
  <2> QED BY <1>1, <1>2, TreeGrows
<1>4. IsHistory(grown) /\ grown.msgs = now /\ grown.tail = m /\ grown.current = h.current
  <2>1. GrownBy(h, m, message, now)
    BY <1>1, WithChildKeeps DEF Loose
  <2> HIDE DEF now
  <2> QED BY <1>1, <2>1 DEF GrownBy, IsHistory
<1>5. new = RebuildPath(grown)
  BY DEF AddChild
<1>6. DOMAIN now = DOMAIN old \cup {m} /\ now[m].parent = parent
  BY <1>2 DEF OneMore
<1> HIDE DEF new, grown, now
<1>7. /\ Sound(new) /\ new.msgs = now /\ new.tail = m /\ new.current = h.current
      /\ new.path = Paths(now)[m]
  <2>1. Exists(grown, grown.tail)
    BY <1>4, <1>6 DEF Exists
  <2> QED BY <1>3, <1>4, <1>5, <2>1, RebuildSound
<1>8. m # Root
  BY <1>1 DEF Tree
<1>9. ToSet(new.path) = ToSet(Paths(now)[parent]) \cup {m}
  BY <1>3, <1>6, <1>7, <1>8, PathGrows
<1>10. Paths(now)[parent] = Paths(old)[parent]
  <2>1. \A n \in DOMAIN old : now[n].parent = old[n].parent
    BY <1>2 DEF OneMore, SameLinks
  <2> HIDE DEF old
  <2> QED BY <1>1, <1>3, <1>6, <2>1, PathsAgree
<1>11. PathTo(h, parent) = Paths(old)[parent]
  BY <1>1 DEF PathTo, Exists
<1> QED BY <1>6, <1>7, <1>9, <1>10, <1>11 DEF Extends, new

LEMMA AddInBackgroundSound ==
  ASSUME NEW h, Sound(h), NEW parent, Exists(h, parent), NEW m, ~Exists(h, m),
         m # NoMessage, NEW message, Loose(message)
  PROVE  LET new == AddInBackground(h, parent, m, message) IN
         /\ Sound(new) /\ DOMAIN new.msgs = DOMAIN h.msgs \cup {m}
         /\ new.tail = h.tail /\ new.current = h.current /\ new.path = h.path
<1> DEFINE old == h.msgs
           child == AddChild(h, parent, m, message)
           now == [child.msgs EXCEPT
                     ![parent] = [child.msgs[parent] EXCEPT
                                    !.selected = h.msgs[parent].selected]]
           restored == [child EXCEPT !.tail = h.tail, !.msgs = now]
           new == AddInBackground(h, parent, m, message)
<1>0. IsHistory(h) /\ Tree(old) /\ parent \in DOMAIN old /\ m \notin DOMAIN old
  BY DEF Sound, Exists
<1>1. /\ Sound(child) /\ DOMAIN child.msgs = DOMAIN old \cup {m}
      /\ child.current = h.current
  BY AddChildSound DEF Extends
<1>2. new = RebuildPath([child EXCEPT !.tail = h.tail,
                                      !.msgs[parent].selected = h.msgs[parent].selected])
  BY DEF AddInBackground
<1>3. OneMore(old, child.msgs, parent, m)
  <2> DEFINE w == WithChild(h, parent, m, message)
             grown == [h EXCEPT !.msgs = w, !.tail = m]
  <2>1. child = RebuildPath(grown)
    BY DEF AddChild
  <2>2. child.msgs = w
    <3>1. IsHistory(grown) /\ grown.msgs = w
      <4>1. GrownBy(h, m, message, w)
        BY <1>0, WithChildKeeps DEF Loose
      <4> HIDE DEF w
      <4> QED BY <1>0, <4>1 DEF GrownBy, IsHistory
    <3> HIDE DEF grown, child
    <3> QED BY <2>1, <3>1, RebuildKeeps
  <2>3. OneMore(old, w, parent, m)
    BY <1>0, WithChildLinks
  <2> QED BY <2>2, <2>3
<1>4. OneMore(old, now, parent, m) /\ DOMAIN now = DOMAIN child.msgs
  <2> DEFINE w == child.msgs
  <2>1. Shaped(w[parent]) /\ parent \in DOMAIN w /\ parent # m
    BY <1>0, <1>1 DEF Sound, IsHistory
  <2> HIDE DEF w, old
  <2>2. now = [w EXCEPT ![parent] = [w[parent] EXCEPT !.selected = old[parent].selected]]
    BY DEF w, old
  <2>3. /\ DOMAIN now = DOMAIN w /\ \A n \in DOMAIN w \ {parent} : now[n] = w[n]
        /\ now[parent].parent = w[parent].parent
        /\ now[parent].children = w[parent].children
        /\ now[parent].selected = old[parent].selected
    BY <2>1, <2>2 DEF Shaped
  <2>4. OneMore(old, w, parent, m)
    BY <1>3 DEF w
  <2> HIDE DEF now
  <2>5. OneMore(old, now, parent, m)
    BY <1>0, <2>1, <2>3, <2>4 DEF OneMore, SameLinks
  <2> QED BY <2>3, <2>5 DEF w
<1>5. Tree(now)
  <2> HIDE DEF now, old
  <2> QED BY <1>0, <1>4, TreeGrows
<1>6. /\ IsHistory(restored) /\ restored.msgs = now /\ restored.tail = h.tail
      /\ restored.current = h.current
      /\ restored = [child EXCEPT !.tail = h.tail,
                                  !.msgs[parent].selected = h.msgs[parent].selected]
  <2>1. IsHistory(child)
    BY <1>1 DEF Sound
  <2> HIDE DEF child
  <2>2. /\ now = [n \in DOMAIN now |-> now[n]] /\ \A n \in DOMAIN now : Shaped(now[n])
    BY <2>1 DEF IsHistory, Shaped
  <2>3. restored = [child EXCEPT !.tail = h.tail,
                                 !.msgs[parent].selected = h.msgs[parent].selected]
    BY <2>1 DEF IsHistory
  <2> HIDE DEF now
  <2> QED BY <1>1, <2>1, <2>2, <2>3 DEF IsHistory
<1>7. new = RebuildPath(restored)
  BY <1>2, <1>6
<1> HIDE DEF new, restored, now, child
<1>8. /\ Sound(new) /\ new.msgs = now /\ new.tail = h.tail /\ new.current = h.current
      /\ new.path = Paths(now)[h.tail]
  <2>1. Exists(restored, restored.tail)
    BY <1>1, <1>4, <1>6 DEF Exists, Sound
  <2> QED BY <1>5, <1>6, <1>7, <2>1, RebuildSound
<1>9. Paths(now)[h.tail] = Paths(old)[h.tail]
  <2>1. \A n \in DOMAIN old : now[n].parent = old[n].parent
    BY <1>4 DEF OneMore, SameLinks
  <2>2. h.tail \in DOMAIN old
    BY DEF Sound, Exists
  <2> HIDE DEF old
  <2> QED BY <1>0, <1>1, <1>4, <1>5, <2>1, <2>2, PathsAgree
<1>10. h.path = Paths(old)[h.tail]
  BY DEF Sound, PathTo
<1> QED BY <1>1, <1>4, <1>8, <1>9, <1>10 DEF new

\* Some messages are gone; what was selected or at the end of the path is one that is there.
Shrunk(h, new) ==
  /\ Sound(new) /\ DOMAIN new.msgs \subseteq DOMAIN h.msgs
  /\ Exists(h, h.current) => Exists(new, new.current)
  /\ new.current # h.current => Exists(new, new.current)

LEMMA SameIsShrunk ==
  ASSUME NEW h, Sound(h)
  PROVE  Shrunk(h, h)
  BY DEF Shrunk

LEMMA DeletableIsBelow ==
  ASSUME NEW h, Sound(h), NEW m, IsDeletable(h, m)
  PROVE  m \in DOMAIN h.msgs /\ m # Root /\ h.msgs[m].parent \in DOMAIN h.msgs
  BY DEF Sound, IsDeletable, Exists, Tree

LEMMA DeleteSubtreeSound ==
  ASSUME NEW h, Sound(h), NEW m
  PROVE  Shrunk(h, DeleteSubtree(h, m))
<1>1. CASE IsDeletable(h, m)
  <2> DEFINE old == h.msgs
             parent == h.msgs[m].parent
             gone == { n \in DOMAIN h.msgs : m \in ToSet(PathTo(h, n)) }
             kept == Splice(h.msgs[parent].children, m, <<>>)
             without == Without(h, gone)
             msgs == [without EXCEPT
                        ![parent].children = kept,
                        ![parent].selected = IF @ = m THEN LastOr(kept, NoMessage) ELSE @]
             new == [h EXCEPT !.msgs = msgs,
                              !.tail = IF @ \in gone THEN parent ELSE @,
                              !.current = IF @ \in gone THEN parent ELSE @]
  <2>1. DeleteSubtree(h, m) = RebuildPath(new)
    BY <1>1 DEF DeleteSubtree
  <2>2. /\ IsHistory(h) /\ Tree(old) /\ m \in DOMAIN old /\ m # Root
        /\ parent \in DOMAIN old /\ h.tail \in DOMAIN old
    BY <1>1, DeletableIsBelow DEF Sound, Exists
  <2>3. gone = { n \in DOMAIN old : m \in ToSet(Paths(old)[n]) }
    BY DEF PathTo, Exists
  <2>4. parent \notin gone /\ gone \subseteq DOMAIN old
    <3> HIDE DEF gone
    <3>1. parent \notin { n \in DOMAIN old : m \in ToSet(Paths(old)[n]) }
      BY <2>2, NotAboveItself
    <3> QED BY <2>3, <3>1
  <2>5. /\ DOMAIN msgs = DOMAIN old \ gone /\ msgs = [n \in DOMAIN msgs |-> msgs[n]]
        /\ \A n \in DOMAIN msgs : Shaped(msgs[n])
        /\ msgs[parent].parent = old[parent].parent /\ msgs[parent].children = kept
        /\ msgs[parent].selected = IF old[parent].selected = m THEN LastOr(kept, NoMessage)
                                   ELSE old[parent].selected
        /\ \A n \in DOMAIN msgs \ {parent} : msgs[n] = old[n]
    <3>0. \A n \in DOMAIN old : Shaped(old[n])
      BY <2>2 DEF IsHistory
    <3>1. /\ DOMAIN without = DOMAIN old \ gone
          /\ without = [n \in DOMAIN without |-> without[n]]
          /\ \A n \in DOMAIN without : Shaped(without[n]) /\ without[n] = old[n]
      BY <3>0 DEF Without
    <3>2. parent \in DOMAIN without
      BY <2>2, <2>4, <3>1
    <3> HIDE DEF gone, kept, parent, old
    <3> DEFINE first == [without EXCEPT ![parent] = [without[parent] EXCEPT !.children = kept]]
               next == [first EXCEPT
                          ![parent] = [first[parent] EXCEPT
                                         !.selected = IF without[parent].selected = m
                                                      THEN LastOr(kept, NoMessage)
                                                      ELSE without[parent].selected]]
    <3>3. msgs = next
      OBVIOUS
    <3> HIDE DEF without, msgs
    <3>4. /\ DOMAIN first = DOMAIN without /\ first = [n \in DOMAIN first |-> first[n]]
          /\ \A n \in DOMAIN first : Shaped(first[n])
          /\ \A n \in DOMAIN first \ {parent} : first[n] = without[n]
          /\ first[parent].parent = without[parent].parent
          /\ first[parent].children = kept
          /\ first[parent].selected = without[parent].selected
      BY <3>1, <3>2 DEF Shaped
    <3> HIDE DEF first
    <3> DEFINE sel == IF without[parent].selected = m THEN LastOr(kept, NoMessage)
                      ELSE without[parent].selected
    <3>5. /\ DOMAIN next = DOMAIN first /\ next = [n \in DOMAIN next |-> next[n]]
          /\ \A n \in DOMAIN next : Shaped(next[n])
          /\ \A n \in DOMAIN next \ {parent} : next[n] = first[n]
          /\ next[parent].parent = first[parent].parent
          /\ next[parent].children = first[parent].children
          /\ next[parent].selected = sel
      <4>1. next = [first EXCEPT ![parent] = [first[parent] EXCEPT !.selected = sel]]
        OBVIOUS
      <4> HIDE DEF next, sel
      <4> QED BY <3>2, <3>4, <4>1 DEF Shaped
    <3> HIDE DEF next
    <3> QED BY <3>1, <3>2, <3>3, <3>4, <3>5
  <2> HIDE DEF msgs
  <2>6. /\ IsHistory(new) /\ new.msgs = msgs
        /\ new.tail = IF h.tail \in gone THEN parent ELSE h.tail
        /\ new.current = IF h.current \in gone THEN parent ELSE h.current
    <3> HIDE DEF gone, parent
    <3> QED BY <2>2, <2>5 DEF IsHistory
  <2> HIDE DEF new
  <2>7. Tree(msgs)
    <3>1. Pruned(old, msgs, m, gone)
      <4> HIDE DEF gone
      <4> QED BY <2>5 DEF Pruned, SameLinks
    <3> HIDE DEF gone, old
    <3> QED BY <2>2, <2>3, <3>1, TreePruned
  <2>8. Exists(new, new.tail) /\ (h.current \in DOMAIN old => Exists(new, new.current))
        /\ (new.current # h.current => Exists(new, new.current))
    <3> HIDE DEF gone, old, parent
    <3> QED BY <2>2, <2>4, <2>5, <2>6 DEF Exists
  <2>9. /\ Sound(RebuildPath(new)) /\ RebuildPath(new).msgs = msgs
        /\ RebuildPath(new).current = new.current
    BY <2>6, <2>7, <2>8, RebuildSound
  <2> HIDE DEF gone
  <2> QED BY <2>1, <2>4, <2>5, <2>6, <2>8, <2>9 DEF Shrunk, Exists
<1>2. CASE ~IsDeletable(h, m)
  BY <1>2, SameIsShrunk DEF DeleteSubtree
<1> QED BY <1>1, <1>2

LEMMA DeleteNodeSound ==
  ASSUME NEW h, Sound(h), NEW m
  PROVE  Shrunk(h, DeleteNode(h, m))
<1>1. CASE IsDeletable(h, m)
  <2> DEFINE old == h.msgs
             parent == h.msgs[m].parent
             children == h.msgs[m].children
             spliced == Splice(h.msgs[parent].children, m, children)
             chosen == IF old[parent].selected = m
                       THEN FirstOr(children, LastOr(spliced, NoMessage))
                       ELSE old[parent].selected
             msgs == [n \in DOMAIN h.msgs \ {m} |->
                        IF n \in ToSet(children) THEN [h.msgs[n] EXCEPT !.parent = parent]
                        ELSE IF n = parent
                        THEN [h.msgs[n] EXCEPT
                                !.children = spliced,
                                !.selected = IF @ = m
                                             THEN FirstOr(children, LastOr(spliced, NoMessage))
                                             ELSE @]
                        ELSE h.msgs[n]]
             new == [h EXCEPT !.msgs = msgs,
                              !.tail = IF @ = m THEN LastOr(children, parent) ELSE @,
                              !.current = IF @ = m THEN FirstOr(children, parent) ELSE @]
  <2>1. DeleteNode(h, m) = RebuildPath(new)
    BY <1>1 DEF DeleteNode
  <2>2. /\ IsHistory(h) /\ Tree(old) /\ m \in DOMAIN old /\ m # Root
        /\ parent \in DOMAIN old /\ h.tail \in DOMAIN old
    BY <1>1, DeletableIsBelow DEF Sound, Exists
  <2>3. /\ children \in Seq(DOMAIN old)
        /\ ToSet(children) = { c \in DOMAIN old : old[c].parent = m }
    BY <2>2 DEF Tree, Listed
  <2>4. parent # m /\ parent \notin ToSet(children) /\ m \notin ToSet(children)
    <3>1. m \notin ToSet(Paths(old)[parent])
      BY <2>2, NotAboveItself
    <3>2. \A n \in DOMAIN old : n \in ToSet(Paths(old)[n])
      BY <2>2, PathShape
    <3>3. parent # m
      BY <2>2, <3>1, <3>2
    <3>4. ASSUME old[parent].parent = m PROVE FALSE
      <4>1. parent # Root
        BY <2>2, <3>4 DEF Tree
      <4>2. ToSet(Paths(old)[parent]) = ToSet(Paths(old)[m]) \cup {parent}
        BY <2>2, <3>4, <4>1, PathGrows
      <4> QED BY <2>2, <3>1, <3>2, <4>2
    <3> QED BY <2>3, <3>3, <3>4
  <2>5. /\ DOMAIN msgs = DOMAIN old \ {m} /\ msgs = [n \in DOMAIN msgs |-> msgs[n]]
        /\ \A n \in DOMAIN msgs : Shaped(msgs[n])
        /\ \A n \in ToSet(children) : /\ msgs[n].parent = parent
                                      /\ msgs[n].children = old[n].children
                                      /\ msgs[n].selected = old[n].selected
        /\ msgs[parent].parent = old[parent].parent /\ msgs[parent].children = spliced
        /\ msgs[parent].selected = chosen
        /\ \A n \in DOMAIN msgs \ (ToSet(children) \cup {parent}) : msgs[n] = old[n]
    <3>0. \A n \in DOMAIN old : Shaped(old[n])
      BY <2>2 DEF IsHistory
    <3>1. msgs = [n \in DOMAIN old \ {m} |->
                        IF n \in ToSet(children) THEN [old[n] EXCEPT !.parent = parent]
                        ELSE IF n = parent
                        THEN [old[parent] EXCEPT !.children = spliced, !.selected = chosen]
                        ELSE old[n]]
      <4> HIDE DEF parent, spliced, children
      <4> QED OBVIOUS
    <3> HIDE DEF parent, spliced, children, chosen, old, msgs
    <3>2. ToSet(children) \subseteq DOMAIN old \ {m} /\ parent \in DOMAIN old \ {m}
      BY <2>2, <2>3, <2>4
    <3>3. \A n \in ToSet(children) : /\ msgs[n].parent = parent
                                     /\ msgs[n].children = old[n].children
                                     /\ msgs[n].selected = old[n].selected
      BY <3>0, <3>1, <3>2 DEF Shaped
    <3>4. msgs[parent] = [old[parent] EXCEPT !.children = spliced, !.selected = chosen]
      BY <2>4, <3>1, <3>2
    <3>5. /\ msgs[parent].parent = old[parent].parent /\ msgs[parent].children = spliced
          /\ msgs[parent].selected = chosen
      BY <3>0, <3>2, <3>4 DEF Shaped
    <3>6. DOMAIN msgs = DOMAIN old \ {m} /\ msgs = [n \in DOMAIN msgs |-> msgs[n]]
      BY <3>1
    <3>7. \A n \in DOMAIN msgs : Shaped(msgs[n])
      BY <3>0, <3>1, <3>2 DEF Shaped
    <3>8. \A n \in DOMAIN msgs \ (ToSet(children) \cup {parent}) : msgs[n] = old[n]
      BY <3>1
    <3> QED BY <3>3, <3>5, <3>6, <3>7, <3>8
  <2> HIDE DEF msgs
  <2>6. /\ IsHistory(new) /\ new.msgs = msgs
        /\ new.tail = IF h.tail = m THEN LastOr(children, parent) ELSE h.tail
        /\ new.current = IF h.current = m THEN FirstOr(children, parent) ELSE h.current
    <3> HIDE DEF children, parent
    <3> QED BY <2>2, <2>5 DEF IsHistory
  <2> HIDE DEF new
  <2>7. Tree(msgs) /\ ToSet(children) \subseteq DOMAIN msgs
    <3>1. Lifted(old, msgs, m)
      <4>1. \A n \in DOMAIN msgs \ (ToSet(children) \cup {parent}) : SameLinks(old, msgs, n)
        BY <2>5 DEF SameLinks
      <4> QED BY <2>5, <4>1 DEF Lifted
    <3> QED BY <2>2, <3>1, TreeLifted
  <2>8. LastOr(children, parent) \in DOMAIN msgs /\ FirstOr(children, parent) \in DOMAIN msgs
    <3>1. parent \in DOMAIN msgs
      BY <2>2, <2>4, <2>5
    <3> HIDE DEF children, parent
    <3> QED BY <2>3, <2>7, <3>1, EndsAreIn
  <2>9. Exists(new, new.tail) /\ (h.current \in DOMAIN old => Exists(new, new.current))
        /\ (new.current # h.current => Exists(new, new.current))
    <3> HIDE DEF children, old, parent
    <3> QED BY <2>2, <2>5, <2>6, <2>8 DEF Exists
  <2>10. /\ Sound(RebuildPath(new)) /\ RebuildPath(new).msgs = msgs
         /\ RebuildPath(new).current = new.current
    BY <2>6, <2>7, <2>9, RebuildSound
  <2> QED BY <2>1, <2>5, <2>6, <2>9, <2>10 DEF Shrunk, Exists
<1>2. CASE ~IsDeletable(h, m)
  BY <1>2, SameIsShrunk DEF DeleteNode
<1> QED BY <1>1, <1>2

\* The path on display is a list of messages from the root to the tail.
LEMMA PathIsThere ==
  ASSUME NEW h, Sound(h)
  PROVE  /\ h.path \in Seq(DOMAIN h.msgs) /\ h.path # <<>>
         /\ ToSet(h.path) \subseteq DOMAIN h.msgs /\ Root \in DOMAIN h.msgs
         /\ h.tail \in ToSet(h.path)
  BY PathShape DEF Sound, PathTo, Exists, Tree

\* Navigating selects a message on the path.
LEMMA NavigateSound ==
  ASSUME NEW h, Sound(h), NEW direction \in Directions
  PROVE  LET new == NavigateList(h, direction) IN
         /\ Sound(new) /\ new.msgs = h.msgs /\ new.tail = h.tail /\ new.path = h.path
         /\ new.current \in ToSet(h.path)
<1> DEFINE path == h.path
           here == IF h.current \in ToSet(path)
                   THEN CHOOSE i \in DOMAIN path : path[i] = h.current ELSE 1
           there == CASE direction = "Up" -> Max({here - 1, 1})
                      [] direction = "Down" -> Min({here + 1, Len(path)})
                      [] direction = "Top" -> 1
                      [] direction = "Bottom" -> Len(path)
<1>1. path \in Seq(DOMAIN h.msgs) /\ path # <<>>
  BY PathIsThere
<1> HIDE DEF path
<1>2. Len(path) \in Nat \ {0} /\ DOMAIN path = 1 .. Len(path)
  BY <1>1
<1>3. here \in 1 .. Len(path)
  BY <1>2 DEF ToSet
<1> HIDE DEF here
<1>4. there \in 1 .. Len(path)
  <2>1. Max({here - 1, 1}) \in 1 .. Len(path)
    <3>1. here - 1 \in Int /\ 1 \in Int
      BY <1>2, <1>3
    <3>2. Max({here - 1, 1}) \in {here - 1, 1} /\ Max({here - 1, 1}) >= 1
      BY <3>1 DEF Max
    <3> QED BY <1>2, <1>3, <3>2
  <2>2. Min({here + 1, Len(path)}) \in 1 .. Len(path)
    <3>1. here + 1 \in Int /\ Len(path) \in Int
      BY <1>2, <1>3
    <3>2. /\ Min({here + 1, Len(path)}) \in {here + 1, Len(path)}
          /\ Min({here + 1, Len(path)}) <= Len(path)
      BY <3>1 DEF Min
    <3> QED BY <1>2, <1>3, <3>2
  <2> QED BY <1>2, <2>1, <2>2 DEF Directions
<1>5. NavigateList(h, direction) = [h EXCEPT !.current = path[there]]
  BY DEF NavigateList, there, here, path
<1> HIDE DEF there
<1>6. path[there] \in ToSet(path)
  BY <1>2, <1>4 DEF ToSet
<1> QED BY <1>5, <1>6, SelectSound DEF path

LEMMA TryUpdateSound ==
  ASSUME NEW h, Sound(h), NEW m, NEW status, NEW tokens
  PROVE  LET new == TryUpdate(h, m, status, tokens)
         IN  SameTree(h, new) /\ new.current = h.current
<1> DEFINE new == TryUpdate(h, m, status, tokens)
           becomes == IF status = "Completed" /\ tokens = 0 THEN "Error" ELSE status
           message == [h.msgs[m] EXCEPT !.status = becomes, !.tokens = tokens]
           msgs == [h.msgs EXCEPT ![m] = message]
<1>0. IsHistory(h)
  BY DEF Sound
<1>1. CASE Exists(h, m) /\ MayBecome(h.msgs[m].status, status)
  <2>1. new = [h EXCEPT !.msgs = msgs]
    BY <1>1 DEF TryUpdate
  <2> HIDE DEF new, becomes
  <2>2. /\ Shaped(message) /\ message.parent = h.msgs[m].parent
        /\ message.children = h.msgs[m].children /\ message.selected = h.msgs[m].selected
    BY <1>0, <1>1 DEF IsHistory, Shaped, Exists
  <2> HIDE DEF message
  <2>3. /\ DOMAIN msgs = DOMAIN h.msgs /\ msgs = [n \in DOMAIN msgs |-> msgs[n]]
        /\ \A n \in DOMAIN msgs : Shaped(msgs[n]) /\ SameLinks(h.msgs, msgs, n)
    BY <1>0, <1>1, <2>2 DEF IsHistory, Exists, SameLinks
  <2> HIDE DEF msgs
  <2>4. SameTree(h, new) /\ new.current = h.current
    BY <1>0, <2>1, <2>3 DEF SameTree, IsHistory
  <2> QED BY <2>4 DEF new
<1>2. CASE ~Exists(h, m) \/ ~MayBecome(h.msgs[m].status, status)
  BY <1>0, <1>2 DEF TryUpdate, SameTree, SameLinks
<1> QED BY <1>1, <1>2

LEMMA DecrementTtlSound ==
  ASSUME NEW h, Sound(h), NEW ids
  PROVE  LET new == DecrementTtl(h, ids) IN SameTree(h, new) /\ new.current = h.current
<1> DEFINE msgs == [m \in DOMAIN h.msgs |->
                      IF m \in ids /\ h.msgs[m].context.class = "leased"
                      THEN [h.msgs[m] EXCEPT !.context.ttl = Max({h.msgs[m].context.ttl - 1, 0})]
                      ELSE h.msgs[m]]
<1>0. IsHistory(h)
  BY DEF Sound
<1>1. /\ DOMAIN msgs = DOMAIN h.msgs /\ msgs = [n \in DOMAIN msgs |-> msgs[n]]
      /\ \A n \in DOMAIN msgs : Shaped(msgs[n]) /\ SameLinks(h.msgs, msgs, n)
  BY <1>0 DEF IsHistory, Shaped, SameLinks
<1>2. DecrementTtl(h, ids) = [h EXCEPT !.msgs = msgs]
  BY DEF DecrementTtl
<1> HIDE DEF msgs
<1> QED BY <1>0, <1>1, <1>2 DEF SameTree, IsHistory

LEMMA AfterPromptSound ==
  ASSUME NEW h, Sound(h)
  PROVE  SameTree(h, AfterPrompt(h)) /\ AfterPrompt(h).current = h.current
  BY DEF AfterPrompt, Sound, SameTree, SameLinks, IsHistory, Shaped

(***************************************************************************)
(* Sequences of commands and events.                                       *)
(***************************************************************************)

IsSequence(s) == s \in Seq({ s[i] : i \in DOMAIN s })

In(s, X) == \E i \in DOMAIN s : s[i] \in X
Once(s, X) == \A i, j \in DOMAIN s : s[i] \in X /\ s[j] \in X => i = j

Adds(q) == {[cmd |-> "AddUserMessage", q |-> q]}
Creates(q) == {[cmd |-> "CreateAssistantMessage", q |-> q]}
Updates(q) == { [cmd |-> "UpdateMessage", q |-> q, status |-> u[1], tokens |-> u[2]] :
                u \in Outcomes }
Requests(q) == {[event |-> "Request", parent |-> q]}

Submitted == [cmd : {"AddUserMessage", "EmbedMessage", "AddMessage"}, q : Questions]

(***************************************************************************)
(* The invariant.                                                          *)
(***************************************************************************)

Shown == {"shown", "tools", "told", "done"}

Shape ==
  /\ IsHistory(chat) /\ IsSequence(queue) /\ IsSequence(events)
  /\ toSend \in Seq(Submitted) /\ asked \in Nat
  /\ pending \subseteq Questions /\ ready \subseteq Questions
  /\ starts \in [Questions -> Nat]
  /\ session \in [Questions -> {"none", "paired", "creating", "running", "failed"} \cup Shown]
  /\ manager.step = "select" =>
       \E q \in Questions : manager.msg \in {IdOf("question", q), IdOf("more", q)}
  /\ \A i \in DOMAIN events :
       /\ events[i].parent \in Questions
       /\ events[i].event = "Request" => events[i] \in Requests(events[i].parent)

\* The question is added and about to be selected; it was announced to the LLM manager.
Selecting(q) == manager.step = "select" /\ manager.msg = IdOf("question", q)
Announced(q) == In(events, Requests(q)) \/ q \in pending \/ starts[q] > 0

\* A question is at one of the places, and there once.
OnePlace(q) ==
  /\ Once(toSend, Adds(q)) /\ Once(queue, Adds(q)) /\ Once(events, Requests(q))
  /\ asked < q => ~In(toSend, Adds(q)) /\ ~In(queue, Adds(q)) /\ ~Selecting(q) /\ ~Announced(q)
  /\ In(toSend, Adds(q)) => ~In(queue, Adds(q)) /\ ~Selecting(q) /\ ~Announced(q)
  /\ In(queue, Adds(q)) => ~Selecting(q) /\ ~Announced(q)
  /\ Selecting(q) => ~Announced(q)
  /\ In(events, Requests(q)) => q \notin pending /\ starts[q] = 0
  /\ q \in pending => starts[q] = 0
  /\ starts[q] <= 1

\* The messages of the user are the questions that were announced, or are about to be.
UsersAnnounced ==
  \A m \in DOMAIN chat.msgs :
    chat.msgs[m].kind = "User" =>
      \E q \in Questions : m = IdOf("question", q) /\ (Selecting(q) \/ Announced(q))

\* A prompt comes behind the request for its question.
PromptsAnnounced ==
  /\ manager.step = "prompt" => manager.parent \in Questions /\ Announced(manager.parent)
  /\ \A i \in DOMAIN events :
       events[i].event = "PromptConstructed" =>
         LET q == events[i].parent IN
         \/ q \in pending \/ starts[q] > 0
         \/ \E j \in 1 .. i - 1 : events[j] \in Requests(q)

\* Where a session is with the placeholder of its answer.
SessionSound(q) ==
  LET answer == IdOf("answer", q) IN
  /\ starts[q] = 0 => session[q] = "none"
  /\ Once(queue, Creates(q))
  /\ In(queue, Creates(q)) => session[q] = "creating"
  /\ In(queue, Updates(q)) => session[q] \in Shown
  /\ Exists(chat, answer) /\ chat.msgs[answer].status = "Generating" =>
       \/ session[q] = "running"
       \/ session[q] \in Shown /\ In(queue, Updates(q))

Inv ==
  /\ Shape
  /\ \A q \in Questions : OnePlace(q) /\ SessionSound(q)
  /\ UsersAnnounced /\ PromptsAnnounced /\ NoPromptStranded

(***************************************************************************)
(* Lemmas about sequences.                                                 *)
(***************************************************************************)

LEMMA AppendAt ==
  ASSUME NEW s, IsSequence(s), NEW x
  PROVE  /\ IsSequence(Append(s, x)) /\ DOMAIN s = 1 .. Len(s) /\ Len(s) \in Nat
         /\ DOMAIN Append(s, x) = 1 .. Len(s) + 1
         /\ Append(s, x)[Len(s) + 1] = x
         /\ \A i \in DOMAIN s : Append(s, x)[i] = s[i]
<1> DEFINE S == { s[i] : i \in DOMAIN s }
           T == S \cup {x}
           t == Append(s, x)
<1>1. s \in Seq(T)
  <2>1. s \in Seq(S)
    BY DEF IsSequence
  <2> HIDE DEF S
  <2> QED BY <2>1, SeqMonotonic
<1>2. s \in Seq(S) /\ x \in T
  BY DEF IsSequence
<1>3. /\ Append(s, x) \in Seq(T) /\ Len(Append(s, x)) = Len(s) + 1
      /\ \A i \in 1 .. Len(s) : Append(s, x)[i] = s[i]
      /\ Append(s, x)[Len(s) + 1] = x
  <2> HIDE DEF T
  <2> QED BY <1>1, <1>2, AppendProperties
<1>4. DOMAIN s = 1 .. Len(s) /\ Len(s) \in Nat /\ DOMAIN t = 1 .. Len(s) + 1
  <2> HIDE DEF T
  <2> QED BY <1>1, <1>3, LenProperties
<1>5. IsSequence(t)
  <2> HIDE DEF t, T
  <2>1. \A i \in 1 .. Len(t) : t[i] \in { t[j] : j \in DOMAIN t }
    BY <1>3, LenProperties DEF t
  <2> QED BY <2>1, <1>3 DEF IsSequence, t
<1> QED BY <1>3, <1>4, <1>5

LEMMA TailAt ==
  ASSUME NEW s, IsSequence(s), s # <<>>
  PROVE  /\ IsSequence(Tail(s)) /\ DOMAIN s = 1 .. Len(s) /\ Len(s) \in Nat \ {0}
         /\ DOMAIN Tail(s) = 1 .. Len(s) - 1
         /\ Head(s) = s[1]
         /\ \A i \in DOMAIN Tail(s) : Tail(s)[i] = s[i + 1]
<1> DEFINE S == { s[i] : i \in DOMAIN s }
<1>1. s \in Seq(S)
  BY DEF IsSequence
<1>2. DOMAIN s = 1 .. Len(s) /\ Len(s) \in Nat \ {0}
  <2> HIDE DEF S
  <2> QED BY <1>1, LenProperties, EmptySeq
<1>3. /\ Tail(s) \in Seq(S) /\ Len(Tail(s)) = Len(s) - 1
      /\ \A i \in 1 .. Len(Tail(s)) : Tail(s)[i] = s[i + 1]
  <2> HIDE DEF S
  <2> QED BY <1>1, HeadTailProperties
<1>4. DOMAIN Tail(s) = 1 .. Len(s) - 1
  <2> HIDE DEF S
  <2> QED BY <1>3, LenProperties
<1>5. Head(s) = s[1]
  <2> HIDE DEF S
  <2> QED BY <1>1, <1>2
<1>6. IsSequence(Tail(s))
  <2> DEFINE t == Tail(s)
             T == { t[i] : i \in DOMAIN t }
  <2>1. \A i \in 1 .. Len(t) : t[i] \in T
    BY <1>2, <1>3, <1>4
  <2> HIDE DEF T, t, S
  <2>2. t \in Seq(S)
    BY <1>3 DEF t
  <2>3. t \in Seq(T)
    BY <2>1, <2>2
  <2> QED BY <2>3 DEF IsSequence, T, t
<1> QED BY <1>2, <1>3, <1>4, <1>5, <1>6

LEMMA SeqIsSequence ==
  ASSUME NEW S, NEW s \in Seq(S)
  PROVE  IsSequence(s)
  BY LenProperties DEF IsSequence

LEMMA AppendIn ==
  ASSUME NEW s, IsSequence(s), NEW x, NEW X
  PROVE  /\ In(Append(s, x), X) <=> In(s, X) \/ x \in X
         /\ Once(s, X) /\ (x \in X => ~In(s, X)) => Once(Append(s, x), X)
<1> DEFINE t == Append(s, x)
<1>1. /\ DOMAIN s = 1 .. Len(s) /\ Len(s) \in Nat /\ DOMAIN t = 1 .. Len(s) + 1
      /\ t[Len(s) + 1] = x /\ \A i \in DOMAIN s : t[i] = s[i]
  BY AppendAt
<1> HIDE DEF t
<1>2. In(t, X) <=> In(s, X) \/ x \in X
  BY <1>1 DEF In
<1>3. Once(s, X) /\ (x \in X => ~In(s, X)) => Once(t, X)
  BY <1>1 DEF Once, In
<1> QED BY <1>2, <1>3 DEF t

LEMMA TailIn ==
  ASSUME NEW s, IsSequence(s), s # <<>>, NEW X
  PROVE  /\ In(Tail(s), X) => In(s, X)
         /\ In(s, X) /\ Head(s) \notin X => In(Tail(s), X)
         /\ Once(s, X) => Once(Tail(s), X)
         /\ Head(s) \in X => In(s, X)
         /\ Once(s, X) /\ Head(s) \in X => ~In(Tail(s), X)
<1> DEFINE t == Tail(s)
<1>1. /\ DOMAIN s = 1 .. Len(s) /\ Len(s) \in Nat \ {0} /\ DOMAIN t = 1 .. Len(s) - 1
      /\ Head(s) = s[1] /\ \A i \in DOMAIN t : t[i] = s[i + 1]
  BY TailAt
<1> HIDE DEF t
<1>2. In(t, X) => In(s, X)
  BY <1>1 DEF In
<1>3. In(s, X) /\ Head(s) \notin X => In(t, X)
  <2> SUFFICES ASSUME NEW i \in DOMAIN s, s[i] \in X, Head(s) \notin X
               PROVE  In(t, X)
    BY DEF In
  <2>1. i # 1
    BY <1>1
  <2>2. i - 1 \in DOMAIN t /\ t[i - 1] = s[i]
    BY <1>1, <2>1
  <2> QED BY <2>2 DEF In
<1>4. Once(s, X) => Once(t, X)
  BY <1>1 DEF Once
<1>5. Head(s) \in X => In(s, X)
  BY <1>1 DEF In
<1>6. Once(s, X) /\ Head(s) \in X => ~In(t, X)
  BY <1>1 DEF Once, In
<1> QED BY <1>2, <1>3, <1>4, <1>5, <1>6 DEF t

(***************************************************************************)
(* Steps that do not concern any question's place or placeholder.          *)
(***************************************************************************)

\* What comes in is neither of the user nor a placeholder.
Calm(h, new) ==
  /\ IsHistory(new)
  /\ \A n \in DOMAIN new.msgs :
       \/ Carried(h, new, n)
       \/ new.msgs[n].kind # "User" /\ new.msgs[n].status # "Generating"

Tracked == {"AddUserMessage", "CreateAssistantMessage", "UpdateMessage"}

CommandsKept ==
  /\ IsSequence(queue')
  /\ \A q \in Questions : \A X \in {Adds(q), Creates(q), Updates(q)} :
       /\ In(queue', X) <=> In(queue, X)
       /\ Once(queue, X) => Once(queue', X)

ManagerKept ==
  \/ manager' = manager
  \/ /\ \A q \in Questions : ~Selecting(q)
     /\ manager'.step = "select" => \E q \in Questions : manager'.msg = IdOf("more", q)
     /\ manager'.step = "prompt" =>
          manager'.parent \in Questions /\ Announced(manager'.parent)

SessionsKept ==
  \A q \in Questions : session'[q] = session[q] \/ {session[q], session'[q]} \subseteq Shown

Plain ==
  /\ Calm(chat, chat') /\ CommandsKept /\ ManagerKept
  /\ session' \in [Questions -> {"none", "paired", "creating", "running", "failed"} \cup Shown]
  /\ SessionsKept
  /\ UNCHANGED <<toSend, asked, events, pending, ready, starts>>

LEMMA NotTracked ==
  ASSUME NEW c, c.cmd \notin Tracked, NEW q
  PROVE  c \notin Adds(q) /\ c \notin Creates(q) /\ c \notin Updates(q)
  BY DEF Tracked, Adds, Creates, Updates

LEMMA HandleKeeps ==
  ASSUME IsSequence(queue), NEW c, c.cmd \notin Tracked, Handle(c)
  PROVE  CommandsKept
<1>1. queue # <<>> /\ Head(queue) = c /\ queue' = Tail(queue)
  BY DEF Handle
<1>2. IsSequence(queue')
  BY <1>1, TailAt
<1>3. ASSUME NEW q \in Questions, NEW X \in {Adds(q), Creates(q), Updates(q)}
      PROVE  /\ In(queue', X) <=> In(queue, X)
             /\ Once(queue, X) => Once(queue', X)
  <2>1. c \notin X
    BY NotTracked
  <2> QED BY <1>1, <2>1, TailIn
<1> QED BY <1>2, <1>3 DEF CommandsKept

LEMMA SendKeeps ==
  ASSUME IsSequence(queue), NEW c, c.cmd \notin Tracked, queue' = Append(queue, c)
  PROVE  CommandsKept
<1>1. IsSequence(queue')
  BY AppendAt
<1>2. ASSUME NEW q \in Questions, NEW X \in {Adds(q), Creates(q), Updates(q)}
      PROVE  /\ In(queue', X) <=> In(queue, X)
             /\ Once(queue, X) => Once(queue', X)
  <2>1. c \notin X
    BY NotTracked
  <2> QED BY <2>1, AppendIn
<1> QED BY <1>1, <1>2 DEF CommandsKept

LEMMA QuietQueue ==
  ASSUME IsSequence(queue), UNCHANGED queue
  PROVE  CommandsKept
  BY DEF CommandsKept

LEMMA NothingNewIsCalm ==
  ASSUME NEW h, NEW new, NothingNew(h, new)
  PROVE  Calm(h, new)
  BY DEF NothingNew, Calm

LEMMA GrowOnly ==
  ASSUME IsHistory(chat), NEW parent, NEW m, NEW message, Shaped(message),
         NEW selected \in BOOLEAN, Grow(parent, m, message, selected)
  PROVE  IF Exists(chat, parent) THEN OnlyNew(chat, chat', m, message)
         ELSE NothingNew(chat, chat')
<1> DEFINE grown == AddChild(chat, parent, m, message)
<1>1. IF Exists(chat, parent) THEN OnlyNew(chat, grown, m, message) ELSE grown = chat
  BY AddChildKeeps
<1>2. chat' = IF selected /\ Exists(grown, m) THEN [grown EXCEPT !.current = m] ELSE grown
  BY DEF Grow
<1>3. IsHistory(grown)
  BY <1>1 DEF OnlyNew
<1> HIDE DEF grown
<1>4. IsHistory(chat') /\ chat'.msgs = grown.msgs
  BY <1>2, <1>3, SelectKeeps DEF NothingNew
<1> QED BY <1>1, <1>4 DEF OnlyNew, NothingNew, Carried, Exists

LEMMA GrowCalm ==
  ASSUME IsHistory(chat), NEW parent, NEW m, NEW message, Shaped(message),
         NEW selected \in BOOLEAN, Grow(parent, m, message, selected),
         message.kind # "User", message.status # "Generating"
  PROVE  Calm(chat, chat')
<1>1. OnlyNew(chat, chat', m, message) \/ NothingNew(chat, chat')
  BY GrowOnly
<1> QED BY <1>1, NothingNewIsCalm DEF OnlyNew, Calm

\* A step that adds no placeholder and handles no command about one.
LEMMA SessionsSame ==
  ASSUME Inv, SessionsKept, UNCHANGED starts,
         \A q \in Questions : In(queue', Creates(q)) <=> In(queue, Creates(q)),
         \A q \in Questions : In(queue', Updates(q)) <=> In(queue, Updates(q)),
         \A q \in Questions : Once(queue, Creates(q)) => Once(queue', Creates(q)),
         \A n \in DOMAIN chat'.msgs :
           Carried(chat, chat', n) \/ chat'.msgs[n].status # "Generating"
  PROVE  \A q \in Questions : SessionSound(q)'
<1> SUFFICES ASSUME NEW q \in Questions PROVE SessionSound(q)'
  OBVIOUS
<1>1. SessionSound(q)
  BY DEF Inv
<1>2. session'[q] = session[q] \/ (session[q] \in Shown /\ session'[q] \in Shown)
  BY DEF SessionsKept
<1>3. starts[q] = 0 => session'[q] = "none"
  BY <1>1, <1>2 DEF SessionSound, Shown
<1>4. In(queue', Creates(q)) => session'[q] = "creating"
  BY <1>1, <1>2 DEF SessionSound, Shown
<1>5. In(queue', Updates(q)) => session'[q] \in Shown
  BY <1>1, <1>2 DEF SessionSound
<1>6. ASSUME Exists(chat', IdOf("answer", q)),
             chat'.msgs[IdOf("answer", q)].status = "Generating"
      PROVE  \/ session'[q] = "running"
             \/ session'[q] \in Shown /\ In(queue', Updates(q))
  <2>1. Carried(chat, chat', IdOf("answer", q))
    BY <1>6 DEF Exists
  <2>2. Exists(chat, IdOf("answer", q)) /\ chat.msgs[IdOf("answer", q)].status = "Generating"
    BY <1>6, <2>1 DEF Carried
  <2> QED BY <1>1, <1>2, <2>2 DEF SessionSound, Shown
<1> QED BY <1>1, <1>3, <1>4, <1>5, <1>6 DEF SessionSound

LEMMA PlainKeeps ==
  ASSUME Inv, Plain
  PROVE  Inv'
<1> USE DEF Plain
<1>1. /\ \A q \in Questions : In(queue', Adds(q)) <=> In(queue, Adds(q))
      /\ \A q \in Questions : In(queue', Creates(q)) <=> In(queue, Creates(q))
      /\ \A q \in Questions : In(queue', Updates(q)) <=> In(queue, Updates(q))
      /\ \A q \in Questions : Once(queue, Adds(q)) => Once(queue', Adds(q))
      /\ \A q \in Questions : Once(queue, Creates(q)) => Once(queue', Creates(q))
      /\ IsSequence(queue')
  BY DEF CommandsKept
<1>2. \A q \in Questions : Selecting(q)' <=> Selecting(q)
  BY DEF ManagerKept, Selecting, IdOf
<1>3. \A q : Announced(q)' <=> Announced(q)
  BY DEF Announced
<1>4. Shape'
  BY <1>1 DEF Inv, Shape, Calm, ManagerKept
<1>5. ASSUME NEW q \in Questions PROVE OnePlace(q)'
  BY <1>1, <1>2, <1>3 DEF Inv, OnePlace
<1>6. \A q \in Questions : SessionSound(q)'
  <2>1. \A n \in DOMAIN chat'.msgs :
          Carried(chat, chat', n) \/ chat'.msgs[n].status # "Generating"
    BY DEF Calm
  <2> QED BY <1>1, <2>1, SessionsSame
<1>7. UsersAnnounced'
  BY <1>2, <1>3 DEF Inv, UsersAnnounced, Calm, Carried, Exists
<1>8. PromptsAnnounced'
  BY <1>3 DEF Inv, PromptsAnnounced, ManagerKept
<1>9. NoPromptStranded'
  BY DEF Inv, NoPromptStranded
<1> QED BY <1>4, <1>5, <1>6, <1>7, <1>8, <1>9 DEF Inv

LEMMA PlainMessages ==
  /\ Shaped(Assistant("Completed")) /\ Shaped(ToolResult) /\ Shaped(User)
  /\ Shaped(Assistant("Generating"))
  /\ \A context : Shaped(SysInfo(context))
  /\ \A message \in {Assistant("Completed"), ToolResult} :
       message.kind # "User" /\ message.status # "Generating"
  /\ \A context : SysInfo(context).kind # "User" /\ SysInfo(context).status # "Generating"
  /\ User.status # "Generating"
  /\ Assistant("Generating").kind # "User"
  BY MessageIsShaped DEF Assistant, ToolResult, User, SysInfo

\* The commands of the keys, the ends of a session's commands and the tasks.
LEMMA PlainStateManager ==
  ASSUME Inv, NEW q,
         \/ q \in Questions /\ (\/ AddMessageImmediate(q) \/ AddMessage(q)
                                \/ AddMessageTool(q) \/ DecrementChatTtl(q))
         \/ \E d \in Directions : NavigateListCommand(d)
         \/ \E m \in Ids : DeleteNodeCommand(m) \/ DeleteMessageCommand(m)
         \/ Reselect
  PROVE  Plain
<1>1. /\ IsHistory(chat) /\ IsSequence(queue)
      /\ session \in [Questions -> {"none", "paired", "creating", "running", "failed"} \cup Shown]
  BY DEF Inv, Shape
<1>2. ASSUME UNCHANGED llmVars PROVE SessionsKept /\ UNCHANGED <<events, pending, ready, starts>>
  BY <1>2 DEF SessionsKept, llmVars
<1>3. CASE q \in Questions /\ AddMessageImmediate(q)
  <2>1. CommandsKept
    <3>1. [cmd |-> "AddMessageImmediate", q |-> q].cmd \notin Tracked
      BY DEF Tracked
    <3> QED BY <1>1, <1>3, <3>1, HandleKeeps DEF AddMessageImmediate
  <2>2. Calm(chat, chat')
    <3>1. Grow(chat.current, IdOf("more", q), Assistant("Completed"), FALSE)
      BY <1>3 DEF AddMessageImmediate, AddThenSelect
    <3> QED BY <1>1, <3>1, PlainMessages, GrowCalm
  <2>3. ManagerKept
    BY <1>3 DEF AddMessageImmediate, AddThenSelect, ManagerKept, Selecting, Handle, Idle
  <2> QED BY <1>1, <1>2, <1>3, <2>1, <2>2, <2>3
      DEF Plain, AddMessageImmediate, uiVars, llmVars
<1>4. CASE AddMessage(q)
  <2>1. CommandsKept
    <3>1. [cmd |-> "AddMessage", q |-> q].cmd \notin Tracked
      BY DEF Tracked
    <3> QED BY <1>1, <1>4, <3>1, HandleKeeps DEF AddMessage
  <2>2. Calm(chat, chat')
    <3>1. Grow(IdOf("question", q), IdOf("notice", q), SysInfo(Leased), TRUE)
      BY <1>4 DEF AddMessage
    <3>2. /\ Shaped(SysInfo(Leased))
          /\ SysInfo(Leased).kind # "User" /\ SysInfo(Leased).status # "Generating"
      BY PlainMessages
    <3> QED BY <1>1, <3>1, <3>2, GrowCalm
  <2> QED BY <1>1, <1>2, <1>4, <2>1, <2>2 DEF Plain, AddMessage, ManagerKept, uiVars, llmVars
<1>5. CASE AddMessageTool(q)
  <2>1. CommandsKept
    <3>1. [cmd |-> "AddMessageTool", q |-> q].cmd \notin Tracked
      BY DEF Tracked
    <3> QED BY <1>1, <1>5, <3>1, HandleKeeps DEF AddMessageTool
  <2>2. Calm(chat, chat')
    <3>1. Grow(chat.current, IdOf("tool", q), ToolResult, TRUE)
      BY <1>5 DEF AddMessageTool
    <3> QED BY <1>1, <3>1, PlainMessages, GrowCalm
  <2> QED BY <1>1, <1>2, <1>5, <2>1, <2>2 DEF Plain, AddMessageTool, ManagerKept, uiVars, llmVars
<1>6. CASE DecrementChatTtl(q)
  <2>1. CommandsKept
    <3>1. [cmd |-> "DecrementChatTtl", q |-> q].cmd \notin Tracked
      BY DEF Tracked
    <3> QED BY <1>1, <1>6, <3>1, HandleKeeps DEF DecrementChatTtl
  <2>2. Calm(chat, chat')
    BY <1>1, <1>6, DecrementTtlKeeps, NothingNewIsCalm DEF DecrementChatTtl
  <2> QED BY <1>1, <1>6, <2>1, <2>2
      DEF Plain, DecrementChatTtl, ManagerKept, SessionsKept, uiVars
<1>7. ASSUME NEW d \in Directions, NavigateListCommand(d) PROVE Plain
  <2>1. CommandsKept
    <3>1. [cmd |-> "NavigateList", direction |-> d].cmd \notin Tracked
      BY DEF Tracked
    <3> QED BY <1>1, <1>7, <3>1, HandleKeeps DEF NavigateListCommand
  <2>2. Calm(chat, chat')
    BY <1>1, <1>7, NavigateKeeps, NothingNewIsCalm DEF NavigateListCommand
  <2> QED BY <1>1, <1>2, <1>7, <2>1, <2>2
      DEF Plain, NavigateListCommand, ManagerKept, uiVars, llmVars
<1>8. ASSUME NEW m \in Ids, DeleteNodeCommand(m) PROVE Plain
  <2>1. CommandsKept
    <3>1. [cmd |-> "Delete", what |-> "node", msg |-> m].cmd \notin Tracked
      BY DEF Tracked
    <3> QED BY <1>1, <1>8, <3>1, HandleKeeps DEF DeleteNodeCommand
  <2>2. Calm(chat, chat')
    BY <1>1, <1>8, DeleteNodeKeeps, NothingNewIsCalm DEF DeleteNodeCommand
  <2> QED BY <1>1, <1>2, <1>8, <2>1, <2>2
      DEF Plain, DeleteNodeCommand, ManagerKept, uiVars, llmVars
<1>9. ASSUME NEW m \in Ids, DeleteMessageCommand(m) PROVE Plain
  <2>1. CommandsKept
    <3>1. [cmd |-> "Delete", what |-> "subtree", msg |-> m].cmd \notin Tracked
      BY DEF Tracked
    <3> QED BY <1>1, <1>9, <3>1, HandleKeeps DEF DeleteMessageCommand
  <2>2. Calm(chat, chat')
    BY <1>1, <1>9, DeleteSubtreeKeeps, NothingNewIsCalm DEF DeleteMessageCommand
  <2>3. ManagerKept
    BY <1>9 DEF DeleteMessageCommand, ManagerKept, Selecting, Handle, Idle
  <2> QED BY <1>1, <1>2, <1>9, <2>1, <2>2, <2>3
      DEF Plain, DeleteMessageCommand, uiVars, llmVars
<1>10. CASE Reselect
  <2>1. CommandsKept
    BY <1>1, <1>10, QuietQueue DEF Reselect
  <2>2. Calm(chat, chat')
    BY <1>1, <1>10, SelectKeeps, NothingNewIsCalm DEF Reselect
  <2>3. ManagerKept
    BY <1>10 DEF Reselect, ManagerKept, Selecting, Idle
  <2> QED BY <1>1, <1>2, <1>10, <2>1, <2>2, <2>3 DEF Plain, Reselect, uiVars, llmVars
<1> QED BY <1>3, <1>4, <1>5, <1>6, <1>7, <1>8, <1>9, <1>10

LEMMA CommandPlain ==
  ASSUME Inv, NEW q \in Questions, NEW from \in Shown, NEW to \in Shown, NEW c,
         c.cmd \notin Tracked, Command(q, from, to, c)
  PROVE  Plain
<1>1. /\ IsHistory(chat) /\ IsSequence(queue)
      /\ session \in [Questions -> {"none", "paired", "creating", "running", "failed"} \cup Shown]
  BY DEF Inv, Shape
<1>2. CommandsKept
  BY <1>1, SendKeeps DEF Command
<1>3. Calm(chat, chat')
  BY <1>1, SameIsNothingNew, NothingNewIsCalm DEF Command
<1>4. session' \in [Questions -> {"none", "paired", "creating", "running", "failed"} \cup Shown]
  BY <1>1 DEF Command
<1>5. SessionsKept
  BY <1>1 DEF Command, SessionsKept
<1> QED BY <1>2, <1>3, <1>4, <1>5 DEF Plain, Command, ManagerKept, uiVars

LEMMA PlainOthers ==
  ASSUME Inv, NEW q, NEW n,
         \/ q \in Questions /\ (ShowTool(q) \/ ShowMore(q) \/ EndSession(q))
         \/ Task(n)
         \/ \E d \in Directions : Move(d)
         \/ \E what \in {"node", "subtree"} : Delete(what)
  PROVE  Plain
<1>1. /\ IsHistory(chat) /\ IsSequence(queue)
      /\ session \in [Questions -> {"none", "paired", "creating", "running", "failed"} \cup Shown]
  BY DEF Inv, Shape
<1>2. ASSUME UNCHANGED llmVars PROVE SessionsKept /\ UNCHANGED <<events, pending, ready, starts>>
  BY <1>2 DEF SessionsKept, llmVars
<1>3. CASE q \in Questions /\ ShowTool(q)
  <2>1. [cmd |-> "AddMessageTool", q |-> q].cmd \notin Tracked
    BY DEF Tracked
  <2> QED BY <1>3, <2>1, CommandPlain DEF ShowTool, Shown
<1>4. CASE q \in Questions /\ ShowMore(q)
  <2>1. [cmd |-> "AddMessageImmediate", q |-> q].cmd \notin Tracked
    BY DEF Tracked
  <2> QED BY <1>4, <2>1, CommandPlain DEF ShowMore, Shown
<1>5. CASE q \in Questions /\ EndSession(q)
  <2>1. [cmd |-> "DecrementChatTtl", q |-> q].cmd \notin Tracked
    BY DEF Tracked
  <2> QED BY <1>5, <2>1, CommandPlain DEF EndSession, Shown
<1>6. CASE TaskAdds(n)
  <2>1. Calm(chat, chat')
    <3>1. Grow(chat.current, IdOf("note", n), SysInfo(Unpinned), FALSE)
      BY <1>6 DEF TaskAdds
    <3> QED BY <1>1, <3>1, PlainMessages, GrowCalm
  <2> QED BY <1>1, <1>2, <1>6, <2>1, QuietQueue
      DEF Plain, TaskAdds, ManagerKept, uiVars, llmVars
<1>7. CASE TaskSelects(n)
  <2>1. Calm(chat, chat')
    BY <1>1, <1>7, SelectKeeps, NothingNewIsCalm DEF TaskSelects
  <2> QED BY <1>1, <1>2, <1>7, <2>1, QuietQueue
      DEF Plain, TaskSelects, ManagerKept, uiVars, llmVars
<1>8. CASE TaskAddsInBackground(n)
  <2>1. Calm(chat, chat')
    <3>1. chat' = AddInBackground(chat, chat.current, IdOf("note", n), SysInfo(Leased))
      BY <1>8 DEF TaskAddsInBackground
    <3>2. \/ OnlyNew(chat, chat', IdOf("note", n), SysInfo(Leased))
          \/ chat' = chat
      BY <1>1, <3>1, PlainMessages, AddInBackgroundKeeps
    <3>3. CASE chat' = chat
      BY <1>1, <3>3, SameIsNothingNew, NothingNewIsCalm
    <3>4. CASE OnlyNew(chat, chat', IdOf("note", n), SysInfo(Leased))
      BY <3>4, PlainMessages DEF OnlyNew, Calm
    <3> QED BY <3>2, <3>3, <3>4
  <2> QED BY <1>1, <1>2, <1>8, <2>1, QuietQueue
      DEF Plain, TaskAddsInBackground, ManagerKept, uiVars, llmVars
<1>9. ASSUME NEW c, c.cmd \notin Tracked, Key(c) PROVE Plain
  <2>1. CommandsKept
    BY <1>1, <1>9, SendKeeps DEF Key
  <2>2. Calm(chat, chat')
    BY <1>1, <1>9, SameIsNothingNew, NothingNewIsCalm DEF Key
  <2> QED BY <1>1, <1>2, <1>9, <2>1, <2>2 DEF Plain, Key, ManagerKept, llmVars
<1>10. ASSUME NEW d \in Directions, Move(d) PROVE Plain
  <2>1. [cmd |-> "NavigateList", direction |-> d].cmd \notin Tracked
    BY DEF Tracked
  <2> QED BY <1>9, <1>10, <2>1 DEF Move
<1>11. ASSUME NEW what \in {"node", "subtree"}, Delete(what) PROVE Plain
  <2>1. [cmd |-> "Delete", what |-> what, msg |-> chat.current].cmd \notin Tracked
    BY DEF Tracked
  <2> QED BY <1>9, <1>11, <2>1 DEF Delete
<1> QED BY <1>3, <1>4, <1>5, <1>6, <1>7, <1>8, <1>10, <1>11 DEF Task

LEMMA EmbedPlain ==
  ASSUME Inv, NEW q, EmbedMessage(q)
  PROVE  Plain
<1>1. /\ IsHistory(chat) /\ IsSequence(queue)
      /\ session \in [Questions -> {"none", "paired", "creating", "running", "failed"} \cup Shown]
  BY DEF Inv, Shape
<1>2. SessionsKept
  BY DEF EmbedMessage, SessionsKept, llmVars
<1>3. CommandsKept
  <2>1. [cmd |-> "EmbedMessage", q |-> q].cmd \notin Tracked
    BY DEF Tracked
  <2> QED BY <1>1, <2>1, HandleKeeps DEF EmbedMessage
<1>4. \A r \in Questions : ~Selecting(r)
  BY DEF EmbedMessage, Handle, Idle, Selecting
<1>5. CASE q \notin added
  <2>1. Grow(chat.current, IdOf("warning", q), SysInfo(Leased), FALSE) /\ manager' = manager
    BY <1>5 DEF EmbedMessage
  <2>2. /\ Shaped(SysInfo(Leased))
        /\ SysInfo(Leased).kind # "User" /\ SysInfo(Leased).status # "Generating"
    BY PlainMessages
  <2>3. Calm(chat, chat')
    BY <1>1, <2>1, <2>2, GrowCalm
  <2> QED BY <1>1, <1>2, <1>3, <2>1, <2>3
      DEF Plain, EmbedMessage, ManagerKept, uiVars, llmVars
<1>6. CASE q \in added /\ LastUserMessage(chat) = NoMessage
  <2>1. chat' = chat /\ manager' = manager
    BY <1>6 DEF EmbedMessage
  <2>2. Calm(chat, chat')
    BY <1>1, <2>1, SameIsNothingNew, NothingNewIsCalm
  <2> QED BY <1>1, <1>2, <1>3, <2>1, <2>2
      DEF Plain, EmbedMessage, ManagerKept, uiVars, llmVars
<1>7. CASE q \in added /\ LastUserMessage(chat) # NoMessage
  <2> DEFINE parent == LastUserMessage(chat)[2]
  <2>1. /\ chat' = AfterPrompt(chat)
        /\ manager' = [step |-> "prompt", parent |-> parent, messages |-> Prompt(chat)]
    BY <1>7 DEF EmbedMessage
  <2>2. Calm(chat, chat')
    BY <1>1, <2>1, AfterPromptKeeps, NothingNewIsCalm
  <2>3. parent \in Questions /\ Announced(parent)
    <3>1. /\ LastUserMessage(chat) \in DOMAIN chat.msgs
          /\ chat.msgs[LastUserMessage(chat)].kind = "User"
      BY <1>7, LastUserMessageIsThere DEF Exists
    <3>2. PICK r \in Questions : LastUserMessage(chat) = IdOf("question", r) /\ Announced(r)
      BY <1>4, <3>1 DEF Inv, UsersAnnounced
    <3> QED BY <3>2 DEF IdOf
  <2>4. ManagerKept
    <3> HIDE DEF parent
    <3> QED BY <1>4, <2>1, <2>3 DEF ManagerKept
  <2> QED BY <1>1, <1>2, <1>3, <2>2, <2>4 DEF Plain, EmbedMessage, uiVars, llmVars
<1> QED BY <1>5, <1>6, <1>7

(***************************************************************************)
(* The steps that take a question from one place to the next.              *)
(***************************************************************************)

LEMMA SubmitKeeps ==
  ASSUME Inv, NEW q \in Questions, Submit(q)
  PROVE  Inv'
<1>1. /\ asked \in Nat /\ q = asked + 1 /\ asked' = q /\ MaxQuestions \in Nat
      /\ toSend' = << [cmd |-> "AddUserMessage", q |-> q], [cmd |-> "EmbedMessage", q |-> q],
                      [cmd |-> "AddMessage", q |-> q] >>
  BY ConversationAssumption DEF Inv, Shape, Submit
<1>2. UNCHANGED <<chat, queue, manager, events, pending, ready, session, starts>>
  BY DEF Submit, llmVars
<1>3. toSend' \in Seq(Submitted)
  BY <1>1 DEF Submitted
<1>4. \A r \in Questions : /\ In(toSend', Adds(r)) => r = q
                           /\ Once(toSend', Adds(r))
  BY <1>1 DEF In, Once, Adds
<1>5. \A r : (Selecting(r)' <=> Selecting(r)) /\ (Announced(r)' <=> Announced(r))
  BY <1>2 DEF Selecting, Announced
<1>6. Shape'
  BY <1>1, <1>2, <1>3 DEF Inv, Shape
<1>7. ASSUME NEW r \in Questions PROVE OnePlace(r)'
  <2>1. OnePlace(r) /\ r \in Int
    BY DEF Inv, Questions
  <2>2. CASE r = q
    <3>1. asked < q /\ ~(asked' < q)
      BY <1>1
    <3> QED BY <1>2, <1>4, <1>5, <2>1, <2>2, <3>1 DEF OnePlace
  <2>3. CASE r # q
    <3>1. asked' < r => asked < r
      BY <1>1, <2>1
    <3> QED BY <1>2, <1>4, <1>5, <2>1, <2>3, <3>1 DEF OnePlace
  <2> QED BY <2>2, <2>3
<1>8. \A r \in Questions : SessionSound(r)'
  BY <1>2 DEF Inv, SessionSound
<1>9. UsersAnnounced' /\ PromptsAnnounced' /\ NoPromptStranded'
  BY <1>2, <1>5 DEF Inv, UsersAnnounced, PromptsAnnounced, NoPromptStranded
<1> QED BY <1>6, <1>7, <1>8, <1>9 DEF Inv

LEMMA SendNextKeeps ==
  ASSUME Inv, SendNext
  PROVE  Inv'
<1> DEFINE c == Head(toSend)
<1>1. /\ toSend \in Seq(Submitted) /\ toSend # <<>> /\ toSend' = Tail(toSend)
      /\ queue' = Append(queue, c) \/ queue' = queue
  BY DEF Inv, Shape, SendNext
<1>2. UNCHANGED <<chat, manager, asked, events, pending, ready, session, starts>>
  BY DEF SendNext, llmVars
<1>3. IsSequence(toSend) /\ IsSequence(queue)
  BY <1>1, SeqIsSequence DEF Inv, Shape
<1>4. c \in Submitted /\ toSend' \in Seq(Submitted)
  BY <1>1, HeadTailProperties
<1>5. \A r : c \notin Creates(r) /\ c \notin Updates(r)
  BY <1>4 DEF Submitted, Creates, Updates
<1> HIDE DEF c
<1>6. /\ IsSequence(queue')
      /\ \A X : /\ In(queue, X) => In(queue', X)
                /\ In(queue', X) => In(queue, X) \/ c \in X
                /\ Once(queue, X) /\ (c \in X => ~In(queue, X)) => Once(queue', X)
  <2>1. CASE queue' = Append(queue, c)
    BY <1>3, <2>1, AppendAt, AppendIn
  <2>2. CASE queue' = queue
    BY <1>3, <2>2
  <2> QED BY <1>1, <2>1, <2>2
<1>7. \A r : /\ In(queue', Creates(r)) <=> In(queue, Creates(r))
             /\ In(queue', Updates(r)) <=> In(queue, Updates(r))
             /\ Once(queue, Creates(r)) => Once(queue', Creates(r))
  BY <1>6, <1>5
<1>8. \A r : (Selecting(r)' <=> Selecting(r)) /\ (Announced(r)' <=> Announced(r))
  BY <1>2 DEF Selecting, Announced
<1>9. Shape'
  BY <1>2, <1>4, <1>6 DEF Inv, Shape
<1>10. ASSUME NEW r \in Questions PROVE OnePlace(r)'
  <2>1. OnePlace(r)
    BY DEF Inv
  <2>2. /\ In(toSend', Adds(r)) => In(toSend, Adds(r))
        /\ Once(toSend', Adds(r))
        /\ c \in Adds(r) => In(toSend, Adds(r)) /\ ~In(toSend', Adds(r))
    BY <1>1, <1>3, <2>1, TailIn DEF OnePlace, c
  <2>3. /\ In(queue', Adds(r)) => In(queue, Adds(r)) \/ c \in Adds(r)
        /\ Once(queue', Adds(r))
    BY <1>6, <2>1, <2>2 DEF OnePlace
  <2> QED BY <1>2, <1>8, <2>1, <2>2, <2>3 DEF OnePlace
<1>11. \A r \in Questions : SessionSound(r)'
  BY <1>2, <1>7 DEF Inv, SessionSound
<1>12. UsersAnnounced' /\ PromptsAnnounced' /\ NoPromptStranded'
  BY <1>2, <1>8 DEF Inv, UsersAnnounced, PromptsAnnounced, NoPromptStranded
<1> QED BY <1>9, <1>10, <1>11, <1>12 DEF Inv

LEMMA AddUserMessageKeeps ==
  ASSUME Inv, NEW q \in Questions, AddUserMessage(q)
  PROVE  Inv'
<1> DEFINE c == [cmd |-> "AddUserMessage", q |-> q]
<1>1. /\ manager = Idle /\ queue # <<>> /\ Head(queue) = c /\ queue' = Tail(queue)
      /\ IsSequence(queue) /\ IsHistory(chat)
  BY DEF Inv, Shape, AddUserMessage, Handle
<1>2. UNCHANGED <<toSend, asked, events, pending, ready, session, starts>>
  BY DEF AddUserMessage, uiVars, llmVars
<1>3. /\ Grow(chat.current, IdOf("question", q), User, FALSE)
      /\ \/ manager' = Idle /\ ~Exists(chat, chat.current)
         \/ manager' = [step |-> "select", msg |-> IdOf("question", q)]
  BY DEF AddUserMessage, AddThenSelect
<1>4. IF Exists(chat, chat.current) THEN OnlyNew(chat, chat', IdOf("question", q), User)
      ELSE NothingNew(chat, chat')
  BY <1>1, <1>3, PlainMessages, GrowOnly
<1>5. IsSequence(queue')
  BY <1>1, TailAt
<1>6. \A r : /\ c \notin Creates(r) /\ c \notin Updates(r)
             /\ c \in Adds(r) => r = q
  BY DEF Adds, Creates, Updates
<1>7. \A r : /\ In(queue', Creates(r)) <=> In(queue, Creates(r))
             /\ In(queue', Updates(r)) <=> In(queue, Updates(r))
             /\ Once(queue, Creates(r)) => Once(queue', Creates(r))
  BY <1>1, <1>6, TailIn
<1>8. In(queue, Adds(q)) /\ ~In(queue', Adds(q))
  <2>1. c \in Adds(q) /\ Once(queue, Adds(q))
    BY DEF Adds, Inv, OnePlace
  <2> QED BY <1>1, <2>1, TailIn
<1>9. \A r : /\ ~Selecting(r)
             /\ Announced(r)' <=> Announced(r)
             /\ Selecting(r)' => r = q
  BY <1>1, <1>2, <1>3 DEF Selecting, Announced, Idle, IdOf
<1>10. Shape'
  BY <1>2, <1>3, <1>4, <1>5 DEF Inv, Shape, OnlyNew, NothingNew, Idle
<1>11. ASSUME NEW r \in Questions PROVE OnePlace(r)'
  <2>1. OnePlace(r)
    BY DEF Inv
  <2>2. (In(queue', Adds(r)) => In(queue, Adds(r))) /\ Once(queue', Adds(r))
    BY <1>1, <2>1, TailIn DEF OnePlace
  <2>3. CASE r = q
    BY <1>2, <1>8, <1>9, <2>1, <2>2, <2>3 DEF OnePlace
  <2>4. CASE r # q
    BY <1>2, <1>9, <2>1, <2>2, <2>4 DEF OnePlace
  <2> QED BY <2>3, <2>4
<1>12. \A r \in Questions : SessionSound(r)'
  <2>1. \A n \in DOMAIN chat'.msgs :
          Carried(chat, chat', n) \/ chat'.msgs[n].status # "Generating"
    BY <1>4, PlainMessages DEF OnlyNew, NothingNew
  <2>2. SessionsKept
    BY <1>2 DEF SessionsKept
  <2> QED BY <1>2, <1>7, <2>1, <2>2, SessionsSame
<1>13. UsersAnnounced'
  <2> SUFFICES ASSUME NEW m \in DOMAIN chat'.msgs, chat'.msgs[m].kind = "User"
               PROVE  \E r \in Questions :
                        m = IdOf("question", r) /\ (Selecting(r)' \/ Announced(r)')
    BY DEF UsersAnnounced
  <2>1. CASE Carried(chat, chat', m)
    BY <1>9, <2>1 DEF Inv, UsersAnnounced, Carried, Exists
  <2>2. CASE ~Carried(chat, chat', m)
    <3>1. Exists(chat, chat.current) /\ m = IdOf("question", q)
      BY <1>4, <2>2 DEF OnlyNew, NothingNew
    <3>2. Selecting(q)'
      BY <1>3, <3>1 DEF Selecting
    <3> QED BY <3>1, <3>2
  <2> QED BY <2>1, <2>2
<1>14. PromptsAnnounced'
  <2>1. manager'.step # "prompt"
    BY <1>3 DEF Idle
  <2> QED BY <1>2, <2>1 DEF Inv, PromptsAnnounced
<1>15. NoPromptStranded'
  BY <1>2 DEF Inv, NoPromptStranded
<1> QED BY <1>10, <1>11, <1>12, <1>13, <1>14, <1>15 DEF Inv

LEMMA SelectAddedKeeps ==
  ASSUME Inv, SelectAdded
  PROVE  Inv'
<1>1. /\ manager.step = "select" /\ manager' = Idle /\ IsHistory(chat) /\ IsSequence(events)
      /\ chat' = [chat EXCEPT !.current = manager.msg]
  BY DEF Inv, Shape, SelectAdded
<1>2. UNCHANGED <<toSend, asked, queue, pending, ready, session, starts>>
  BY DEF SelectAdded, uiVars
<1>3. PICK q \in Questions : manager.msg \in {IdOf("question", q), IdOf("more", q)}
  BY <1>1 DEF Inv, Shape
<1>4. NothingNew(chat, chat')
  BY <1>1, SelectKeeps
<1>5. CASE manager.msg = IdOf("more", q)
  <2>1. events' = events
    BY <1>5 DEF SelectAdded, IdOf
  <2>2. ManagerKept
    BY <1>1, <1>5 DEF ManagerKept, Selecting, IdOf, Idle
  <2>3. CommandsKept
    BY <1>2, QuietQueue DEF Inv, Shape
  <2>4. Plain
    BY <1>2, <1>4, <2>1, <2>2, <2>3, NothingNewIsCalm DEF Plain, SessionsKept, Inv, Shape
  <2> QED BY <2>4, PlainKeeps
<1>6. CASE manager.msg = IdOf("question", q)
  <2> DEFINE e == [event |-> "Request", parent |-> q]
  <2>1. events' = Append(events, e)
    BY <1>6 DEF SelectAdded, IdOf
  <2>2. /\ IsSequence(events') /\ DOMAIN events = 1 .. Len(events) /\ Len(events) \in Nat
        /\ DOMAIN events' = 1 .. Len(events) + 1
        /\ events'[Len(events) + 1] = e
        /\ \A i \in DOMAIN events : events'[i] = events[i]
    BY <1>1, <2>1, AppendAt
  <2>3. \A r : /\ In(events', Requests(r)) <=> In(events, Requests(r)) \/ r = q
               /\ Once(events, Requests(r)) /\ (r = q => ~In(events, Requests(r)))
                    => Once(events', Requests(r))
    <3>1. \A r : e \in Requests(r) <=> r = q
      BY DEF Requests
    <3> HIDE DEF e
    <3> QED BY <1>1, <2>1, <3>1, AppendIn
  <2>4. \A r : /\ Selecting(r) <=> r = q
               /\ ~Selecting(r)'
               /\ Announced(r)' <=> Announced(r) \/ r = q
    BY <1>1, <1>2, <1>6, <2>3 DEF Selecting, Announced, Idle, IdOf
  <2>5. Shape'
    <3>1. \A i \in DOMAIN events' :
            /\ events'[i].parent \in Questions
            /\ events'[i].event = "Request" => events'[i] \in Requests(events'[i].parent)
      BY <2>2 DEF Inv, Shape, Requests
    <3> QED BY <1>1, <1>2, <1>4, <2>2, <3>1 DEF Inv, Shape, NothingNew, Idle
  <2>6. ASSUME NEW r \in Questions PROVE OnePlace(r)'
    <3>1. OnePlace(r)
      BY DEF Inv
    <3>2. CASE r = q
      <4>1. /\ ~In(events, Requests(q)) /\ q \notin pending /\ ~(starts[q] > 0)
            /\ ~(asked < q) /\ ~In(toSend, Adds(q)) /\ ~In(queue, Adds(q))
            /\ Once(toSend, Adds(q)) /\ Once(queue, Adds(q)) /\ Once(events, Requests(q))
        BY <2>4, <3>1, <3>2 DEF OnePlace, Announced
      <4>2. starts[q] = 0
        BY <4>1 DEF Inv, Shape
      <4> QED BY <1>2, <2>3, <2>4, <3>2, <4>1, <4>2 DEF OnePlace
    <3>3. CASE r # q
      BY <1>2, <2>3, <2>4, <3>1, <3>3 DEF OnePlace
    <3> QED BY <3>2, <3>3
  <2>7. \A r \in Questions : SessionSound(r)'
    <3>1. SessionsKept
      BY <1>2 DEF SessionsKept
    <3> QED BY <1>2, <1>4, <3>1, SessionsSame DEF NothingNew
  <2>8. UsersAnnounced'
    BY <1>4, <2>4 DEF Inv, UsersAnnounced, NothingNew, Carried, Exists
  <2>9. PromptsAnnounced'
    <3>1. manager'.step # "prompt"
      BY <1>1 DEF Idle
    <3>2. ASSUME NEW i \in DOMAIN events', events'[i].event = "PromptConstructed"
          PROVE  LET r == events'[i].parent IN
                 \/ r \in pending' \/ starts'[r] > 0
                 \/ \E j \in 1 .. i - 1 : events'[j] \in Requests(r)
      <4>1. i \in DOMAIN events /\ events'[i] = events[i]
        BY <2>2, <3>2
      <4>2. \A j \in 1 .. i - 1 : events'[j] = events[j]
        BY <2>2, <4>1
      <4> QED BY <1>2, <3>2, <4>1, <4>2 DEF Inv, PromptsAnnounced
    <3> QED BY <3>1, <3>2 DEF PromptsAnnounced
  <2>10. NoPromptStranded'
    BY <1>2 DEF Inv, NoPromptStranded
  <2> QED BY <2>5, <2>6, <2>7, <2>8, <2>9, <2>10 DEF Inv
<1> QED BY <1>3, <1>5, <1>6

LEMMA SendPromptKeeps ==
  ASSUME Inv, SendPrompt
  PROVE  Inv'
<1> DEFINE e == [event |-> "PromptConstructed", parent |-> manager.parent,
                 messages |-> manager.messages]
<1>1. /\ manager.step = "prompt" /\ manager' = Idle /\ IsSequence(events)
      /\ events' = Append(events, e)
  BY DEF Inv, Shape, SendPrompt
<1>2. UNCHANGED <<chat, toSend, asked, queue, pending, ready, session, starts>>
  BY DEF SendPrompt, uiVars
<1>3. manager.parent \in Questions /\ Announced(manager.parent)
  BY <1>1 DEF Inv, PromptsAnnounced
<1>4. /\ IsSequence(events') /\ DOMAIN events = 1 .. Len(events) /\ Len(events) \in Nat
      /\ DOMAIN events' = 1 .. Len(events) + 1
      /\ events'[Len(events) + 1] = e
      /\ \A i \in DOMAIN events : events'[i] = events[i]
  BY <1>1, AppendAt
<1>5. \A r : /\ In(events', Requests(r)) <=> In(events, Requests(r))
             /\ Once(events, Requests(r)) => Once(events', Requests(r))
  <2>1. \A r : e \notin Requests(r)
    BY DEF Requests
  <2> HIDE DEF e
  <2> QED BY <1>1, <2>1, AppendIn
<1>6. \A r : ~Selecting(r) /\ ~Selecting(r)' /\ (Announced(r)' <=> Announced(r))
  BY <1>1, <1>2, <1>5 DEF Selecting, Announced, Idle
<1>7. Shape'
  <2>1. \A i \in DOMAIN events' :
          /\ events'[i].parent \in Questions
          /\ events'[i].event = "Request" => events'[i] \in Requests(events'[i].parent)
    BY <1>3, <1>4 DEF Inv, Shape
  <2> QED BY <1>1, <1>2, <1>4, <2>1 DEF Inv, Shape, Idle
<1>8. \A r \in Questions : OnePlace(r)'
  BY <1>2, <1>5, <1>6 DEF Inv, OnePlace
<1>9. \A r \in Questions : SessionSound(r)'
  BY <1>2 DEF Inv, SessionSound
<1>10. UsersAnnounced'
  BY <1>2, <1>6 DEF Inv, UsersAnnounced
<1>11. PromptsAnnounced'
  <2>1. manager'.step # "prompt"
    BY <1>1 DEF Idle
  <2>2. ASSUME NEW i \in DOMAIN events', events'[i].event = "PromptConstructed"
        PROVE  LET r == events'[i].parent IN
               \/ r \in pending' \/ starts'[r] > 0
               \/ \E j \in 1 .. i - 1 : events'[j] \in Requests(r)
    <3>1. CASE i \in DOMAIN events
      <4>1. events'[i] = events[i] /\ \A j \in 1 .. i - 1 : events'[j] = events[j]
        BY <1>4, <3>1
      <4> QED BY <1>2, <2>2, <3>1, <4>1 DEF Inv, PromptsAnnounced
    <3>2. CASE i \notin DOMAIN events
      <4>1. i = Len(events) + 1 /\ events'[i].parent = manager.parent
        BY <1>4, <3>2
      <4>2. In(events, Requests(manager.parent)) =>
              \E j \in 1 .. i - 1 : events'[j] \in Requests(manager.parent)
        BY <1>4, <4>1 DEF In
      <4> QED BY <1>2, <1>3, <4>1, <4>2 DEF Announced
    <3> QED BY <3>1, <3>2
  <2> QED BY <2>1, <2>2 DEF PromptsAnnounced
<1>12. NoPromptStranded'
  BY <1>2 DEF Inv, NoPromptStranded
<1> QED BY <1>7, <1>8, <1>9, <1>10, <1>11, <1>12 DEF Inv

LEMMA CreateAssistantMessageKeeps ==
  ASSUME Inv, NEW q \in Questions, CreateAssistantMessage(q)
  PROVE  Inv'
<1> DEFINE c == [cmd |-> "CreateAssistantMessage", q |-> q]
           there == Exists(chat, IdOf("question", q))
<1>1. /\ queue # <<>> /\ Head(queue) = c /\ queue' = Tail(queue)
      /\ IsSequence(queue) /\ IsHistory(chat)
  BY DEF Inv, Shape, CreateAssistantMessage, Handle
<1>2. UNCHANGED <<toSend, asked, manager, events, pending, ready, starts>>
  BY DEF CreateAssistantMessage, uiVars
<1>3. /\ Grow(IdOf("question", q), IdOf("answer", q), Assistant("Generating"), TRUE)
      /\ session' = [session EXCEPT ![q] = IF there THEN "running" ELSE "failed"]
  BY DEF CreateAssistantMessage
<1>4. IF there THEN OnlyNew(chat, chat', IdOf("answer", q), Assistant("Generating"))
      ELSE NothingNew(chat, chat')
  BY <1>1, <1>3, PlainMessages, GrowOnly
<1>5. IsSequence(queue')
  BY <1>1, TailAt
<1>6. \A r : /\ c \notin Adds(r) /\ c \notin Updates(r)
             /\ c \in Creates(r) <=> r = q
  BY DEF Adds, Creates, Updates
<1>7. \A r : /\ In(queue', Adds(r)) <=> In(queue, Adds(r))
             /\ In(queue', Updates(r)) <=> In(queue, Updates(r))
             /\ Once(queue, Adds(r)) => Once(queue', Adds(r))
             /\ Once(queue, Creates(r)) => Once(queue', Creates(r))
             /\ r # q => (In(queue', Creates(r)) <=> In(queue, Creates(r)))
  BY <1>1, <1>6, TailIn
<1>8. In(queue, Creates(q)) /\ ~In(queue', Creates(q))
  <2>1. Once(queue, Creates(q))
    BY DEF Inv, SessionSound
  <2> QED BY <1>1, <1>6, <2>1, TailIn
<1>9. \A r : (Selecting(r)' <=> Selecting(r)) /\ (Announced(r)' <=> Announced(r))
  BY <1>2 DEF Selecting, Announced
<1>10. Shape'
  BY <1>2, <1>3, <1>4, <1>5 DEF Inv, Shape, OnlyNew, NothingNew
<1>11. \A r \in Questions : OnePlace(r)'
  BY <1>2, <1>7, <1>9 DEF Inv, OnePlace
<1>12. ASSUME NEW r \in Questions PROVE SessionSound(r)'
  <2>1. SessionSound(r)
    BY DEF Inv
  <2>2. session \in [Questions -> {"none", "paired", "creating", "running", "failed"} \cup Shown]
    BY DEF Inv, Shape
  <2>3. CASE r # q
    <3>1. session'[r] = session[r]
      BY <1>3, <2>2, <2>3
    <3>2. Exists(chat', IdOf("answer", r)) => Carried(chat, chat', IdOf("answer", r))
      BY <1>4, <2>3 DEF OnlyNew, NothingNew, Exists, IdOf
    <3> QED BY <1>2, <1>7, <2>1, <2>3, <3>1, <3>2 DEF SessionSound, Carried
  <2>4. CASE r = q
    <3>1. session[q] = "creating"
      BY <1>8, <2>1, <2>4 DEF SessionSound
    <3>2. ~In(queue', Updates(q))
      BY <1>7, <2>1, <2>4, <3>1 DEF SessionSound, Shown
    <3>3. starts[q] # 0
      BY <2>1, <2>4, <3>1 DEF SessionSound
    <3>4. session'[q] = IF there THEN "running" ELSE "failed"
      BY <1>3, <2>2
    <3>5. CASE there
      BY <1>2, <1>7, <1>8, <2>1, <2>4, <3>2, <3>3, <3>4, <3>5 DEF SessionSound
    <3>6. CASE ~there
      <4>1. ~(/\ Exists(chat', IdOf("answer", q))
              /\ chat'.msgs[IdOf("answer", q)].status = "Generating")
        <5> SUFFICES ASSUME Exists(chat', IdOf("answer", q)),
                            chat'.msgs[IdOf("answer", q)].status = "Generating"
                     PROVE  FALSE
          OBVIOUS
        <5>1. Carried(chat, chat', IdOf("answer", q))
          BY <1>4, <3>6 DEF NothingNew, Exists
        <5> QED BY <2>1, <2>4, <3>1, <5>1 DEF SessionSound, Carried, Shown
      <4> QED BY <1>2, <1>7, <1>8, <2>1, <2>4, <3>2, <3>3, <4>1 DEF SessionSound
    <3> QED BY <3>5, <3>6
  <2> QED BY <2>3, <2>4
<1>13. UsersAnnounced'
  <2>1. \A m \in DOMAIN chat'.msgs : Carried(chat, chat', m) \/ chat'.msgs[m].kind # "User"
    BY <1>4, PlainMessages DEF OnlyNew, NothingNew
  <2> QED BY <1>9, <2>1 DEF Inv, UsersAnnounced, Carried, Exists
<1>14. PromptsAnnounced' /\ NoPromptStranded'
  BY <1>2, <1>9 DEF Inv, PromptsAnnounced, NoPromptStranded
<1> QED BY <1>10, <1>11, <1>12, <1>13, <1>14 DEF Inv

LEMMA UpdateMessageKeeps ==
  ASSUME Inv, NEW q \in Questions, NEW status \in {"Completed", "Error"}, NEW tokens,
         UpdateMessage(q, status, tokens)
  PROVE  Inv'
<1> DEFINE c == [cmd |-> "UpdateMessage", q |-> q, status |-> status, tokens |-> tokens]
<1>1. /\ queue # <<>> /\ Head(queue) = c /\ queue' = Tail(queue)
      /\ IsSequence(queue) /\ IsHistory(chat)
      /\ chat' = TryUpdate(chat, IdOf("answer", q), status, tokens)
  BY DEF Inv, Shape, UpdateMessage, Handle
<1>2. UNCHANGED <<toSend, asked, manager, events, pending, ready, session, starts>>
  BY DEF UpdateMessage, uiVars, llmVars
<1>3. /\ IsHistory(chat') /\ DOMAIN chat'.msgs = DOMAIN chat.msgs
      /\ \A n \in DOMAIN chat.msgs :
           /\ chat'.msgs[n].kind = chat.msgs[n].kind
           /\ n # IdOf("answer", q) => chat'.msgs[n].status = chat.msgs[n].status
      /\ Exists(chat, IdOf("answer", q)) =>
           chat'.msgs[IdOf("answer", q)].status # "Generating"
  <2> HIDE DEF c
  <2>1. IsHistory(chat) /\ chat' = TryUpdate(chat, IdOf("answer", q), status, tokens)
    BY <1>1
  <2>2. Closes(chat, chat', IdOf("answer", q))
    BY <2>1, TryUpdateCloses
  <2> QED BY <2>2 DEF Closes
<1>4. IsSequence(queue')
  BY <1>1, TailAt
<1>5. \A r : /\ c \notin Adds(r) /\ c \notin Creates(r)
             /\ c \in Updates(r) => r = q
  BY DEF Adds, Creates, Updates
<1>6. \A r : /\ In(queue', Adds(r)) <=> In(queue, Adds(r))
             /\ In(queue', Creates(r)) <=> In(queue, Creates(r))
             /\ In(queue', Updates(r)) => In(queue, Updates(r))
             /\ Once(queue, Adds(r)) => Once(queue', Adds(r))
             /\ Once(queue, Creates(r)) => Once(queue', Creates(r))
             /\ r # q => (In(queue', Updates(r)) <=> In(queue, Updates(r)))
  BY <1>1, <1>5, TailIn
<1>7. \A r : (Selecting(r)' <=> Selecting(r)) /\ (Announced(r)' <=> Announced(r))
  BY <1>2 DEF Selecting, Announced
<1>8. Shape'
  BY <1>2, <1>3, <1>4 DEF Inv, Shape
<1>9. \A r \in Questions : OnePlace(r)'
  BY <1>2, <1>6, <1>7 DEF Inv, OnePlace
<1>10. ASSUME NEW r \in Questions PROVE SessionSound(r)'
  <2>1. SessionSound(r)
    BY DEF Inv
  <2>2. CASE r # q
    <3>1. IdOf("answer", r) # IdOf("answer", q)
      BY <2>2 DEF IdOf
    <3> QED BY <1>2, <1>3, <1>6, <2>1, <2>2, <3>1 DEF SessionSound, Exists
  <2>3. CASE r = q
    BY <1>2, <1>3, <1>6, <2>1, <2>3 DEF SessionSound, Exists
  <2> QED BY <2>2, <2>3
<1>11. UsersAnnounced'
  BY <1>3, <1>7 DEF Inv, UsersAnnounced
<1>12. PromptsAnnounced' /\ NoPromptStranded'
  BY <1>2, <1>7 DEF Inv, PromptsAnnounced, NoPromptStranded
<1> QED BY <1>8, <1>9, <1>10, <1>11, <1>12 DEF Inv

LEMMA HandleRequestKeeps ==
  ASSUME Inv, HandleRequest
  PROVE  Inv'
<1> DEFINE q == Head(events).parent
<1>1. /\ events # <<>> /\ Head(events).event = "Request" /\ events' = Tail(events)
      /\ IsSequence(events) /\ pending' = pending \cup {q}
  BY DEF Inv, Shape, HandleRequest, Receive
<1>2. UNCHANGED <<chat, toSend, asked, queue, manager, ready, session, starts>>
  BY DEF HandleRequest, uiVars
<1>3. /\ IsSequence(events') /\ DOMAIN events = 1 .. Len(events) /\ Len(events) \in Nat \ {0}
      /\ DOMAIN events' = 1 .. Len(events) - 1
      /\ Head(events) = events[1]
      /\ \A i \in DOMAIN events' : events'[i] = events[i + 1]
  BY <1>1, TailAt
<1>4. q \in Questions /\ Head(events) \in Requests(q)
  BY <1>1, <1>3 DEF Inv, Shape
<1>5. \A r : Head(events) \in Requests(r) => r = q
  BY DEF Requests
<1> HIDE DEF q
<1>6. \A r : /\ In(events', Requests(r)) => In(events, Requests(r))
             /\ r # q => (In(events', Requests(r)) <=> In(events, Requests(r)))
             /\ Once(events, Requests(r)) => Once(events', Requests(r))
  BY <1>1, <1>5, TailIn
<1>7. In(events, Requests(q)) /\ ~In(events', Requests(q))
  <2>1. Once(events, Requests(q))
    BY <1>4 DEF Inv, OnePlace
  <2> QED BY <1>1, <1>4, <2>1, TailIn
<1>8. \A r : (Selecting(r)' <=> Selecting(r)) /\ (Announced(r)' <=> Announced(r))
  BY <1>1, <1>2, <1>6, <1>7 DEF Selecting, Announced
<1>9. Shape'
  <2>1. \A i \in DOMAIN events' :
          /\ events'[i].parent \in Questions
          /\ events'[i].event = "Request" => events'[i] \in Requests(events'[i].parent)
    BY <1>3 DEF Inv, Shape
  <2> QED BY <1>1, <1>2, <1>3, <1>4, <2>1 DEF Inv, Shape
<1>10. ASSUME NEW r \in Questions PROVE OnePlace(r)'
  <2>1. OnePlace(r)
    BY DEF Inv
  <2>2. CASE r = q
    BY <1>1, <1>2, <1>6, <1>7, <1>8, <2>1, <2>2 DEF OnePlace
  <2>3. CASE r # q
    BY <1>1, <1>2, <1>6, <1>8, <2>1, <2>3 DEF OnePlace
  <2> QED BY <2>2, <2>3
<1>11. \A r \in Questions : SessionSound(r)'
  BY <1>2 DEF Inv, SessionSound
<1>12. UsersAnnounced'
  BY <1>2, <1>8 DEF Inv, UsersAnnounced
<1>13. PromptsAnnounced'
  <2>1. (manager.step = "prompt" => manager.parent \in Questions /\ Announced(manager.parent))'
    BY <1>2, <1>8 DEF Inv, PromptsAnnounced
  <2>2. ASSUME NEW i \in DOMAIN events', events'[i].event = "PromptConstructed"
        PROVE  LET r == events'[i].parent IN
               \/ r \in pending' \/ starts'[r] > 0
               \/ \E j \in 1 .. i - 1 : events'[j] \in Requests(r)
    <3> DEFINE r == events'[i].parent
    <3>1. i + 1 \in DOMAIN events /\ events'[i] = events[i + 1] /\ i \in Nat
      BY <1>3
    <3>2. \/ r \in pending \/ starts[r] > 0
          \/ \E j \in 1 .. i : events[j] \in Requests(r)
      BY <2>2, <3>1 DEF Inv, PromptsAnnounced
    <3>3. ASSUME NEW j \in 1 .. i, events[j] \in Requests(r)
          PROVE  r = q \/ \E k \in 1 .. i - 1 : events'[k] \in Requests(r)
      <4>1. CASE j = 1
        BY <1>3, <1>5, <3>3, <4>1
      <4>2. CASE j # 1
        <5>1. j - 1 \in 1 .. i - 1 /\ events'[j - 1] = events[j]
          BY <1>3, <3>1, <4>2
        <5> QED BY <3>3, <5>1
      <4> QED BY <4>1, <4>2
    <3> QED BY <1>1, <1>2, <3>2, <3>3
  <2> QED BY <2>1, <2>2 DEF PromptsAnnounced
<1>14. NoPromptStranded'
  BY <1>2 DEF Inv, NoPromptStranded
<1> QED BY <1>9, <1>10, <1>11, <1>12, <1>13, <1>14 DEF Inv

LEMMA HandlePromptKeeps ==
  ASSUME Inv, HandlePrompt
  PROVE  Inv'
<1>0. PICK q : q = Head(events).parent
  OBVIOUS
<1>1. /\ events # <<>> /\ Head(events).event = "PromptConstructed" /\ events' = Tail(events)
      /\ IsSequence(events)
  BY DEF Inv, Shape, HandlePrompt, Receive
<1>2. UNCHANGED <<chat, toSend, asked, queue, manager>>
  BY DEF HandlePrompt, uiVars
<1>3. /\ IsSequence(events') /\ DOMAIN events = 1 .. Len(events) /\ Len(events) \in Nat \ {0}
      /\ DOMAIN events' = 1 .. Len(events) - 1
      /\ Head(events) = events[1]
      /\ \A i \in DOMAIN events' : events'[i] = events[i + 1]
  BY <1>1, TailAt
<1>4. q \in Questions
  BY <1>0, <1>1, <1>3 DEF Inv, Shape
<1>5. \A r : Head(events) \notin Requests(r)
  BY <1>1 DEF Requests
<1>6. \A r : /\ In(events', Requests(r)) <=> In(events, Requests(r))
             /\ Once(events, Requests(r)) => Once(events', Requests(r))
  BY <1>1, <1>5, TailIn
<1>7. q \in pending \/ starts[q] > 0
  <2>1. ~\E j \in 1 .. 1 - 1 : events[j] \in Requests(q)
    OBVIOUS
  <2> QED BY <1>0, <1>1, <1>3, <2>1 DEF Inv, PromptsAnnounced
<1>8. \/ /\ q \notin pending /\ ready' = ready \cup {q}
         /\ UNCHANGED <<pending, session, starts>>
      \/ /\ q \in pending /\ pending' = pending \ {q}
         /\ session' = [session EXCEPT ![q] = "paired"]
         /\ starts' = [starts EXCEPT ![q] = @ + 1]
         /\ UNCHANGED ready
  BY <1>0 DEF HandlePrompt, KeepPrompt
<1>9. /\ starts \in [Questions -> Nat]
      /\ session \in [Questions -> {"none", "paired", "creating", "running", "failed"} \cup Shown]
  BY DEF Inv, Shape
<1>10. /\ starts' \in [Questions -> Nat]
       /\ \A r \in Questions : starts'[r] >= starts[r] /\ (r # q => starts'[r] = starts[r])
       /\ starts'[q] > 0
  BY <1>4, <1>7, <1>8, <1>9
<1>11. \A r \in Questions : r # q => (r \in pending' <=> r \in pending)
                                     /\ session'[r] = session[r]
  BY <1>8, <1>9
<1>12. \A r \in Questions : /\ Selecting(r)' <=> Selecting(r)
                            /\ Announced(r)' <=> Announced(r)
  <2>1. \A r \in Questions : r # q => (Announced(r)' <=> Announced(r))
    BY <1>6, <1>10, <1>11 DEF Announced
  <2>2. Announced(q) /\ Announced(q)'
    BY <1>7, <1>10 DEF Announced
  <2> QED BY <1>2, <2>1, <2>2 DEF Selecting
<1>13. Shape'
  <2>1. \A i \in DOMAIN events' :
          /\ events'[i].parent \in Questions
          /\ events'[i].event = "Request" => events'[i] \in Requests(events'[i].parent)
    BY <1>3 DEF Inv, Shape
  <2>2. pending' \subseteq Questions /\ ready' \subseteq Questions
    BY <1>4, <1>8 DEF Inv, Shape
  <2>3. session' \in [Questions -> {"none", "paired", "creating", "running", "failed"} \cup Shown]
    BY <1>8, <1>9
  <2> QED BY <1>2, <1>3, <1>10, <2>1, <2>2, <2>3 DEF Inv, Shape
<1>14. ASSUME NEW r \in Questions PROVE OnePlace(r)'
  <2>1. OnePlace(r)
    BY DEF Inv
  <2>2. CASE r # q \/ q \notin pending
    <3>1. r \in pending' <=> r \in pending
      BY <1>8, <1>11, <2>2
    <3>2. starts'[r] = starts[r]
      BY <1>8, <1>10, <2>2
    <3> QED BY <1>2, <1>6, <1>12, <2>1, <3>1, <3>2 DEF OnePlace
  <2>3. CASE r = q /\ q \in pending
    <3>1. starts[q] = 0 /\ ~In(events, Requests(q))
      BY <2>1, <2>3 DEF OnePlace
    <3>2. starts'[q] = 1 /\ q \notin pending'
      BY <1>4, <1>8, <1>9, <2>3, <3>1
    <3> QED BY <1>2, <1>6, <1>12, <2>1, <2>3, <3>1, <3>2 DEF OnePlace
  <2> QED BY <2>2, <2>3
<1>15. ASSUME NEW r \in Questions PROVE SessionSound(r)'
  <2>1. SessionSound(r)
    BY DEF Inv
  <2>2. CASE r # q \/ q \notin pending
    <3>1. starts'[r] = starts[r] /\ session'[r] = session[r]
      BY <1>8, <1>10, <1>11, <2>2
    <3> QED BY <1>2, <2>1, <3>1 DEF SessionSound
  <2>3. CASE r = q /\ q \in pending
    <3>1. starts[q] = 0
      BY <1>4, <2>3 DEF Inv, OnePlace
    <3>2. session[q] = "none"
      BY <2>1, <2>3, <3>1 DEF SessionSound
    <3>3. /\ ~In(queue, Creates(q)) /\ ~In(queue, Updates(q))
          /\ ~(Exists(chat, IdOf("answer", q))
                 /\ chat.msgs[IdOf("answer", q)].status = "Generating")
      BY <2>1, <2>3, <3>2 DEF SessionSound, Shown
    <3>4. starts'[q] # 0
      BY <1>10
    <3> QED BY <1>2, <2>1, <2>3, <3>3, <3>4 DEF SessionSound
  <2> QED BY <2>2, <2>3
<1>16. UsersAnnounced'
  BY <1>2, <1>12 DEF Inv, UsersAnnounced
<1>17. PromptsAnnounced'
  <2>1. (manager.step = "prompt" => manager.parent \in Questions /\ Announced(manager.parent))'
    BY <1>2, <1>12 DEF Inv, PromptsAnnounced
  <2>2. ASSUME NEW i \in DOMAIN events', events'[i].event = "PromptConstructed"
        PROVE  LET r == events'[i].parent IN
               \/ r \in pending' \/ starts'[r] > 0
               \/ \E j \in 1 .. i - 1 : events'[j] \in Requests(r)
    <3> DEFINE r == events'[i].parent
    <3>1. i + 1 \in DOMAIN events /\ events'[i] = events[i + 1] /\ i \in Nat
      BY <1>3
    <3>2. \/ r \in pending \/ starts[r] > 0
          \/ \E j \in 1 .. i : events[j] \in Requests(r)
      BY <2>2, <3>1 DEF Inv, PromptsAnnounced
    <3>3. ASSUME NEW j \in 1 .. i, events[j] \in Requests(r)
          PROVE  \E k \in 1 .. i - 1 : events'[k] \in Requests(r)
      <4>1. j # 1
        BY <1>3, <1>5, <3>3
      <4>2. j - 1 \in 1 .. i - 1 /\ events'[j - 1] = events[j]
        BY <1>3, <3>1, <4>1
      <4> QED BY <3>3, <4>2
    <3>4. r \in Questions
      BY <3>1 DEF Inv, Shape
    <3> HIDE DEF r
    <3>5. r \in pending \/ starts[r] > 0 => r \in pending' \/ starts'[r] > 0
      BY <1>10, <1>11, <3>4
    <3>6. \/ r \in pending' \/ starts'[r] > 0
          \/ \E j \in 1 .. i - 1 : events'[j] \in Requests(r)
      BY <3>2, <3>3, <3>5
    <3> QED BY <3>6 DEF r
  <2> QED BY <2>1, <2>2 DEF PromptsAnnounced
<1>18. NoPromptStranded'
  <2>1. \A r \in ready : r \in Questions /\ starts[r] > 0
    BY DEF Inv, Shape, NoPromptStranded
  <2>2. ASSUME NEW r \in ready' PROVE starts'[r] > 0
    <3>1. r \in ready \/ r = q
      BY <1>8, <2>2
    <3>2. CASE r \in ready
      BY <1>9, <1>10, <2>1, <3>2
    <3> QED BY <1>10, <3>1, <3>2
  <2> QED BY <2>2 DEF NoPromptStranded
<1> QED BY <1>13, <1>14, <1>15, <1>16, <1>17, <1>18 DEF Inv

\* A session's first commands: the placeholder, and what goes into it.
LEMMA StartSessionKeeps ==
  ASSUME Inv, NEW q \in Questions, StartSession(q)
  PROVE  Inv'
<1> DEFINE c == [cmd |-> "CreateAssistantMessage", q |-> q]
<1>1. /\ session[q] = "paired" /\ session' = [session EXCEPT ![q] = "creating"]
      /\ queue' = Append(queue, c) /\ IsSequence(queue)
  BY DEF Inv, Shape, StartSession, Command
<1>2. UNCHANGED <<chat, toSend, asked, manager, events, pending, ready, starts>>
  BY DEF StartSession, Command, uiVars
<1>3. \A r : /\ c \notin Adds(r) /\ c \notin Updates(r)
             /\ c \in Creates(r) <=> r = q
  BY DEF Adds, Creates, Updates
<1> HIDE DEF c
<1>4. /\ IsSequence(queue')
      /\ \A r : /\ In(queue', Adds(r)) <=> In(queue, Adds(r))
                /\ In(queue', Updates(r)) <=> In(queue, Updates(r))
                /\ In(queue', Creates(r)) <=> In(queue, Creates(r)) \/ r = q
                /\ Once(queue, Adds(r)) => Once(queue', Adds(r))
                /\ Once(queue, Creates(r)) /\ (r = q => ~In(queue, Creates(r)))
                     => Once(queue', Creates(r))
  BY <1>1, <1>3, AppendAt, AppendIn
<1>5. \A r : (Selecting(r)' <=> Selecting(r)) /\ (Announced(r)' <=> Announced(r))
  BY <1>2 DEF Selecting, Announced
<1>6. Shape'
  BY <1>1, <1>2, <1>4 DEF Inv, Shape
<1>7. \A r \in Questions : OnePlace(r)'
  BY <1>2, <1>4, <1>5 DEF Inv, OnePlace
<1>8. ASSUME NEW r \in Questions PROVE SessionSound(r)'
  <2>1. SessionSound(r)
    BY DEF Inv
  <2>2. session \in [Questions -> {"none", "paired", "creating", "running", "failed"} \cup Shown]
    BY DEF Inv, Shape
  <2>3. CASE r # q
    <3>1. session'[r] = session[r]
      BY <1>1, <2>2, <2>3
    <3> QED BY <1>2, <1>4, <2>1, <2>3, <3>1 DEF SessionSound
  <2>4. CASE r = q
    <3>1. session'[q] = "creating"
      BY <1>1, <2>2
    <3>2. /\ ~In(queue, Creates(q)) /\ ~In(queue, Updates(q)) /\ starts[q] # 0
          /\ ~(Exists(chat, IdOf("answer", q))
                 /\ chat.msgs[IdOf("answer", q)].status = "Generating")
      BY <1>1, <2>1, <2>4 DEF SessionSound, Shown
    <3> QED BY <1>2, <1>4, <2>1, <2>4, <3>1, <3>2 DEF SessionSound
  <2> QED BY <2>3, <2>4
<1>9. UsersAnnounced' /\ PromptsAnnounced' /\ NoPromptStranded'
  BY <1>2, <1>5 DEF Inv, UsersAnnounced, PromptsAnnounced, NoPromptStranded
<1> QED BY <1>6, <1>7, <1>8, <1>9 DEF Inv

LEMMA ShowFirstKeeps ==
  ASSUME Inv, NEW q \in Questions, ShowFirst(q)
  PROVE  Inv'
<1>0. PICK update \in Outcomes :
        Command(q, "running", "shown",
                [cmd |-> "UpdateMessage", q |-> q, status |-> update[1], tokens |-> update[2]])
  BY DEF ShowFirst
<1> DEFINE c == [cmd |-> "UpdateMessage", q |-> q, status |-> update[1], tokens |-> update[2]]
<1>1. /\ session[q] = "running" /\ session' = [session EXCEPT ![q] = "shown"]
      /\ queue' = Append(queue, c) /\ IsSequence(queue)
  BY <1>0 DEF Inv, Shape, Command
<1>2. UNCHANGED <<chat, toSend, asked, manager, events, pending, ready, starts>>
  BY <1>0 DEF Command, uiVars
<1>3. /\ c \in Updates(q)
      /\ \A r : /\ c \notin Adds(r) /\ c \notin Creates(r)
                /\ c \in Updates(r) => r = q
  BY DEF Adds, Creates, Updates
<1> HIDE DEF c
<1>4. /\ IsSequence(queue')
      /\ \A r : /\ In(queue', Adds(r)) <=> In(queue, Adds(r))
                /\ In(queue', Creates(r)) <=> In(queue, Creates(r))
                /\ In(queue', Updates(r)) <=> In(queue, Updates(r)) \/ r = q
                /\ Once(queue, Adds(r)) => Once(queue', Adds(r))
                /\ Once(queue, Creates(r)) => Once(queue', Creates(r))
  BY <1>1, <1>3, AppendAt, AppendIn
<1>5. \A r : (Selecting(r)' <=> Selecting(r)) /\ (Announced(r)' <=> Announced(r))
  BY <1>2 DEF Selecting, Announced
<1>6. Shape'
  BY <1>1, <1>2, <1>4 DEF Inv, Shape, Shown
<1>7. \A r \in Questions : OnePlace(r)'
  BY <1>2, <1>4, <1>5 DEF Inv, OnePlace
<1>8. ASSUME NEW r \in Questions PROVE SessionSound(r)'
  <2>1. SessionSound(r)
    BY DEF Inv
  <2>2. session \in [Questions -> {"none", "paired", "creating", "running", "failed"} \cup Shown]
    BY DEF Inv, Shape
  <2>3. CASE r # q
    <3>1. session'[r] = session[r]
      BY <1>1, <2>2, <2>3
    <3> QED BY <1>2, <1>4, <2>1, <2>3, <3>1 DEF SessionSound
  <2>4. CASE r = q
    <3>1. session'[q] \in Shown
      BY <1>1, <2>2 DEF Shown
    <3>2. ~In(queue, Creates(q)) /\ starts[q] # 0
      BY <1>1, <2>1, <2>4 DEF SessionSound
    <3> QED BY <1>2, <1>4, <2>1, <2>4, <3>1, <3>2 DEF SessionSound
  <2> QED BY <2>3, <2>4
<1>9. UsersAnnounced' /\ PromptsAnnounced' /\ NoPromptStranded'
  BY <1>2, <1>5 DEF Inv, UsersAnnounced, PromptsAnnounced, NoPromptStranded
<1> QED BY <1>6, <1>7, <1>8, <1>9 DEF Inv

(***************************************************************************)
(* The theorems.                                                           *)
(***************************************************************************)

LEMMA InitInv == Init => Inv
<1> SUFFICES ASSUME Init PROVE Inv
  OBVIOUS
<1>1. /\ toSend = <<>> /\ queue = <<>> /\ events = <<>> /\ manager = Idle
      /\ pending = {} /\ ready = {} /\ asked = 0 /\ chat = NewHistory
      /\ session = [q \in Questions |-> "none"] /\ starts = [q \in Questions |-> 0]
  BY DEF Init
<1>2. IsSequence(<<>>) /\ <<>> \in Seq(Submitted) /\ DOMAIN <<>> = {}
  <2>1. \A S : <<>> \in Seq(S) /\ Len(<<>>) = 0
    BY EmptySeq
  <2>2. DOMAIN <<>> = {}
    BY <2>1, LenProperties
  <2> QED BY <2>1, <2>2, SeqIsSequence
<1>3. \A X : ~In(<<>>, X) /\ Once(<<>>, X)
  BY <1>2 DEF In, Once
<1>4. \A q : ~Selecting(q)
  BY <1>1 DEF Selecting, Idle
<1>5. \A q \in Questions : starts[q] = 0 /\ session[q] = "none" /\ ~Announced(q)
  BY <1>1, <1>3 DEF Announced
<1>6. Shape
  BY <1>1, <1>2, NewHistoryIsHistory DEF Shape, Idle
<1>7. \A q \in Questions : OnePlace(q)
  BY <1>1, <1>3, <1>4, <1>5 DEF OnePlace
<1>8. \A q \in Questions : SessionSound(q)
  BY <1>1, <1>3, <1>5, NewHistoryIsHistory DEF SessionSound, Exists
<1>9. UsersAnnounced
  BY <1>1, NewHistoryIsHistory DEF UsersAnnounced
<1>10. PromptsAnnounced /\ NoPromptStranded
  BY <1>1, <1>2 DEF PromptsAnnounced, NoPromptStranded, Idle
<1> QED BY <1>6, <1>7, <1>8, <1>9, <1>10 DEF Inv

LEMMA StutterInv == Inv /\ UNCHANGED vars => Inv'
  BY DEF vars, uiVars, llmVars, Inv, Shape, OnePlace, SessionSound, UsersAnnounced,
         PromptsAnnounced, NoPromptStranded, Selecting, Announced

LEMMA NextInv == Inv /\ [Next]_vars => Inv'
<1> SUFFICES ASSUME Inv, Next PROVE Inv'
  BY StutterInv
<1>1. CASE Interface
  <2>1. ASSUME NEW q \in Questions, Submit(q) PROVE Inv'
    BY <2>1, SubmitKeeps
  <2>2. ASSUME NEW d \in Directions, Move(d) PROVE Inv'
    BY <2>2, PlainOthers, PlainKeeps
  <2>3. ASSUME NEW what \in {"node", "subtree"}, Delete(what) PROVE Inv'
    BY <2>3, PlainOthers, PlainKeeps
  <2> QED BY <1>1, <2>1, <2>2, <2>3, SendNextKeeps DEF Interface
<1>2. CASE StateManager
  <2>1. ASSUME NEW q \in Questions,
               AddMessageImmediate(q) \/ AddMessage(q) \/ AddMessageTool(q) \/ DecrementChatTtl(q)
        PROVE  Inv'
    BY <2>1, PlainStateManager, PlainKeeps
  <2>2. ASSUME NEW q \in Questions, AddUserMessage(q) PROVE Inv'
    BY <2>2, AddUserMessageKeeps
  <2>3. ASSUME NEW q \in Questions, EmbedMessage(q) PROVE Inv'
    BY <2>3, EmbedPlain, PlainKeeps
  <2>4. ASSUME NEW q \in Questions, CreateAssistantMessage(q) PROVE Inv'
    BY <2>4, CreateAssistantMessageKeeps
  <2>5. ASSUME NEW q \in Questions, NEW status \in {"Completed", "Error"}, NEW tokens \in 0 .. 1,
               UpdateMessage(q, status, tokens)
        PROVE  Inv'
    BY <2>5, UpdateMessageKeeps
  <2>6. CASE Reselect
    BY <2>6, PlainStateManager, PlainKeeps
  <2>7. ASSUME NEW d \in Directions, NavigateListCommand(d) PROVE Inv'
    BY <2>7, PlainStateManager, PlainKeeps
  <2>8. ASSUME NEW m \in Ids, DeleteNodeCommand(m) \/ DeleteMessageCommand(m) PROVE Inv'
    BY <2>8, PlainStateManager, PlainKeeps
  <2> QED BY <1>2, <2>1, <2>2, <2>3, <2>4, <2>5, <2>6, <2>7, <2>8,
             SelectAddedKeeps, SendPromptKeeps DEF StateManager
<1>3. ASSUME NEW q \in Questions, Session(q) PROVE Inv'
  <2>1. CASE ShowTool(q) \/ ShowMore(q) \/ EndSession(q)
    BY <2>1, PlainOthers, PlainKeeps
  <2> QED BY <1>3, <2>1, StartSessionKeeps, ShowFirstKeeps DEF Session
<1>4. ASSUME NEW n \in Notes, Task(n) PROVE Inv'
  BY <1>4, PlainOthers, PlainKeeps
<1> QED BY <1>1, <1>2, <1>3, <1>4, HandleRequestKeeps, HandlePromptKeeps DEF Next

\* A question is at one place at a time, on its way from the interface to its session.
THEOREM Invariance == Spec => []Inv
  BY InitInv, NextInv, PTL DEF Spec

\* However many prompts are made for a question, and whatever is lost or deleted, it
\* gets one session at most: handle_prompt_context_constructed takes its request out.
THEOREM OneSession == Spec => []OneSessionPerQuestion
<1>1. Inv => OneSessionPerQuestion
  BY DEF Inv, OnePlace, OneSessionPerQuestion
<1> QED BY <1>1, Invariance, PTL

\* A prompt never comes before the request for its question, so that what is left in
\* ready_contexts is of questions that got their session.
THEOREM PromptsFindRequests == Spec => []NoPromptStranded
<1>1. Inv => NoPromptStranded
  BY DEF Inv
<1> QED BY <1>1, Invariance, PTL

\* An answer of which something was shown, and whose update was handled, is completed or
\* an error: try_update cannot meet it in another status than that of the placeholder.
THEOREM PlaceholdersClose == Spec => []AnswersClosed
<1>1. Inv => AnswersClosed
  <2> SUFFICES ASSUME Inv, NEW q \in Questions,
                      session[q] \in Shown, Exists(chat, IdOf("answer", q)),
                      chat.msgs[IdOf("answer", q)].status = "Generating"
               PROVE  \E i \in DOMAIN queue : queue[i].cmd = "UpdateMessage" /\ queue[i].q = q
    BY DEF AnswersClosed, Shown
  <2>1. In(queue, Updates(q))
    BY DEF Inv, SessionSound, Shown
  <2> QED BY <2>1 DEF In, Updates
<1> QED BY <1>1, Invariance, PTL

(***************************************************************************)
(* The tree.  Every message comes in once: the command that brings it is   *)
(* sent once, and while it is still to come, or to be sent, the message is *)
(* not there.                                                              *)
(***************************************************************************)

CommandOf(role) ==
  CASE role = "question" -> "AddUserMessage" [] role = "warning" -> "EmbedMessage"
    [] role = "notice" -> "AddMessage" [] role = "answer" -> "CreateAssistantMessage"
    [] role = "tool" -> "AddMessageTool" [] role = "more" -> "AddMessageImmediate"

Brings(role, q) == {[cmd |-> CommandOf(role), q |-> q]}

\* Where a session is before it sends the command.
Before(role) ==
  {"none", "paired"} \cup
  (IF role = "answer" THEN {}
   ELSE {"creating", "running", "failed", "shown"} \cup (IF role = "more" THEN {"tools"} ELSE {}))

\* The command is to be sent yet.
Yet(role, q) ==
  IF role \in {"question", "notice", "warning"}
  THEN asked < q \/ In(toSend, Brings(role, q))
  ELSE session[q] \in Before(role)

Waits(role, q) ==
  /\ Once(toSend, Brings(role, q)) /\ Once(queue, Brings(role, q))
  /\ In(toSend, Brings(role, q)) => ~(asked < q)
  /\ Yet(role, q) \/ In(queue, Brings(role, q)) => ~Exists(chat, IdOf(role, q))
  /\ Yet(role, q) => ~In(queue, Brings(role, q))

TreeInv ==
  /\ Sound(chat) /\ DOMAIN chat.msgs \subseteq Ids
  /\ \A role \in Roles, q \in Questions : Waits(role, q)
  /\ \A n \in Notes : task[n] = "idle" => ~Exists(chat, IdOf("note", n))

\* The command is sent, handled, or left alone; it is handled when the message comes in.
Moves(role, q) ==
  /\ Yet(role, q)' => Yet(role, q)
  /\ In(queue', Brings(role, q)) => In(queue, Brings(role, q)) \/ (Yet(role, q) /\ ~Yet(role, q)')
  /\ Once(queue', Brings(role, q))
  /\ Once(toSend', Brings(role, q)) /\ (In(toSend', Brings(role, q)) => ~(asked' < q))
  /\ Exists(chat', IdOf(role, q)) =>
       \/ Exists(chat, IdOf(role, q))
       \/ In(queue, Brings(role, q)) /\ ~In(queue', Brings(role, q))

LEMMA MovesKeep ==
  ASSUME NEW role, NEW q, Waits(role, q), Moves(role, q)
  PROVE  Waits(role, q)'
<1> DEFINE B == Brings(role, q)
           m == IdOf(role, q)
<1>1. /\ Once(toSend, B) /\ Once(queue, B) /\ (In(toSend, B) => ~(asked < q))
      /\ Yet(role, q) \/ In(queue, B) => ~Exists(chat, m)
      /\ Yet(role, q) => ~In(queue, B)
  BY DEF Waits
<1>2. /\ Yet(role, q)' => Yet(role, q)
      /\ In(queue', B) => In(queue, B) \/ (Yet(role, q) /\ ~Yet(role, q)')
      /\ Once(queue', B) /\ Once(toSend', B) /\ (In(toSend', B) => ~(asked' < q))
      /\ Exists(chat', m) => Exists(chat, m) \/ (In(queue, B) /\ ~In(queue', B))
  BY DEF Moves
<1>3. /\ Once(toSend', B) /\ Once(queue', B) /\ (In(toSend', B) => ~(asked' < q))
      /\ Yet(role, q)' \/ In(queue', B) => ~Exists(chat', m)
      /\ Yet(role, q)' => ~In(queue', B)
  BY <1>1, <1>2
<1> QED BY <1>3 DEF Waits, Brings, CommandOf, IdOf

\* What is in the history afterwards: nothing new but what is in M.
Comes(M) == Sound(chat') /\ DOMAIN chat'.msgs \subseteq DOMAIN chat.msgs \cup M

\* No session steps back before a command, and none sends one.
SessionsGo ==
  \A q \in Questions, role \in {"answer", "tool", "more"} :
    session'[q] \in Before(role) => session[q] \in Before(role)

LEMMA TreeStep ==
  ASSUME TreeInv, NEW M, Comes(M), M \subseteq Ids,
         \A n \in Notes : IdOf("note", n) \in M => task'[n] # "idle",
         \A n \in Notes : task'[n] = "idle" => task[n] = "idle",
         \A role \in Roles, q \in Questions : Moves(role, q)
  PROVE  TreeInv'
<1>1. \A role \in Roles, q \in Questions : Waits(role, q)'
  BY MovesKeep DEF TreeInv
<1>2. Sound(chat)' /\ (DOMAIN chat.msgs \subseteq Ids)'
  BY DEF TreeInv, Comes
<1>3. \A n \in Notes : task'[n] = "idle" => ~Exists(chat', IdOf("note", n))
  BY DEF TreeInv, Comes, Exists
<1> QED BY <1>1, <1>2, <1>3 DEF TreeInv, IdOf

\* A step that touches neither the commands nor the sessions.
LEMMA MovesSame ==
  ASSUME TreeInv, NEW M, Comes(M), UNCHANGED <<queue, toSend, asked>>, SessionsGo,
         NEW role \in Roles, NEW q \in Questions, IdOf(role, q) \notin M
  PROVE  Moves(role, q)
<1>1. Waits(role, q)
  BY DEF TreeInv
<1>2. Yet(role, q)' => Yet(role, q)
  <2>1. CASE role \in {"question", "notice", "warning"}
    BY <2>1 DEF Yet, Brings, CommandOf
  <2>2. CASE role \in {"answer", "tool", "more"}
    BY <2>2 DEF Yet, SessionsGo, Before
  <2> QED BY <2>1, <2>2 DEF Roles
<1>3. Exists(chat', IdOf(role, q)) => Exists(chat, IdOf(role, q))
  BY DEF Comes, Exists
<1> QED BY <1>1, <1>2, <1>3 DEF Moves, Waits

\* The state manager handles a command.
LEMMA MovesHandled ==
  ASSUME Inv, TreeInv, NEW M, Comes(M), NEW c, Handle(c), UNCHANGED <<toSend, asked>>, SessionsGo,
         NEW role \in Roles, NEW q \in Questions, IdOf(role, q) \in M => c \in Brings(role, q)
  PROVE  Moves(role, q)
<1> DEFINE B == Brings(role, q)
<1>1. Waits(role, q)
  BY DEF TreeInv
<1>2. Yet(role, q)' => Yet(role, q)
  <2>1. CASE role \in {"question", "notice", "warning"}
    BY <2>1 DEF Yet, Brings, CommandOf
  <2>2. CASE role \in {"answer", "tool", "more"}
    BY <2>2 DEF Yet, SessionsGo, Before
  <2> QED BY <2>1, <2>2 DEF Roles
<1>3. IsSequence(queue) /\ queue # <<>> /\ Head(queue) = c /\ queue' = Tail(queue)
  BY DEF Handle, Inv, Shape
<1>4. Once(queue, B)
  BY <1>1 DEF Waits
<1> HIDE DEF B
<1>5. /\ In(queue', B) => In(queue, B)
      /\ Once(queue', B)
      /\ c \in B => In(queue, B) /\ ~In(queue', B)
  BY <1>3, <1>4, TailIn
<1>6. /\ Once(toSend', B)
      /\ In(toSend', B) => ~(asked' < q)
  BY <1>1 DEF Waits, B
<1>7. Exists(chat', IdOf(role, q)) => Exists(chat, IdOf(role, q)) \/ c \in B
  BY DEF Comes, Exists, B
<1> QED BY <1>2, <1>5, <1>6, <1>7 DEF Moves, B

LEMMA HandledFresh ==
  ASSUME Inv, TreeInv, NEW role \in Roles, NEW q \in Questions,
         Handle([cmd |-> CommandOf(role), q |-> q])
  PROVE  /\ ~Exists(chat, IdOf(role, q)) /\ IdOf(role, q) \in Ids
         /\ IdOf(role, q) # NoMessage
<1>1. IsSequence(queue) /\ queue # <<>> /\ Head(queue) \in Brings(role, q)
  BY DEF Handle, Inv, Shape, Brings
<1>2. In(queue, Brings(role, q))
  BY <1>1, TailIn
<1>3. ~Exists(chat, IdOf(role, q))
  BY <1>2 DEF TreeInv, Waits
<1>4. IdOf(role, q) \in Ids
  BY DEF IdOf, Ids, Fresh
<1> QED BY <1>3, <1>4, IdsAssumption

\* What comes in is at the end of the path on display, below its parent.
GrowsAt(parent, m, selected) ==
  /\ DOMAIN chat'.msgs = DOMAIN chat.msgs \cup {m}
  /\ chat'.tail = m /\ chat'.current = IF selected THEN m ELSE chat.current
  /\ ToSet(chat'.path) = ToSet(PathTo(chat, parent)) \cup {m}
  /\ InGap => "added in gap" \in raced'

LEMMA GrowSound ==
  ASSUME Sound(chat), NEW parent, NEW m, ~Exists(chat, m), m # NoMessage,
         NEW message, Loose(message), NEW selected \in BOOLEAN,
         Grow(parent, m, message, selected)
  PROVE  /\ Comes({m}) /\ raced \subseteq raced'
         /\ Exists(chat, parent) => GrowsAt(parent, m, selected)
         /\ ~Exists(chat, parent) => chat' = chat
<1> DEFINE grown == AddChild(chat, parent, m, message)
<1>1. /\ chat' = IF selected /\ Exists(grown, m) THEN [grown EXCEPT !.current = m] ELSE grown
      /\ IF Exists(grown, m) /\ InGap THEN raced' = raced \cup {"added in gap"}
         ELSE raced' = raced
  BY DEF Grow
<1>2. CASE Exists(chat, parent)
  <2>1. Extends(chat, grown, parent, m)
    BY <1>2, AddChildSound
  <2> HIDE DEF grown
  <2>2. Exists(grown, m) /\ Sound(grown)
    BY <2>1 DEF Extends, Exists
  <2>3. /\ Sound(chat') /\ chat'.msgs = grown.msgs /\ chat'.tail = grown.tail
        /\ chat'.path = grown.path /\ chat'.current = IF selected THEN m ELSE grown.current
    <3>1. CASE selected
      <4>1. chat' = [grown EXCEPT !.current = m]
        BY <1>1, <2>2, <3>1
      <4> QED BY <2>2, <3>1, <4>1, SelectSound
    <3>2. CASE ~selected
      BY <1>1, <2>2, <3>2
    <3> QED BY <3>1, <3>2
  <2> QED BY <1>1, <1>2, <2>1, <2>2, <2>3 DEF Extends, Comes, GrowsAt
<1>3. CASE ~Exists(chat, parent)
  <2>1. grown = chat
    BY <1>3 DEF AddChild
  <2> QED BY <1>1, <1>3, <2>1 DEF Comes
<1> QED BY <1>2, <1>3

LEMMA ShrunkComes ==
  ASSUME Shrunk(chat, chat')
  PROVE  Comes({})
  BY DEF Shrunk, Comes

LEMMA SameTreeComes ==
  ASSUME Sound(chat), SameTree(chat, chat')
  PROVE  Comes({})
  BY SameTreeSound DEF SameTree, Comes

LEMMA SelectComes ==
  ASSUME Sound(chat), NEW m, chat' = [chat EXCEPT !.current = m]
  PROVE  Comes({}) /\ chat'.path = chat.path /\ chat'.msgs = chat.msgs /\ chat'.current = m
  BY SelectSound DEF Comes

LEMMA LooseMessages ==
  /\ Loose(User) /\ Loose(ToolResult)
  /\ \A status : Loose(Assistant(status)) /\ \A context : Loose(SysInfo(context))
  BY MessageIsLoose DEF User, ToolResult, Assistant, SysInfo

LEMMA SessionsStay ==
  ASSUME UNCHANGED session
  PROVE  SessionsGo
  BY DEF SessionsGo

LEMMA QuietStep ==
  ASSUME TreeInv, Comes({}), UNCHANGED <<queue, toSend, asked>>, SessionsGo,
         \A n \in Notes : task'[n] = "idle" => task[n] = "idle"
  PROVE  TreeInv'
<1>1. \A role \in Roles, q \in Questions : Moves(role, q)
  BY MovesSame
<1> QED BY <1>1, TreeStep

LEMMA HandledStep ==
  ASSUME Inv, TreeInv, Comes({}), NEW c, Handle(c), UNCHANGED <<toSend, asked, task>>,
         SessionsGo
  PROVE  TreeInv'
<1>1. \A role \in Roles, q \in Questions : Moves(role, q)
  BY MovesHandled
<1> QED BY <1>1, TreeStep

LEMMA BringStep ==
  ASSUME Inv, TreeInv, NEW r \in Roles, NEW p \in Questions, Comes({IdOf(r, p)}),
         Handle([cmd |-> CommandOf(r), q |-> p]), UNCHANGED <<toSend, asked, task>>,
         SessionsGo
  PROVE  TreeInv'
<1> DEFINE c == [cmd |-> CommandOf(r), q |-> p]
           M == {IdOf(r, p)}
<1>1. \A role \in Roles, q \in Questions : IdOf(role, q) \in M => c \in Brings(role, q)
  BY DEF IdOf, Brings
<1>2. \A n \in Notes : IdOf("note", n) \notin M
  BY DEF IdOf, Roles
<1>3. M \subseteq Ids
  BY DEF IdOf, Ids, Fresh
<1>4. Handle(c)
  OBVIOUS
<1> HIDE DEF c, M
<1>5. Comes(M)
  BY DEF M
<1>6. \A role \in Roles, q \in Questions : Moves(role, q)
  BY <1>1, <1>4, <1>5, MovesHandled
<1> QED BY <1>2, <1>3, <1>5, <1>6, TreeStep

\* A command goes into the channel.
LEMMA SendStep ==
  ASSUME Inv, TreeInv, NEW c, queue' = Append(queue, c), UNCHANGED <<chat, toSend, asked, task>>,
         SessionsGo,
         \A role \in Roles, q \in Questions :
           c \in Brings(role, q) => Yet(role, q) /\ ~Yet(role, q)'
  PROVE  TreeInv'
<1>1. ASSUME NEW role \in Roles, NEW q \in Questions PROVE Moves(role, q)
  <2> DEFINE B == Brings(role, q)
  <2>1. Waits(role, q)
    BY DEF TreeInv
  <2>2. Yet(role, q)' => Yet(role, q)
    <3>1. CASE role \in {"question", "notice", "warning"}
      BY <3>1 DEF Yet, Brings, CommandOf
    <3>2. CASE role \in {"answer", "tool", "more"}
      BY <3>2 DEF Yet, SessionsGo, Before
    <3> QED BY <3>1, <3>2 DEF Roles
  <2>3. IsSequence(queue) /\ queue' = Append(queue, c)
    BY DEF Inv, Shape
  <2>4. Once(queue, B) /\ (c \in B => ~In(queue, B))
    BY <2>1 DEF Waits
  <2> HIDE DEF B
  <2>5. /\ In(queue', B) <=> In(queue, B) \/ c \in B
        /\ Once(queue', B)
    BY <2>3, <2>4, AppendIn
  <2>6. /\ Once(toSend', B)
        /\ In(toSend', B) => ~(asked' < q)
    BY <2>1 DEF Waits, B
  <2> QED BY <2>2, <2>5, <2>6 DEF Moves, B
<1>2. Comes({})
  BY DEF Comes, TreeInv
<1> QED BY <1>1, <1>2, TreeStep

LEMMA CommandStep ==
  ASSUME Inv, TreeInv, NEW q \in Questions, NEW from, NEW to, NEW c, Command(q, from, to, c),
         \A role \in {"answer", "tool", "more"} : to \in Before(role) => from \in Before(role),
         \A role \in Roles, p \in Questions :
           c \in Brings(role, p) => /\ p = q /\ role \in {"answer", "tool", "more"}
                                    /\ from \in Before(role) /\ to \notin Before(role)
  PROVE  TreeInv'
<1>1. /\ session[q] = from /\ session' = [session EXCEPT ![q] = to]
      /\ queue' = Append(queue, c) /\ UNCHANGED <<chat, toSend, asked, task>>
  BY DEF Command, uiVars
<1>2. /\ q \in DOMAIN session /\ session'[q] = to
      /\ \A p \in Questions \ {q} : session'[p] = session[p]
  BY <1>1 DEF Inv, Shape
<1>3. SessionsGo
  BY <1>1, <1>2 DEF SessionsGo
<1>4. \A role \in Roles, p \in Questions :
           c \in Brings(role, p) => Yet(role, p) /\ ~Yet(role, p)'
  <2> SUFFICES ASSUME NEW role \in Roles, NEW p \in Questions, c \in Brings(role, p)
               PROVE  Yet(role, p) /\ ~Yet(role, p)'
    OBVIOUS
  <2>1. /\ p = q /\ role \in {"answer", "tool", "more"}
        /\ from \in Before(role) /\ to \notin Before(role)
    OBVIOUS
  <2> QED BY <1>1, <1>2, <2>1 DEF Yet, Before
<1> QED BY <1>1, <1>3, <1>4, SendStep

LEMMA SessionTree ==
  ASSUME Inv, TreeInv, NEW q \in Questions, Session(q)
  PROVE  TreeInv'
<1>1. CASE StartSession(q)
  BY <1>1, CommandStep DEF StartSession, Before, Brings, CommandOf, Roles
<1>2. CASE ShowFirst(q)
  <2>1. PICK u \in Outcomes :
          Command(q, "running", "shown",
                  [cmd |-> "UpdateMessage", q |-> q, status |-> u[1], tokens |-> u[2]])
    BY <1>2 DEF ShowFirst
  <2>2. \A role \in Roles : \A p :
          [cmd |-> "UpdateMessage", q |-> q, status |-> u[1], tokens |-> u[2]]
            \notin Brings(role, p)
    BY DEF Brings, CommandOf, Roles
  <2> QED BY <2>1, <2>2, CommandStep DEF Before
<1>3. CASE ShowTool(q)
  BY <1>3, CommandStep DEF ShowTool, Before, Brings, CommandOf, Roles
<1>4. CASE ShowMore(q)
  BY <1>4, CommandStep DEF ShowMore, Before, Brings, CommandOf, Roles
<1>5. CASE EndSession(q)
  BY <1>5, CommandStep DEF EndSession, Before, Brings, CommandOf, Roles
<1> QED BY <1>1, <1>2, <1>3, <1>4, <1>5 DEF Session

LEMMA SubmitTree ==
  ASSUME Inv, TreeInv, NEW q \in Questions, Submit(q)
  PROVE  TreeInv'
<1>1. /\ asked \in Nat /\ q = asked + 1 /\ asked' = q /\ MaxQuestions \in Nat
      /\ toSend = <<>>
      /\ toSend' = << [cmd |-> "AddUserMessage", q |-> q], [cmd |-> "EmbedMessage", q |-> q],
                      [cmd |-> "AddMessage", q |-> q] >>
  BY ConversationAssumption DEF Inv, Shape, Submit
<1>2. UNCHANGED <<chat, queue, session, task>>
  BY DEF Submit, llmVars
<1>3. ASSUME NEW role \in Roles, NEW p \in Questions PROVE Moves(role, p)
  <2> DEFINE B == Brings(role, p)
  <2>1. Waits(role, p) /\ p \in Int
    BY DEF TreeInv, Questions
  <2>2. In(toSend', B) => p = q /\ role \in {"question", "notice", "warning"}
    BY <1>1 DEF In, Brings, CommandOf, Roles
  <2>3. Once(toSend', B)
    BY <1>1 DEF Once, Brings, CommandOf, Roles
  <2>4. Yet(role, p)' => Yet(role, p)
    <3>1. CASE role \in {"question", "notice", "warning"}
      <4>1. Yet(role, p)' <=> asked' < p \/ In(toSend', B)
        BY <3>1 DEF Yet, Brings, CommandOf
      <4>2. asked' < p \/ p = q => asked < p
        BY <1>1, <2>1
      <4> QED BY <2>2, <3>1, <4>1, <4>2 DEF Yet
    <3>2. CASE role \in {"answer", "tool", "more"}
      BY <1>2, <3>2 DEF Yet, Before
    <3> QED BY <3>1, <3>2 DEF Roles
  <2>5. In(toSend', B) => ~(asked' < p)
    BY <1>1, <2>1, <2>2
  <2> QED BY <1>2, <2>1, <2>3, <2>4, <2>5 DEF Moves, Waits
<1>4. Comes({})
  BY <1>2 DEF Comes, TreeInv
<1> QED BY <1>2, <1>3, <1>4, TreeStep

LEMMA SendNextTree ==
  ASSUME Inv, TreeInv, SendNext
  PROVE  TreeInv'
<1> DEFINE c == Head(toSend)
<1>1. /\ toSend \in Seq(Submitted) /\ toSend # <<>> /\ toSend' = Tail(toSend)
      /\ queue' = Append(queue, c) \/ queue' = queue
      /\ UNCHANGED <<chat, asked, session, task>>
  BY DEF Inv, Shape, SendNext, llmVars
<1>2. IsSequence(toSend) /\ IsSequence(queue)
  BY <1>1, SeqIsSequence DEF Inv, Shape
<1>3. c \in Submitted
  BY <1>1, HeadTailProperties
<1> HIDE DEF c
<1>4. ASSUME NEW role \in Roles, NEW q \in Questions PROVE Moves(role, q)
  <2> DEFINE B == Brings(role, q)
  <2>1. Waits(role, q)
    BY DEF TreeInv
  <2>2. Once(toSend, B) /\ Once(queue, B) /\ (In(toSend, B) => ~(asked < q))
        /\ (Yet(role, q) => ~In(queue, B))
    BY <2>1 DEF Waits
  <2>3. c \in B => role \in {"question", "notice", "warning"}
    BY <1>3 DEF Submitted, Brings, CommandOf, Roles
  <2> HIDE DEF B
  <2>4. /\ In(toSend', B) => In(toSend, B)
        /\ Once(toSend', B)
        /\ c \in B => In(toSend, B) /\ ~In(toSend', B)
    BY <1>1, <1>2, <2>2, TailIn DEF c
  <2>5. /\ Yet(role, q)' => Yet(role, q)
        /\ c \in B => Yet(role, q) /\ ~Yet(role, q)'
    <3>1. CASE role \in {"question", "notice", "warning"}
      <4>1. Yet(role, q)' <=> asked' < q \/ In(toSend', B)
        BY <3>1 DEF Yet, Brings, CommandOf, B
      <4>2. Yet(role, q) <=> asked < q \/ In(toSend, B)
        BY <3>1 DEF Yet, B
      <4> QED BY <1>1, <2>2, <2>4, <4>1, <4>2
    <3>2. CASE role \in {"answer", "tool", "more"}
      BY <1>1, <2>3, <3>2 DEF Yet, Before
    <3> QED BY <3>1, <3>2 DEF Roles
  <2>6. /\ In(queue', B) => In(queue, B) \/ c \in B
        /\ Once(queue', B)
    <3>1. CASE queue' = Append(queue, c)
      <4>1. c \in B => ~In(queue, B)
        BY <2>2, <2>5
      <4> QED BY <1>2, <2>2, <3>1, <4>1, AppendIn
    <3>2. CASE queue' = queue
      BY <2>2, <3>2
    <3> QED BY <1>1, <3>1, <3>2
  <2> QED BY <1>1, <2>2, <2>4, <2>5, <2>6 DEF Moves, B
<1>5. Comes({})
  BY <1>1 DEF Comes, TreeInv
<1> QED BY <1>1, <1>4, <1>5, TreeStep

LEMMA KeyTree ==
  ASSUME Inv, TreeInv, NEW c, c.cmd \in {"NavigateList", "Delete"}, Key(c)
  PROVE  TreeInv'
<1>1. queue' = Append(queue, c) /\ UNCHANGED <<chat, toSend, asked, task, session>>
  BY DEF Key, llmVars
<1>2. \A role \in Roles : \A q : c \notin Brings(role, q)
  BY DEF Brings, CommandOf, Roles
<1> QED BY <1>1, <1>2, SessionsStay, SendStep

(***************************************************************************)
(* The selection.                                                          *)
(***************************************************************************)

\* The messages somebody is about to select.
Due ==
  (IF manager.step \in {"select", "reselect"} THEN {manager.msg} ELSE {})
    \cup { IdOf("note", n) : n \in { k \in Notes : task[k] = "select" } }

\* They are there, and on the path, with the one that is selected.
SelectInv ==
  /\ {chat.current} \cup Due \subseteq Ids
  /\ "deleted in gap" \notin raced => {chat.current} \cup Due \subseteq DOMAIN chat.msgs
  /\ raced \cap {"deleted", "added in gap"} = {} =>
       {chat.current} \cup Due \subseteq ToSet(chat.path)
  /\ manager.step = "reselect" => "deleted" \in raced

\* Nobody is, outside of a gap.
LEMMA NothingDue ==
  ASSUME ~InGap, manager.step # "reselect"
  PROVE  Due = {}
  BY DEF InGap, Due

\* The selection stays, or goes to a message that was due, or to one on the path.
LEMMA SelectionStays ==
  ASSUME TreeInv, SelectInv,
         Due' \subseteq Due,
         chat'.current \in {chat.current} \cup Due \cup ToSet(chat.path),
         DOMAIN chat.msgs \subseteq DOMAIN chat'.msgs, chat'.path = chat.path,
         raced' = raced, manager'.step = "reselect" => manager.step = "reselect"
  PROVE  SelectInv'
<1>1. ToSet(chat.path) \subseteq DOMAIN chat.msgs /\ DOMAIN chat.msgs \subseteq Ids
  BY PathIsThere DEF TreeInv
<1> DEFINE due == Due
           now == Due'
<1>2. /\ {chat.current} \cup due \subseteq Ids
      /\ "deleted in gap" \notin raced => {chat.current} \cup due \subseteq DOMAIN chat.msgs
      /\ raced \cap {"deleted", "added in gap"} = {} =>
           {chat.current} \cup due \subseteq ToSet(chat.path)
      /\ manager.step = "reselect" => "deleted" \in raced
      /\ now \subseteq due
      /\ chat'.current \in {chat.current} \cup due \cup ToSet(chat.path)
  BY DEF SelectInv
<1> HIDE DEF due, now
<1>3. /\ {chat'.current} \cup now \subseteq Ids
      /\ "deleted in gap" \notin raced' => {chat'.current} \cup now \subseteq DOMAIN chat'.msgs
      /\ raced' \cap {"deleted", "added in gap"} = {} =>
           {chat'.current} \cup now \subseteq ToSet(chat'.path)
      /\ manager'.step = "reselect" => "deleted" \in raced'
  BY <1>1, <1>2
<1> QED BY <1>3 DEF SelectInv, now

\* What the state manager or a task adds.
LEMMA SelectionGrows ==
  ASSUME TreeInv, SelectInv, NEW parent, NEW m \in Ids, ~Exists(chat, m),
         m # NoMessage, NEW message, Loose(message), NEW selected \in BOOLEAN,
         Grow(parent, m, message, selected), selected \/ parent = chat.current,
         Due' \subseteq Due \cup (IF Exists(chat, parent) THEN {m} ELSE {}),
         manager'.step # "reselect" \/ manager' = manager
  PROVE  SelectInv'
<1>0. Sound(chat)
  BY DEF TreeInv
<1>1. raced \subseteq raced'
  BY <1>0, GrowSound
<1>2. CASE Exists(chat, parent)
  <2>1. /\ DOMAIN chat'.msgs = DOMAIN chat.msgs \cup {m}
        /\ chat'.current = IF selected THEN m ELSE chat.current
        /\ ToSet(chat'.path) = ToSet(PathTo(chat, parent)) \cup {m}
        /\ InGap => "added in gap" \in raced'
    <3>1. GrowsAt(parent, m, selected)
      BY <1>0, <1>2, GrowSound
    <3> QED BY <3>1 DEF GrowsAt
  <2>2. "deleted in gap" \notin raced' => {chat'.current} \cup Due' \subseteq DOMAIN chat'.msgs
    BY <1>1, <1>2, <2>1 DEF SelectInv
  <2>3. ASSUME raced' \cap {"deleted", "added in gap"} = {}
        PROVE  {chat'.current} \cup Due' \subseteq ToSet(chat'.path)
    <3>1. ~InGap /\ manager.step # "reselect"
      BY <1>1, <2>1, <2>3 DEF SelectInv
    <3>2. Due' \subseteq {m}
      BY <3>1, NothingDue
    <3>3. parent \in ToSet(PathTo(chat, parent))
      BY <1>0, <1>2, PathShape DEF PathTo, Exists, Sound
    <3> QED BY <2>1, <3>2, <3>3
  <2>4. manager'.step = "reselect" => "deleted" \in raced'
    BY <1>1 DEF SelectInv
  <2>5. {chat'.current} \cup Due' \subseteq Ids
    BY <1>2, <2>1 DEF SelectInv
  <2> QED BY <2>2, <2>3, <2>4, <2>5 DEF SelectInv
<1>3. CASE ~Exists(chat, parent)
  <2>1. chat' = chat
    BY <1>0, <1>3, GrowSound
  <2>2. Due' \subseteq Due
    BY <1>3
  <2> HIDE DEF Due
  <2>3. /\ {chat'.current} \cup Due' \subseteq Ids
        /\ "deleted in gap" \notin raced' => {chat'.current} \cup Due' \subseteq DOMAIN chat'.msgs
        /\ raced' \cap {"deleted", "added in gap"} = {} =>
             {chat'.current} \cup Due' \subseteq ToSet(chat'.path)
        /\ manager'.step = "reselect" => "deleted" \in raced'
    BY <1>1, <2>1, <2>2 DEF SelectInv
  <2> QED BY <2>3 DEF SelectInv
<1> QED BY <1>2, <1>3

LEMMA SelectionShrinks ==
  ASSUME TreeInv, SelectInv, Shrunk(chat, chat'), manager.step = "idle",
         raced' = raced \cup {"deleted"} \cup IF InGap THEN {"deleted in gap"} ELSE {},
         Due' \subseteq Due \cup {chat'.current}
  PROVE  SelectInv'
<1>1. "deleted" \in raced'
  OBVIOUS
<1>2. ASSUME "deleted in gap" \notin raced'
      PROVE  {chat'.current} \cup Due' \subseteq DOMAIN chat'.msgs
  <2>1. ~InGap /\ "deleted in gap" \notin raced
    BY <1>2
  <2>2. Due = {}
    BY <2>1, NothingDue
  <2>3. Exists(chat, chat.current)
    BY <2>1 DEF SelectInv, Exists
  <2> QED BY <2>2, <2>3 DEF Shrunk, Exists
<1>3. {chat'.current} \cup Due' \subseteq Ids
  <2>1. chat'.current \in Ids
    BY DEF Shrunk, Exists, SelectInv, TreeInv
  <2> QED BY <2>1 DEF SelectInv
<1> QED BY <1>1, <1>2, <1>3 DEF SelectInv

TreeSteps == TreeInv' /\ SelectInv'

\* A step that changes neither the selection nor who is about to select.
LEMMA SelectionSame ==
  ASSUME TreeInv, SelectInv, UNCHANGED <<chat, manager, task, raced>>
  PROVE  SelectInv'
<1>1. Due' = Due
  BY DEF Due, IdOf
<1> QED BY <1>1, SelectionStays

(***************************************************************************)
(* The steps of the state manager.                                         *)
(***************************************************************************)

LEMMA AddThenSelectTree ==
  ASSUME Inv, TreeInv, SelectInv, NEW role \in Roles, NEW q \in Questions,
         Handle([cmd |-> CommandOf(role), q |-> q]), NEW message, Loose(message),
         AddThenSelect(IdOf(role, q), message), UNCHANGED <<toSend, asked, task, session>>
  PROVE  TreeSteps
<1> DEFINE m == IdOf(role, q)
<1>1. ~Exists(chat, m) /\ m # NoMessage /\ m \in Ids
  BY HandledFresh
<1>2. /\ Grow(chat.current, m, message, FALSE)
      /\ manager' = IF Exists(chat, chat.current) THEN [step |-> "select", msg |-> m] ELSE Idle
      /\ manager = Idle
  BY DEF AddThenSelect, Handle
<1>3. TreeInv'
  <2>1. Comes({m})
    BY <1>1, <1>2, GrowSound DEF TreeInv
  <2> QED BY <2>1, SessionsStay, BringStep
<1>4. SelectInv'
  <2> HIDE DEF m
  <2>1. Due' \subseteq Due \cup (IF Exists(chat, chat.current) THEN {m} ELSE {})
    BY <1>2 DEF Due, Idle, IdOf
  <2>2. manager'.step # "reselect"
    BY <1>2 DEF Idle
  <2> QED BY <1>1, <1>2, <2>1, <2>2, SelectionGrows
<1> QED BY <1>3, <1>4 DEF TreeSteps

LEMMA GrowTree ==
  ASSUME Inv, TreeInv, SelectInv, NEW role \in Roles, NEW q \in Questions,
         Handle([cmd |-> CommandOf(role), q |-> q]), NEW message, Loose(message),
         NEW parent, NEW selected \in BOOLEAN, Grow(parent, IdOf(role, q), message, selected),
         selected \/ parent = chat.current,
         UNCHANGED <<manager, toSend, asked, task>>, SessionsGo
  PROVE  TreeSteps
<1> DEFINE m == IdOf(role, q)
<1>1. ~Exists(chat, m) /\ m # NoMessage /\ m \in Ids
  BY HandledFresh
<1>3. TreeInv'
  <2>1. Sound(chat)
    BY DEF TreeInv
  <2>2. Comes({m})
    <3> HIDE DEF m
    <3> QED BY <1>1, <2>1, GrowSound DEF m
  <2> QED BY <2>2, BringStep
<1>4. SelectInv'
  <2>1. Due' \subseteq Due
    BY DEF Due, IdOf
  <2> HIDE DEF m
  <2> QED BY <1>1, <2>1, SelectionGrows DEF m
<1> QED BY <1>3, <1>4 DEF TreeSteps

\* A command after which the same messages are there, or some of them.
LEMMA HandledTree ==
  ASSUME Inv, TreeInv, SelectInv, NEW c, Handle(c),
         UNCHANGED <<manager, toSend, asked, task, raced>>,
         SessionsGo, Sound(chat'), DOMAIN chat'.msgs = DOMAIN chat.msgs, chat'.path = chat.path,
         chat'.current \in {chat.current} \cup ToSet(chat.path)
  PROVE  TreeSteps
<1>1. TreeInv'
  <2>1. Comes({})
    BY DEF Comes
  <2> QED BY <2>1, HandledStep
<1>2. SelectInv'
  <2>1. Due' = Due
    BY DEF Due, IdOf
  <2> QED BY <2>1, SelectionStays
<1> QED BY <1>1, <1>2 DEF TreeSteps

LEMMA EmbedTree ==
  ASSUME Inv, TreeInv, SelectInv, NEW q \in Questions, EmbedMessage(q)
  PROVE  TreeSteps
<1> DEFINE c == [cmd |-> "EmbedMessage", q |-> q]
<1>1. Handle(c) /\ UNCHANGED <<toSend, asked, task, session>> /\ Sound(chat)
  BY DEF EmbedMessage, uiVars, llmVars, TreeInv
<1>2. CommandOf("warning") = "EmbedMessage" /\ "warning" \in Roles
  BY DEF CommandOf, Roles
<1>3. CASE q \notin added
  <2>1. Grow(chat.current, IdOf("warning", q), SysInfo(Leased), FALSE) /\ manager' = manager
    BY <1>3 DEF EmbedMessage
  <2> QED BY <1>1, <1>2, <2>1, GrowTree, LooseMessages, SessionsStay
<1>4. CASE q \in added /\ LastUserMessage(chat) = NoMessage
  <2>1. UNCHANGED <<chat, manager, raced>>
    BY <1>4 DEF EmbedMessage
  <2> QED BY <1>1, <2>1, HandledTree, SessionsStay
<1>5. CASE q \in added /\ LastUserMessage(chat) # NoMessage
  <2>1. chat' = AfterPrompt(chat) /\ manager'.step = "prompt" /\ raced' = raced
    BY <1>5 DEF EmbedMessage
  <2>2. SameTree(chat, chat') /\ chat'.current = chat.current
    BY <1>1, <2>1, AfterPromptSound
  <2>3. TreeInv'
    <3>1. Comes({})
      BY <1>1, <2>2, SameTreeComes
    <3> QED BY <1>1, <3>1, SessionsStay, HandledStep
  <2>4. Due' \subseteq Due
    BY <1>1, <2>1 DEF Due, IdOf
  <2>5. SelectInv'
    BY <2>1, <2>2, <2>4, SelectionStays DEF SameTree
  <2> QED BY <2>3, <2>5 DEF TreeSteps
<1> QED BY <1>3, <1>4, <1>5

LEMMA DeleteTree ==
  ASSUME Inv, TreeInv, SelectInv, NEW m, DeleteNodeCommand(m) \/ DeleteMessageCommand(m)
  PROVE  TreeSteps
<1>1. /\ UNCHANGED <<toSend, asked, task, session>> /\ Sound(chat)
      /\ raced' = raced \cup {"deleted"} \cup IF InGap THEN {"deleted in gap"} ELSE {}
      /\ manager' = manager \/ manager' = Idle
         \/ manager' = [step |-> "reselect", msg |-> chat'.current]
  BY DEF DeleteNodeCommand, DeleteMessageCommand, uiVars, llmVars, TreeInv
<1>0. PICK c : Handle(c)
  BY DEF DeleteNodeCommand, DeleteMessageCommand
<1>6. manager.step = "idle"
  BY <1>0 DEF Handle, Idle
<1>2. Shrunk(chat, chat')
  BY <1>1, DeleteNodeSound, DeleteSubtreeSound DEF DeleteNodeCommand, DeleteMessageCommand
<1>3. TreeInv'
  <2>1. Comes({}) /\ SessionsGo
    BY <1>1, <1>2, ShrunkComes, SessionsStay
  <2>2. UNCHANGED <<toSend, asked, task>>
    BY <1>1
  <2> QED BY <1>0, <2>1, <2>2, HandledStep
<1>4. Due' \subseteq Due \cup {chat'.current}
  <2>1. /\ manager'.step \in {"select", "reselect"} =>
             manager'.msg = chat'.current \/ manager' = manager
        /\ task' = task
    <3>1. CASE manager' = manager
      BY <1>1, <3>1
    <3>2. CASE manager' = Idle
      BY <1>1, <3>2 DEF Idle
    <3> DEFINE now == chat'.current
    <3>3. CASE manager' = [step |-> "reselect", msg |-> now]
      <4> HIDE DEF now
      <4> QED BY <1>1, <3>3 DEF now
    <3> QED BY <1>1, <3>1, <3>2, <3>3
  <2> QED BY <1>6, <2>1 DEF Due, IdOf
<1>5. SelectInv'
  BY <1>1, <1>2, <1>4, <1>6, SelectionShrinks
<1> QED BY <1>3, <1>5 DEF TreeSteps

LEMMA CreateTree ==
  ASSUME Inv, TreeInv, SelectInv, NEW q \in Questions, CreateAssistantMessage(q)
  PROVE  TreeSteps
<1> DEFINE c == [cmd |-> "CreateAssistantMessage", q |-> q]
<1>1. /\ Handle(c) /\ UNCHANGED <<manager, toSend, asked, task>>
      /\ Grow(IdOf("question", q), IdOf("answer", q), Assistant("Generating"), TRUE)
      /\ session' = [session EXCEPT ![q] = IF Exists(chat, IdOf("question", q))
                                           THEN "running" ELSE "failed"]
  BY DEF CreateAssistantMessage, uiVars
<1>2. CommandOf("answer") = "CreateAssistantMessage" /\ "answer" \in Roles
  BY DEF CommandOf, Roles
<1>3. session[q] = "creating"
  <2>1. IsSequence(queue) /\ queue # <<>> /\ Head(queue) \in Creates(q)
    BY <1>1 DEF Handle, Inv, Shape, Creates
  <2>2. In(queue, Creates(q))
    BY <2>1, TailIn
  <2> QED BY <2>2 DEF Inv, SessionSound
<1>4. SessionsGo
  <2>1. /\ session'[q] \in {"running", "failed"}
        /\ \A p \in Questions \ {q} : session'[p] = session[p]
    BY <1>1 DEF Inv, Shape
  <2> QED BY <1>3, <2>1 DEF SessionsGo, Before
<1> QED BY <1>1, <1>2, <1>4, GrowTree, LooseMessages

LEMMA StateManagerTree ==
  ASSUME Inv, TreeInv, SelectInv, StateManager
  PROVE  TreeSteps
<1>0. Sound(chat)
  BY DEF TreeInv
<1>1. CASE \E q \in Questions : AddUserMessage(q)
  <2>1. PICK q \in Questions : AddUserMessage(q)
    BY <1>1
  <2>2. CommandOf("question") = "AddUserMessage" /\ "question" \in Roles
    BY DEF CommandOf, Roles
  <2>3. /\ Handle([cmd |-> "AddUserMessage", q |-> q])
        /\ AddThenSelect(IdOf("question", q), User)
        /\ UNCHANGED <<toSend, asked, task, session>>
    BY <2>1 DEF AddUserMessage, uiVars, llmVars
  <2> QED BY <2>2, <2>3, AddThenSelectTree, LooseMessages
<1>2. CASE \E q \in Questions : AddMessageImmediate(q)
  <2>1. PICK q \in Questions : AddMessageImmediate(q)
    BY <1>2
  <2>2. CommandOf("more") = "AddMessageImmediate" /\ "more" \in Roles
    BY DEF CommandOf, Roles
  <2>3. /\ Handle([cmd |-> "AddMessageImmediate", q |-> q])
        /\ AddThenSelect(IdOf("more", q), Assistant("Completed"))
        /\ UNCHANGED <<toSend, asked, task, session>>
    BY <2>1 DEF AddMessageImmediate, uiVars, llmVars
  <2> QED BY <2>2, <2>3, AddThenSelectTree, LooseMessages
<1>3. CASE \E q \in Questions : EmbedMessage(q)
  BY <1>3, EmbedTree
<1>4. CASE \E q \in Questions : AddMessage(q)
  <2>1. PICK q \in Questions : AddMessage(q)
    BY <1>4
  <2>2. CommandOf("notice") = "AddMessage" /\ "notice" \in Roles
    BY DEF CommandOf, Roles
  <2>3. /\ Handle([cmd |-> "AddMessage", q |-> q])
        /\ Grow(IdOf("question", q), IdOf("notice", q), SysInfo(Leased), TRUE)
        /\ UNCHANGED <<manager, toSend, asked, task, session>>
    BY <2>1 DEF AddMessage, uiVars, llmVars
  <2> QED BY <2>2, <2>3, GrowTree, LooseMessages, SessionsStay
<1>5. CASE \E q \in Questions : CreateAssistantMessage(q)
  BY <1>5, CreateTree
<1>6. CASE \E q \in Questions : AddMessageTool(q)
  <2>1. PICK q \in Questions : AddMessageTool(q)
    BY <1>6
  <2>2. CommandOf("tool") = "AddMessageTool" /\ "tool" \in Roles
    BY DEF CommandOf, Roles
  <2>3. /\ Handle([cmd |-> "AddMessageTool", q |-> q])
        /\ Grow(chat.current, IdOf("tool", q), ToolResult, TRUE)
        /\ UNCHANGED <<manager, toSend, asked, task, session>>
    BY <2>1 DEF AddMessageTool, uiVars, llmVars
  <2> QED BY <2>2, <2>3, GrowTree, LooseMessages, SessionsStay
<1>7. CASE \E q \in Questions : DecrementChatTtl(q)
  <2>1. PICK q \in Questions : DecrementChatTtl(q)
    BY <1>7
  <2>2. /\ Handle([cmd |-> "DecrementChatTtl", q |-> q])
        /\ chat' = DecrementTtl(chat, included[q])
        /\ UNCHANGED <<manager, toSend, asked, task, raced, session>>
    BY <2>1 DEF DecrementChatTtl, uiVars
  <2>3. SameTree(chat, chat') /\ chat'.current = chat.current /\ Sound(chat')
    BY <1>0, <2>2, DecrementTtlSound, SameTreeSound
  <2> QED BY <2>2, <2>3, HandledTree, SessionsStay DEF SameTree
<1>8. CASE \E q \in Questions, status \in {"Completed", "Error"}, tokens \in 0 .. 1 :
             UpdateMessage(q, status, tokens)
  <2>1. PICK q \in Questions, status \in {"Completed", "Error"}, tokens \in 0 .. 1 :
          UpdateMessage(q, status, tokens)
    BY <1>8
  <2>2. /\ Handle([cmd |-> "UpdateMessage", q |-> q, status |-> status, tokens |-> tokens])
        /\ chat' = TryUpdate(chat, IdOf("answer", q), status, tokens)
        /\ UNCHANGED <<manager, toSend, asked, task, raced, session>>
    BY <2>1 DEF UpdateMessage, uiVars, llmVars
  <2>3. SameTree(chat, chat') /\ chat'.current = chat.current /\ Sound(chat')
    BY <1>0, <2>2, TryUpdateSound, SameTreeSound
  <2> QED BY <2>2, <2>3, HandledTree, SessionsStay DEF SameTree
<1>9. CASE SelectAdded \/ Reselect
  <2>1. /\ chat' = [chat EXCEPT !.current = manager.msg] /\ manager' = Idle
        /\ manager.step \in {"select", "reselect"}
        /\ UNCHANGED <<queue, toSend, asked, task, raced, session>>
    BY <1>9 DEF SelectAdded, Reselect, uiVars, llmVars
  <2>2. /\ Comes({}) /\ chat'.path = chat.path /\ chat'.msgs = chat.msgs
        /\ chat'.current = manager.msg
    BY <1>0, <2>1, SelectComes
  <2>3. TreeInv'
    BY <2>1, <2>2, SessionsStay, QuietStep
  <2>4. Due' \subseteq Due /\ manager.msg \in Due
    BY <2>1 DEF Due, Idle, IdOf
  <2>5. manager'.step # "reselect"
    BY <2>1 DEF Idle
  <2>6. SelectInv'
    BY <2>1, <2>2, <2>4, <2>5, SelectionStays
  <2> QED BY <2>3, <2>6 DEF TreeSteps
<1>10. CASE SendPrompt
  <2>1. manager' = Idle /\ UNCHANGED <<chat, queue, toSend, asked, task, raced, session>>
    BY <1>10 DEF SendPrompt, uiVars
  <2>2. TreeInv'
    BY <1>0, <2>1, SessionsStay, QuietStep DEF Comes
  <2>3. Due' \subseteq Due /\ manager'.step # "reselect"
    BY <2>1 DEF Due, Idle, IdOf
  <2>4. SelectInv'
    BY <2>1, <2>3, SelectionStays
  <2> QED BY <2>2, <2>4 DEF TreeSteps
<1>11. CASE \E d \in Directions : NavigateListCommand(d)
  <2>1. PICK d \in Directions : NavigateListCommand(d)
    BY <1>11
  <2>2. /\ Handle([cmd |-> "NavigateList", direction |-> d]) /\ chat' = NavigateList(chat, d)
        /\ UNCHANGED <<manager, toSend, asked, task, raced, session>>
    BY <2>1 DEF NavigateListCommand, uiVars, llmVars
  <2>3. /\ Sound(chat') /\ chat'.msgs = chat.msgs /\ chat'.path = chat.path
        /\ chat'.current \in ToSet(chat.path)
    BY <1>0, <2>2, NavigateSound
  <2> QED BY <2>2, <2>3, HandledTree, SessionsStay
<1>12. CASE \E m \in Ids : DeleteNodeCommand(m) \/ DeleteMessageCommand(m)
  BY <1>12, DeleteTree
<1> QED BY <1>1, <1>2, <1>3, <1>4, <1>5, <1>6, <1>7, <1>8, <1>9, <1>10, <1>11, <1>12
        DEF StateManager

(***************************************************************************)
(* The steps of the others.                                                *)
(***************************************************************************)

LEMMA InterfaceTree ==
  ASSUME Inv, TreeInv, SelectInv, Interface
  PROVE  TreeSteps
<1>1. CASE \E q \in Questions : Submit(q)
  <2>1. PICK q \in Questions : Submit(q)
    BY <1>1
  <2>2. UNCHANGED <<chat, manager, task, raced>>
    BY <2>1 DEF Submit
  <2> QED BY <2>1, <2>2, SubmitTree, SelectionSame DEF TreeSteps
<1>2. CASE SendNext
  <2>1. UNCHANGED <<chat, manager, task, raced>>
    BY <1>2 DEF SendNext
  <2> QED BY <1>2, <2>1, SendNextTree, SelectionSame DEF TreeSteps
<1>3. ASSUME NEW c, c.cmd \in {"NavigateList", "Delete"}, Key(c) PROVE TreeSteps
  <2>1. UNCHANGED <<chat, manager, task, raced>>
    BY <1>3 DEF Key
  <2> QED BY <1>3, <2>1, KeyTree, SelectionSame DEF TreeSteps
<1>4. CASE \E d \in Directions : Move(d)
  BY <1>3, <1>4 DEF Move
<1>5. CASE \E what \in {"node", "subtree"} : Delete(what)
  BY <1>3, <1>5 DEF Delete
<1> QED BY <1>1, <1>2, <1>4, <1>5 DEF Interface

LEMMA LlmManagerTree ==
  ASSUME Inv, TreeInv, SelectInv, HandleRequest \/ HandlePrompt
  PROVE  TreeSteps
<1>1. UNCHANGED <<chat, queue, manager, task, raced, toSend, asked>>
  BY DEF HandleRequest, HandlePrompt, uiVars
<1>2. SessionsGo
  <2>1. CASE HandleRequest
    BY <2>1, SessionsStay DEF HandleRequest
  <2>2. CASE HandlePrompt
    <3> DEFINE q == Head(events).parent
    <3>1. CASE q \notin pending
      BY <2>2, <3>1, SessionsStay DEF HandlePrompt, KeepPrompt
    <3>2. CASE q \in pending
      <4>1. session' = [session EXCEPT ![q] = "paired"]
        BY <2>2, <3>2 DEF HandlePrompt
      <4>2. q \in Questions /\ session[q] = "none"
        BY <3>2 DEF Inv, Shape, OnePlace, SessionSound
      <4> HIDE DEF q
      <4>3. session'[q] = "paired" /\ \A p \in Questions \ {q} : session'[p] = session[p]
        BY <4>1, <4>2 DEF Inv, Shape
      <4> QED BY <4>2, <4>3 DEF SessionsGo, Before
    <3> QED BY <3>1, <3>2
  <2> QED BY <2>1, <2>2
<1>3. Comes({})
  BY <1>1 DEF Comes, TreeInv
<1> QED BY <1>1, <1>2, <1>3, QuietStep, SelectionSame DEF TreeSteps

LEMMA TaskTree ==
  ASSUME Inv, TreeInv, SelectInv, NEW n \in Notes, Task(n),
         task \in [Notes -> {"idle", "select", "done"}]
  PROVE  TreeSteps
<1> DEFINE m == IdOf("note", n)
<1>0. Sound(chat) /\ m \in Ids /\ m # NoMessage
  BY IdsAssumption DEF TreeInv, IdOf, Ids, Fresh
<1>1. /\ \A role \in Roles : \A q : IdOf(role, q) # m
      /\ \A k \in Notes : IdOf("note", k) = m => k = n
  BY DEF IdOf, Roles
<1>2. ASSUME Comes({m}), UNCHANGED <<queue, toSend, asked, session>>,
             task'[n] # "idle", \A k \in Notes \ {n} : task'[k] = task[k]
      PROVE  TreeInv'
  <2> HIDE DEF m
  <2>1. \A role \in Roles, q \in Questions : Moves(role, q)
    BY <1>1, <1>2, MovesSame, SessionsStay
  <2> QED BY <1>0, <1>1, <1>2, <2>1, TreeStep
<1>3. CASE TaskAdds(n)
  <2>1. /\ task[n] = "idle" /\ Grow(chat.current, m, SysInfo(Unpinned), FALSE)
        /\ task' = [task EXCEPT ![n] = IF Exists(chat, chat.current) THEN "select" ELSE "done"]
        /\ UNCHANGED <<queue, toSend, asked, session, manager>>
    BY <1>3 DEF TaskAdds, uiVars, llmVars
  <2>2. ~Exists(chat, m) /\ Loose(SysInfo(Unpinned))
    BY <2>1, LooseMessages DEF TreeInv
  <2>3. task'[n] # "idle" /\ \A k \in Notes \ {n} : task'[k] = task[k]
    BY <2>1
  <2>4. Comes({m})
    <3> HIDE DEF m
    <3> QED BY <1>0, <2>1, <2>2, GrowSound
  <2>5. TreeInv'
    BY <1>2, <2>1, <2>3, <2>4
  <2>6. Due' \subseteq Due \cup (IF Exists(chat, chat.current) THEN {m} ELSE {})
    <3>1. \A k \in Notes : task'[k] = "select" => task[k] = "select" \/
                           (k = n /\ Exists(chat, chat.current))
      BY <2>1
    <3>2. manager' = manager
      BY <2>1
    <3> QED BY <3>1, <3>2 DEF Due, IdOf
  <2>7. SelectInv'
    <3> HIDE DEF m
    <3> QED BY <1>0, <2>1, <2>2, <2>6, SelectionGrows
  <2> QED BY <2>5, <2>7 DEF TreeSteps
<1>4. CASE TaskSelects(n)
  <2>1. /\ task[n] = "select" /\ task' = [task EXCEPT ![n] = "done"]
        /\ chat' = [chat EXCEPT !.current = m]
        /\ UNCHANGED <<queue, toSend, asked, session, manager, raced>>
    BY <1>4 DEF TaskSelects, uiVars, llmVars
  <2>2. /\ Comes({}) /\ chat'.path = chat.path /\ chat'.msgs = chat.msgs /\ chat'.current = m
    BY <1>0, <2>1, SelectComes
  <2>3. \A k \in Notes : /\ task'[k] = "idle" => task[k] = "idle"
                         /\ task'[k] = "select" => task[k] = "select"
    BY <2>1
  <2>4. TreeInv'
    BY <2>1, <2>2, <2>3, SessionsStay, QuietStep
  <2>5. Due' \subseteq Due /\ m \in Due
    BY <2>1, <2>3 DEF Due, IdOf
  <2>6. SelectInv'
    BY <2>1, <2>2, <2>5, SelectionStays
  <2> QED BY <2>4, <2>6 DEF TreeSteps
<1>5. CASE TaskAddsInBackground(n)
  <2>1. /\ task[n] = "idle" /\ task' = [task EXCEPT ![n] = "done"]
        /\ chat' = AddInBackground(chat, chat.current, m, SysInfo(Leased))
        /\ UNCHANGED <<queue, toSend, asked, session, manager, raced>>
    BY <1>5 DEF TaskAddsInBackground, uiVars, llmVars
  <2>2. ~Exists(chat, m) /\ Loose(SysInfo(Leased))
    BY <2>1, LooseMessages DEF TreeInv
  <2>3. /\ Sound(chat') /\ DOMAIN chat'.msgs \subseteq DOMAIN chat.msgs \cup {m}
        /\ DOMAIN chat.msgs \subseteq DOMAIN chat'.msgs
        /\ chat'.current = chat.current /\ chat'.path = chat.path
    <3> HIDE DEF m
    <3>1. CASE Exists(chat, chat.current)
      BY <1>0, <2>1, <2>2, <3>1, AddInBackgroundSound
    <3>2. CASE ~Exists(chat, chat.current)
      BY <1>0, <2>1, <3>2 DEF AddInBackground
    <3> QED BY <3>1, <3>2
  <2>4. \A k \in Notes : task'[k] = "select" => task[k] = "select"
    BY <2>1
  <2>5. TreeInv'
    <3>1. Comes({m})
      BY <2>3 DEF Comes
    <3>2. task'[n] # "idle" /\ \A k \in Notes \ {n} : task'[k] = task[k]
      BY <2>1
    <3> QED BY <1>2, <2>1, <3>1, <3>2
  <2>6. Due' \subseteq Due
    BY <2>1, <2>4 DEF Due, IdOf
  <2>7. SelectInv'
    BY <2>1, <2>3, <2>6, SelectionStays
  <2> QED BY <2>5, <2>7 DEF TreeSteps
<1> QED BY <1>3, <1>4, <1>5 DEF Task

(***************************************************************************)
(* The other parts of TypeOK.                                              *)
(***************************************************************************)

\* What is announced to the LLM manager was added, and was submitted before.
AddedInv ==
  /\ added \subseteq 1 .. asked /\ ready \subseteq added
  /\ \A q \in Questions : Announced(q) => q \in added

\* A prompt is made of messages.
PromptInv ==
  /\ manager.step = "prompt" => manager.messages \subseteq Ids
  /\ \A i \in DOMAIN events :
       events[i].event = "PromptConstructed" => events[i].messages \subseteq Ids
  /\ included \in [Questions -> SUBSET Ids]

TypeInv ==
  /\ Len(queue) <= QueueCap /\ Len(toSend) <= 3
  /\ manager.step \in {"idle", "select", "reselect", "prompt"}
  /\ task \in [Notes -> {"idle", "select", "done"}]
  /\ AddedInv /\ PromptInv

LEMMA LengthAt ==
  ASSUME NEW s, IsSequence(s)
  PROVE  /\ Len(s) \in Nat /\ \A x : Len(Append(s, x)) = Len(s) + 1
         /\ s # <<>> => Len(Tail(s)) = Len(s) - 1
<1> DEFINE S == { s[i] : i \in DOMAIN s }
<1>1. s \in Seq(S)
  BY DEF IsSequence
<1>2. ASSUME NEW x PROVE Len(Append(s, x)) = Len(s) + 1
  <2> DEFINE T == S \cup {x}
  <2>1. s \in Seq(T) /\ x \in T
    <3> HIDE DEF S
    <3> QED BY <1>1, SeqMonotonic
  <2> HIDE DEF T
  <2> QED BY <2>1, AppendProperties
<1> HIDE DEF S
<1>3. Len(s) \in Nat
  BY <1>1, LenProperties
<1>4. s # <<>> => Len(Tail(s)) = Len(s) - 1
  BY <1>1, HeadTailProperties
<1> QED BY <1>2, <1>3, <1>4

\* A command goes in where there is room, or the next one is taken out.
QueueMoves ==
  \/ queue' = queue
  \/ queue # <<>> /\ queue' = Tail(queue)
  \/ Len(queue) < QueueCap /\ \E c : queue' = Append(queue, c)

LEMMA QueueBounded ==
  ASSUME Inv, TypeInv, QueueMoves
  PROVE  Len(queue') <= QueueCap
<1>1. IsSequence(queue) /\ Len(queue) <= QueueCap /\ QueueCap \in Nat
  BY ConversationAssumption DEF Inv, Shape, TypeInv
<1>2. CASE queue' = queue
  BY <1>1, <1>2
<1>3. CASE queue # <<>> /\ queue' = Tail(queue)
  <2>1. Len(queue') = Len(queue) - 1 /\ Len(queue) \in Nat
    BY <1>1, <1>3, LengthAt
  <2> QED BY <1>1, <2>1
<1>4. CASE Len(queue) < QueueCap /\ \E c : queue' = Append(queue, c)
  <2>1. Len(queue') = Len(queue) + 1 /\ Len(queue) \in Nat
    BY <1>1, <1>4, LengthAt
  <2> QED BY <1>1, <1>4, <2>1
<1> QED BY <1>2, <1>3, <1>4 DEF QueueMoves

\* A step that keeps what AddedInv and PromptInv are about.
TypeSame ==
  /\ UNCHANGED <<toSend, asked, added, events, pending, ready, starts>>
  /\ QueueMoves
  /\ manager' = manager \/ manager'.step \in {"idle", "select", "reselect"}
  /\ included' \in [Questions -> SUBSET Ids]
  /\ task' \in [Notes -> {"idle", "select", "done"}]

LEMMA TypeSameKeeps ==
  ASSUME Inv, TypeInv, TypeSame
  PROVE  TypeInv'
<1>1. Len(queue') <= QueueCap
  BY QueueBounded DEF TypeSame
<1>2. \A q : Announced(q)' <=> Announced(q)
  BY DEF TypeSame, Announced
<1>3. AddedInv'
  BY <1>2 DEF TypeSame, TypeInv, AddedInv
<1>4. PromptInv'
  <2>1. manager'.step = "prompt" => manager' = manager
    BY DEF TypeSame
  <2> QED BY <2>1 DEF TypeSame, TypeInv, PromptInv
<1>5. manager'.step \in {"idle", "select", "reselect", "prompt"}
  BY DEF TypeSame, TypeInv
<1> QED BY <1>1, <1>3, <1>4, <1>5 DEF TypeSame, TypeInv

LEMMA HandleMoves ==
  ASSUME NEW c, Handle(c)
  PROVE  QueueMoves
  BY DEF Handle, QueueMoves

LEMMA PromptIsThere ==
  ASSUME TreeInv
  PROVE  Prompt(chat) \subseteq Ids
  BY DEF Prompt, OnCurrentPath, Exists, TreeInv

LEMMA SubmitType ==
  ASSUME Inv, TypeInv, NEW q \in Questions, Submit(q)
  PROVE  TypeInv'
<1>1. /\ asked \in Nat /\ asked' = asked + 1 /\ Len(toSend') = 3
      /\ UNCHANGED <<queue, manager, task, added, events, pending, ready, starts, included>>
  BY DEF Inv, Shape, Submit, llmVars
<1>2. \A r : Announced(r)' <=> Announced(r)
  BY <1>1 DEF Announced
<1>3. AddedInv'
  BY <1>1, <1>2 DEF TypeInv, AddedInv
<1>4. PromptInv'
  BY <1>1 DEF TypeInv, PromptInv
<1> QED BY <1>1, <1>3, <1>4 DEF TypeInv

LEMMA SendNextType ==
  ASSUME Inv, TypeInv, SendNext
  PROVE  TypeInv'
<1>1. /\ toSend # <<>> /\ toSend' = Tail(toSend) /\ IsSequence(toSend) /\ Len(toSend) <= 3
      /\ UNCHANGED <<manager, task, asked, added, events, pending, ready, starts, included>>
  BY SeqIsSequence DEF Inv, Shape, SendNext, TypeInv, llmVars
<1>2. Len(toSend') <= 3
  <2>1. Len(toSend') = Len(toSend) - 1 /\ Len(toSend) \in Nat
    BY <1>1, LengthAt
  <2> QED BY <1>1, <2>1
<1>3. Len(queue') <= QueueCap
  <2>1. QueueMoves
    BY DEF SendNext, QueueMoves
  <2> QED BY <2>1, QueueBounded
<1>4. \A r : Announced(r)' <=> Announced(r)
  BY <1>1 DEF Announced
<1>5. AddedInv'
  BY <1>1, <1>4 DEF TypeInv, AddedInv
<1>6. PromptInv'
  BY <1>1 DEF TypeInv, PromptInv
<1> QED BY <1>1, <1>2, <1>3, <1>5, <1>6 DEF TypeInv

LEMMA AddUserMessageType ==
  ASSUME Inv, TypeInv, NEW q \in Questions, AddUserMessage(q)
  PROVE  TypeInv'
<1>1. /\ Handle([cmd |-> "AddUserMessage", q |-> q])
      /\ manager'.step \in {"idle", "select"} /\ added' \in {added, added \cup {q}}
      /\ UNCHANGED <<toSend, task, asked, events, pending, ready, starts, included>>
  BY DEF AddUserMessage, AddThenSelect, Idle, uiVars, llmVars
<1>2. q \in 1 .. asked
  <2>1. IsSequence(queue) /\ queue # <<>> /\ Head(queue) \in Adds(q)
    BY <1>1 DEF Handle, Inv, Shape, Adds
  <2>2. In(queue, Adds(q))
    BY <2>1, TailIn
  <2>3. ~(asked < q)
    BY <2>2 DEF Inv, OnePlace
  <2>4. asked \in Nat /\ q \in Nat \ {0}
    BY ConversationAssumption DEF Inv, Shape, Questions
  <2> QED BY <2>3, <2>4
<1>3. Len(queue') <= QueueCap
  BY <1>1, HandleMoves, QueueBounded
<1>4. \A r : Announced(r)' <=> Announced(r)
  BY <1>1 DEF Announced
<1>5. AddedInv'
  BY <1>1, <1>2, <1>4 DEF TypeInv, AddedInv
<1>6. PromptInv'
  BY <1>1 DEF TypeInv, PromptInv
<1> QED BY <1>1, <1>3, <1>5, <1>6 DEF TypeInv

LEMMA SelectAddedType ==
  ASSUME Inv, TypeInv, SelectAdded
  PROVE  TypeInv'
<1> DEFINE q == manager.msg[2]
           r == [event |-> "Request", parent |-> q]
<1>1. /\ manager.step = "select" /\ manager' = Idle /\ IsSequence(events)
      /\ UNCHANGED <<queue, toSend, task, asked, pending, ready, starts, included>>
  BY DEF SelectAdded, uiVars, Inv, Shape
<1>2. CASE manager.msg[1] = "question"
  <2>1. events' = Append(events, r) /\ added' = added \cup {q}
    BY <1>2 DEF SelectAdded
  <2>2. q \in Questions /\ Selecting(q)
    <3>1. PICK p \in Questions : manager.msg \in {IdOf("question", p), IdOf("more", p)}
      BY <1>1 DEF Inv, Shape
    <3>2. manager.msg = IdOf("question", p)
      BY <1>2, <3>1 DEF IdOf
    <3> QED BY <1>1, <3>2 DEF IdOf, Selecting
  <2> HIDE DEF q
  <2>3. q \in 1 .. asked
    <3>1. ~(asked < q)
      BY <2>2 DEF Inv, OnePlace
    <3>2. asked \in Nat /\ q \in Nat \ {0}
      BY <2>2, ConversationAssumption DEF Inv, Shape, Questions
    <3> QED BY <3>1, <3>2
  <2>4. ASSUME NEW p \in Questions, Announced(p)' PROVE p \in added'
    <3>1. In(events', Requests(p)) => In(events, Requests(p)) \/ r \in Requests(p)
      BY <1>1, <2>1, AppendIn
    <3>2. r \in Requests(p) => p = q
      BY DEF Requests
    <3>3. Announced(p) \/ p = q
      BY <1>1, <2>4, <3>1, <3>2 DEF Announced
    <3> QED BY <2>1, <3>3 DEF TypeInv, AddedInv
  <2>5. AddedInv'
    BY <1>1, <2>1, <2>3, <2>4 DEF TypeInv, AddedInv
  <2>6. PromptInv'
    <3>1. /\ DOMAIN events = 1 .. Len(events) /\ Len(events) \in Nat
          /\ DOMAIN events' = 1 .. Len(events) + 1
          /\ events'[Len(events) + 1] = r
          /\ \A i \in DOMAIN events : events'[i] = events[i]
      BY <1>1, <2>1, AppendAt
    <3>2. r.event # "PromptConstructed"
      OBVIOUS
    <3> HIDE DEF r
    <3> QED BY <1>1, <3>1, <3>2 DEF TypeInv, PromptInv, Idle
  <2> QED BY <1>1, <2>5, <2>6 DEF TypeInv, Idle
<1>3. CASE manager.msg[1] # "question"
  <2>1. UNCHANGED <<events, added>>
    BY <1>3 DEF SelectAdded
  <2>2. TypeSame
    BY <1>1, <2>1 DEF TypeSame, QueueMoves, TypeInv, PromptInv, Idle
  <2> QED BY <2>2, TypeSameKeeps
<1> QED BY <1>2, <1>3

LEMMA EmbedType ==
  ASSUME Inv, TreeInv, TypeInv, NEW q \in Questions, EmbedMessage(q)
  PROVE  TypeInv'
<1>1. /\ Handle([cmd |-> "EmbedMessage", q |-> q])
      /\ UNCHANGED <<toSend, task, asked, added, events, pending, ready, starts, included>>
  BY DEF EmbedMessage, uiVars, llmVars
<1>2. \/ manager' = manager
      \/ manager'.step = "prompt" /\ manager'.messages \subseteq Ids
  <2>1. CASE manager' = [step |-> "prompt", parent |-> LastUserMessage(chat)[2],
                         messages |-> Prompt(chat)]
    BY <2>1, PromptIsThere
  <2>2. CASE manager' = manager
    BY <2>2
  <2> QED BY <2>1, <2>2 DEF EmbedMessage
<1>3. Len(queue') <= QueueCap
  BY <1>1, HandleMoves, QueueBounded
<1>4. \A r : Announced(r)' <=> Announced(r)
  BY <1>1 DEF Announced
<1>5. AddedInv'
  BY <1>1, <1>4 DEF TypeInv, AddedInv
<1>6. PromptInv'
  BY <1>1, <1>2 DEF TypeInv, PromptInv
<1> QED BY <1>1, <1>2, <1>3, <1>5, <1>6 DEF TypeInv

LEMMA SendPromptType ==
  ASSUME Inv, TypeInv, SendPrompt
  PROVE  TypeInv'
<1> DEFINE e == [event |-> "PromptConstructed", parent |-> manager.parent,
                 messages |-> manager.messages]
<1>1. /\ manager.step = "prompt" /\ manager' = Idle /\ events' = Append(events, e)
      /\ IsSequence(events)
      /\ UNCHANGED <<queue, toSend, task, asked, added, pending, ready, starts, included>>
  BY DEF SendPrompt, uiVars, Inv, Shape
<1>2. e.event = "PromptConstructed" /\ e.messages \subseteq Ids /\ \A p : e \notin Requests(p)
  BY <1>1 DEF TypeInv, PromptInv, Requests
<1> HIDE DEF e
<1>3. ASSUME NEW p \in Questions, Announced(p)' PROVE p \in added
  <2>1. In(events', Requests(p)) => In(events, Requests(p))
    BY <1>1, <1>2, AppendIn
  <2> QED BY <1>1, <1>3, <2>1 DEF Announced, TypeInv, AddedInv
<1>4. AddedInv'
  BY <1>1, <1>3 DEF TypeInv, AddedInv
<1>5. PromptInv'
  <2>1. /\ DOMAIN events = 1 .. Len(events) /\ Len(events) \in Nat
        /\ DOMAIN events' = 1 .. Len(events) + 1
        /\ events'[Len(events) + 1] = e
        /\ \A i \in DOMAIN events : events'[i] = events[i]
    BY <1>1, AppendAt
  <2> QED BY <1>1, <1>2, <2>1 DEF TypeInv, PromptInv, Idle
<1> QED BY <1>1, <1>4, <1>5 DEF TypeInv, Idle

LEMMA LlmManagerType ==
  ASSUME Inv, TypeInv, HandleRequest \/ HandlePrompt
  PROVE  TypeInv'
<1> DEFINE q == Head(events).parent
<1>1. /\ events # <<>> /\ events' = Tail(events) /\ IsSequence(events)
      /\ UNCHANGED <<queue, toSend, task, asked, added, manager>>
  BY DEF HandleRequest, HandlePrompt, Receive, uiVars, Inv, Shape
<1>2. /\ DOMAIN events = 1 .. Len(events) /\ Len(events) \in Nat \ {0}
      /\ DOMAIN events' = 1 .. Len(events) - 1
      /\ Head(events) = events[1]
      /\ \A i \in DOMAIN events' : events'[i] = events[i + 1]
  BY <1>1, TailAt
<1>3. 1 \in DOMAIN events /\ q \in Questions
  BY <1>2 DEF Inv, Shape
<1>4. \A p : In(events', Requests(p)) => In(events, Requests(p))
  BY <1>1, TailIn
<1>5. \A i \in DOMAIN events' : i + 1 \in DOMAIN events /\ events'[i] = events[i + 1]
  BY <1>2
<1> HIDE DEF q
<1>6. CASE HandleRequest
  <2>1. Head(events).event = "Request" /\ pending' = pending \cup {q}
        /\ UNCHANGED <<ready, starts, included>>
    BY <1>6 DEF HandleRequest, Receive, q
  <2>2. Announced(q)
    <3>1. events[1] \in Requests(q)
      BY <1>2, <1>3, <2>1 DEF Inv, Shape, q
    <3> QED BY <1>3, <3>1 DEF Announced, In
  <2>3. \A p \in Questions : Announced(p)' => Announced(p)
    BY <1>4, <2>1, <2>2 DEF Announced
  <2>4. AddedInv'
    BY <1>1, <2>1, <2>3 DEF TypeInv, AddedInv
  <2>5. PromptInv'
    BY <1>1, <1>5, <2>1 DEF TypeInv, PromptInv
  <2> QED BY <1>1, <2>4, <2>5 DEF TypeInv
<1>7. CASE HandlePrompt
  <2>1. Head(events).event = "PromptConstructed"
    BY <1>7 DEF HandlePrompt, Receive
  <2>2. Announced(q)
    <3>1. \/ q \in pending \/ starts[q] > 0
          \/ \E j \in 1 .. 1 - 1 : events[j] \in Requests(q)
      BY <1>2, <1>3, <2>1 DEF Inv, PromptsAnnounced, q
    <3>2. 1 .. 1 - 1 = {}
      OBVIOUS
    <3> QED BY <3>1, <3>2 DEF Announced
  <2>3. \/ /\ UNCHANGED <<pending, included, starts>> /\ ready' = ready \cup {q}
        \/ /\ pending' = pending \ {q} /\ ready' = ready
           /\ included' = [included EXCEPT ![q] = Head(events).messages]
           /\ starts' = [starts EXCEPT ![q] = @ + 1]
    BY <1>7 DEF HandlePrompt, KeepPrompt, q
  <2>4. Head(events).messages \subseteq Ids
    BY <1>2, <1>3, <2>1 DEF TypeInv, PromptInv
  <2>5. ready' \subseteq ready \cup {q} /\ pending' \subseteq pending
    BY <2>3
  <2>6. \A p \in Questions \ {q} : starts'[p] = starts[p]
    BY <2>3 DEF Inv, Shape
  <2>7. \A p \in Questions : Announced(p)' => Announced(p)
    BY <1>4, <2>2, <2>5, <2>6 DEF Announced
  <2>8. AddedInv'
    BY <1>1, <1>3, <2>2, <2>5, <2>7 DEF TypeInv, AddedInv
  <2>9. included' \in [Questions -> SUBSET Ids]
    BY <2>3, <2>4 DEF TypeInv, PromptInv
  <2>10. PromptInv'
    BY <1>1, <1>5, <2>9 DEF TypeInv, PromptInv
  <2> QED BY <1>1, <2>8, <2>10 DEF TypeInv
<1> QED BY <1>6, <1>7

LEMMA StateManagerType ==
  ASSUME Inv, TreeInv, TypeInv, StateManager
  PROVE  TypeInv'
<1>1. CASE \E q \in Questions : AddUserMessage(q)
  BY <1>1, AddUserMessageType
<1>2. CASE \E q \in Questions : EmbedMessage(q)
  BY <1>2, EmbedType
<1>3. CASE SelectAdded
  BY <1>3, SelectAddedType
<1>4. CASE SendPrompt
  BY <1>4, SendPromptType
<1>5. ASSUME TypeSame PROVE TypeInv'
  BY <1>5, TypeSameKeeps
<1>6. /\ task \in [Notes -> {"idle", "select", "done"}]
      /\ included \in [Questions -> SUBSET Ids]
  BY DEF TypeInv, PromptInv
<1>7. ASSUME NEW c, Handle(c),
             manager' = manager \/ manager'.step \in {"idle", "select", "reselect"},
             UNCHANGED <<toSend, asked, task, added, events, pending, ready, starts>>,
             included' \in [Questions -> SUBSET Ids]
      PROVE  TypeInv'
  BY <1>5, <1>6, <1>7, HandleMoves DEF TypeSame
<1>8. CASE \E q \in Questions : AddMessageImmediate(q)
  <2>1. PICK q \in Questions : AddMessageImmediate(q)
    BY <1>8
  <2>2. manager'.step \in {"idle", "select", "reselect"}
    BY <2>1 DEF AddMessageImmediate, AddThenSelect, Idle
  <2> QED BY <1>6, <1>7, <2>1, <2>2 DEF AddMessageImmediate, uiVars, llmVars
<1>9. CASE \E q \in Questions : AddMessage(q)
  BY <1>6, <1>7, <1>9 DEF AddMessage, uiVars, llmVars
<1>10. CASE \E q \in Questions : CreateAssistantMessage(q)
  BY <1>6, <1>7, <1>10 DEF CreateAssistantMessage, uiVars
<1>11. CASE \E q \in Questions : AddMessageTool(q)
  BY <1>6, <1>7, <1>11 DEF AddMessageTool, uiVars, llmVars
<1>12. CASE \E q \in Questions : DecrementChatTtl(q)
  <2>1. PICK q \in Questions : DecrementChatTtl(q)
    BY <1>12
  <2>2. included' \in [Questions -> SUBSET Ids]
    BY <1>6, <2>1 DEF DecrementChatTtl
  <2> QED BY <1>7, <2>1, <2>2 DEF DecrementChatTtl, uiVars
<1>13. CASE \E q \in Questions, status \in {"Completed", "Error"}, tokens \in 0 .. 1 :
              UpdateMessage(q, status, tokens)
  BY <1>6, <1>7, <1>13 DEF UpdateMessage, uiVars, llmVars
<1>14. CASE Reselect
  <2>1. manager'.step \in {"idle", "select", "reselect"}
    BY <1>14 DEF Reselect, Idle
  <2> QED BY <1>5, <1>6, <1>14, <2>1 DEF Reselect, TypeSame, QueueMoves, uiVars, llmVars
<1>15. CASE \E d \in Directions : NavigateListCommand(d)
  BY <1>6, <1>7, <1>15 DEF NavigateListCommand, uiVars, llmVars
<1>16. CASE \E m \in Ids : DeleteNodeCommand(m)
  BY <1>6, <1>7, <1>16 DEF DeleteNodeCommand, uiVars, llmVars
<1>17. CASE \E m \in Ids : DeleteMessageCommand(m)
  <2>1. PICK m \in Ids : DeleteMessageCommand(m)
    BY <1>17
  <2>2. manager'.step \in {"idle", "select", "reselect"}
    <3>1. CASE IsDeletable(chat, m)
      <4>1. manager'.step = "reselect"
        BY <2>1, <3>1 DEF DeleteMessageCommand
      <4> QED BY <4>1
    <3>2. CASE ~IsDeletable(chat, m)
      BY <2>1, <3>2 DEF DeleteMessageCommand, Idle
    <3> QED BY <3>1, <3>2
  <2> QED BY <1>6, <1>7, <2>1, <2>2 DEF DeleteMessageCommand, uiVars, llmVars
<1> QED BY <1>1, <1>2, <1>3, <1>4, <1>8, <1>9, <1>10, <1>11, <1>12, <1>13, <1>14, <1>15,
           <1>16, <1>17 DEF StateManager

LEMMA OthersType ==
  ASSUME Inv, TypeInv,
         \/ \E d \in Directions : Move(d)
         \/ \E what \in {"node", "subtree"} : Delete(what)
         \/ \E q \in Questions : Session(q)
         \/ \E n \in Notes : Task(n)
  PROVE  TypeInv'
<1>1. /\ task \in [Notes -> {"idle", "select", "done"}]
      /\ included \in [Questions -> SUBSET Ids]
  BY DEF TypeInv, PromptInv
<1>2. ASSUME NEW c, Key(c) PROVE TypeSame
  BY <1>1, <1>2 DEF Key, TypeSame, QueueMoves, llmVars
<1>3. ASSUME NEW q, NEW from, NEW to, NEW c, Command(q, from, to, c) PROVE TypeSame
  BY <1>1, <1>3 DEF Command, TypeSame, QueueMoves, uiVars
<1>4. ASSUME NEW q \in Questions, Session(q) PROVE TypeSame
  BY <1>3, <1>4 DEF Session, StartSession, ShowFirst, ShowTool, ShowMore, EndSession
<1>5. ASSUME NEW n \in Notes, Task(n) PROVE TypeSame
  BY <1>1, <1>5
  DEF Task, TaskAdds, TaskSelects, TaskAddsInBackground, TypeSame, QueueMoves, uiVars, llmVars
<1> QED BY <1>2, <1>4, <1>5, TypeSameKeeps DEF Move, Delete

(***************************************************************************)
(* Everything together.                                                    *)
(***************************************************************************)

WholeInv == Inv /\ TreeInv /\ SelectInv /\ TypeInv

LEMMA InitWhole == Init => WholeInv
<1> SUFFICES ASSUME Init PROVE WholeInv
  OBVIOUS
<1>0. DOMAIN chat.msgs = {Root} /\ Sound(chat) /\ chat.current = Root
  BY NewHistorySound, NewHistoryIsHistory DEF Init, NewHistory
<1>1. TreeInv
  <2>1. \A role, q : ~In(<<>>, Brings(role, q)) /\ Once(<<>>, Brings(role, q))
    BY DEF In, Once
  <2>2. \A role \in Roles, q \in Questions : ~Exists(chat, IdOf(role, q))
    BY <1>0, IdsAssumption DEF Exists, IdOf, Fresh
  <2>3. \A n \in Notes : ~Exists(chat, IdOf("note", n))
    BY <1>0, IdsAssumption DEF Exists, IdOf, Fresh
  <2>4. \A role \in Roles, q \in Questions : Waits(role, q)
    BY <2>1, <2>2 DEF Waits, Init
  <2> QED BY <1>0, <2>3, <2>4 DEF TreeInv, Ids
<1>2. Due = {} /\ manager.step = "idle"
  BY DEF Due, Init, Idle
<1>3. SelectInv
  <2>1. Root \in ToSet(chat.path)
    <3>1. chat.path = <<Root>>
      BY DEF Init, NewHistory
    <3> QED BY <3>1 DEF ToSet
  <2> QED BY <1>0, <1>2, <2>1 DEF SelectInv, Ids
<1>4. TypeInv
  <2>1. Len(queue) = 0 /\ Len(toSend) = 0 /\ QueueCap \in Nat
    BY ConversationAssumption DEF Init
  <2>2. \A q \in Questions : ~Announced(q)
    BY DEF Announced, Init, In
  <2>3. AddedInv
    BY <2>2 DEF AddedInv, Init
  <2>4. PromptInv
    BY <1>2 DEF PromptInv, Init
  <2> QED BY <1>2, <2>1, <2>3, <2>4 DEF TypeInv, Init
<1> QED BY <1>1, <1>3, <1>4, InitInv DEF WholeInv

LEMMA NextWhole == WholeInv /\ [Next]_vars => WholeInv'
<1> SUFFICES ASSUME Inv, TreeInv, SelectInv, TypeInv, [Next]_vars
             PROVE  Inv' /\ TreeInv' /\ SelectInv' /\ TypeInv'
  BY DEF WholeInv
<1>0. Inv'
  BY NextInv
<1>1. CASE Interface
  <2>1. TreeSteps
    BY <1>1, InterfaceTree
  <2>2. TypeInv'
    BY <1>1, SubmitType, SendNextType, OthersType DEF Interface
  <2> QED BY <1>0, <2>1, <2>2 DEF TreeSteps
<1>2. CASE StateManager
  <2>1. TreeSteps
    BY <1>2, StateManagerTree
  <2>2. TypeInv'
    BY <1>2, StateManagerType
  <2> QED BY <1>0, <2>1, <2>2 DEF TreeSteps
<1>3. CASE HandleRequest \/ HandlePrompt
  <2>1. TreeSteps
    BY <1>3, LlmManagerTree
  <2>2. TypeInv'
    BY <1>3, LlmManagerType
  <2> QED BY <1>0, <2>1, <2>2 DEF TreeSteps
<1>4. CASE \E q \in Questions : Session(q)
  <2>1. PICK q \in Questions : Session(q)
    BY <1>4
  <2>2. TreeInv'
    BY <2>1, SessionTree
  <2>3. SelectInv'
    <3>1. UNCHANGED <<chat, manager, task, raced>>
      BY <2>1 DEF Session, StartSession, ShowFirst, ShowTool, ShowMore, EndSession, Command
    <3> QED BY <3>1, SelectionSame
  <2>4. TypeInv'
    BY <1>4, OthersType
  <2> QED BY <1>0, <2>2, <2>3, <2>4
<1>5. CASE \E n \in Notes : Task(n)
  <2>1. task \in [Notes -> {"idle", "select", "done"}]
    BY DEF TypeInv
  <2>2. TreeSteps
    BY <1>5, <2>1, TaskTree
  <2>3. TypeInv'
    BY <1>5, OthersType
  <2> QED BY <1>0, <2>2, <2>3 DEF TreeSteps
<1>6. CASE UNCHANGED vars
  <2>1. /\ UNCHANGED <<chat, queue, manager, added, task, raced, toSend, asked, events, pending,
                       ready, session, included, starts>>
    BY <1>6 DEF vars, uiVars, llmVars
  <2>2. TreeInv'
    BY <2>1, SessionsStay, QuietStep DEF Comes, TreeInv
  <2>3. SelectInv'
    BY <2>1, SelectionSame
  <2>4. TypeInv'
    <3>1. TypeSame
      BY <2>1 DEF TypeSame, QueueMoves, TypeInv, PromptInv
    <3> QED BY <3>1, TypeSameKeeps
  <2> QED BY <1>0, <2>2, <2>3, <2>4
<1> QED BY <1>1, <1>2, <1>3, <1>4, <1>5, <1>6 DEF Next

\* All of it is inductive together.
THEOREM Together == Spec => []WholeInv
<1> QED BY InitWhole, NextWhole, PTL DEF Spec

\* Whatever add_child, add_msg_immediate_background, delete_message and delete_node do, in
\* whatever order the commands and the tasks come, the messages are a tree below the
\* system prompt, and path_cache is the path to a tail that is there.
THEOREM HistoryIsATree == Spec => []TreeSound
<1>1. WholeInv => TreeSound
  <2> SUFFICES ASSUME Sound(chat) PROVE TreeSound
    BY DEF WholeInv, TreeInv
  <2>1. Tree(chat.msgs)
    BY DEF Sound
  <2>2. \A m \in DOMAIN chat.msgs : Listed(chat.msgs, m) /\ Head(PathTo(chat, m)) = Root
    BY <2>1, PathShape DEF Tree, PathTo, Exists
  <2> QED BY <2>2 DEF TreeSound, Sound, Listed
<1> QED BY <1>1, Together, PTL

\* The state has its shape; no channel gets longer than it may.
THEOREM TypesKept == Spec => []TypeOK
<1>1. WholeInv => TypeOK
  <2> SUFFICES ASSUME Inv, TreeInv, SelectInv, TypeInv PROVE TypeOK
    BY DEF WholeInv
  <2>1. Root \in DOMAIN chat.msgs /\ chat.tail \in Ids
    BY DEF TreeInv, Sound, Tree, Exists
  <2>2. pending \subseteq added
    BY DEF Inv, Shape, TypeInv, AddedInv, Announced
  <2> QED BY <2>1, <2>2
          DEF TypeOK, Inv, Shape, Shown, TreeInv, SelectInv, TypeInv, AddedInv, PromptInv
<1> QED BY <1>1, Together, PTL

\* Only a deletion between the two steps of an add_msg_immediate can leave the selection
\* at a message that is gone, and without deletions and such gaps it is on the path.
THEOREM SelectionHolds == Spec => []SelectionSound
<1>1. WholeInv => SelectionSound
  BY DEF WholeInv, SelectInv, SelectionSound, Exists
<1> QED BY <1>1, Together, PTL
=============================================================================
