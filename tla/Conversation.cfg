CONSTANTS
  n1 = n1
  Root = Root
  NoMessage = NoMessage
  Ttl = 1
  LeasedCap = 2
  MaxQuestions = 2
  Answered = {1}
  Notes = {n1}
  Outcomes <- TextOnly
  QueueCap = 1
  Keys = {"Up", "node", "subtree"}
  MaxKeys = 1
SPECIFICATION Spec
INVARIANT TypeOK
INVARIANT TreeSound
INVARIANT SelectionSound
INVARIANT OneSessionPerQuestion
INVARIANT AnswersClosed
INVARIANT NoPromptStranded
CHECK_DEADLOCK FALSE
