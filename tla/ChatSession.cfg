CONSTANTS
  a = a
  b = b
  Calls = {a, b}
  Batches <- OneOrBoth
  SilentCalls = {b}
  Cap = 2
  ChainLimit = 2
  LengthLimit = 0
  ErrorLimit = 0
  TimeoutLimit = 0
  MaxTraffic = 1
  MaxCancels = 1
SPECIFICATION FairSpec
INVARIANT TypeOK
INVARIANT ConversationComplete
INVARIANT NoForeignAnswer
INVARIANT SessionClosed
PROPERTY CancelEnds
PROPERTY EndsIfAnswered
CHECK_DEADLOCK FALSE
