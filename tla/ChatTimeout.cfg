CONSTANTS
  a = a
  b = b
  Calls = {a, b}
  Batches <- OneOrBoth
  SilentCalls = {b}
  Cap = 9
  ChainLimit = 2
  LengthLimit = 1
  ErrorLimit = 1
  TimeoutLimit = 1
  MaxTraffic = 0
  MaxCancels = 0
SPECIFICATION FairSpec
PROPERTY DeadlineHolds
CHECK_DEADLOCK FALSE
