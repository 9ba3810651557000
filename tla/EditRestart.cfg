CONSTANTS
  c1 = c1
  c2 = c2
  c3 = c3
  fa = fa
  fb = fb
  Commander = Commander
  None = None
  Torn = Torn
  UsizeMax = 99
  Calls = {c1}
  NsCalls = {}
  Reqs = {1}
  ReqOf <- OwnRequest
  Files = {fa, fb}
  EditsOf <- TwoFiles
  Cosmetic <- SecondEdit
  AutoCalls = {c1}
  MaxVersion = 1
  MaxCommands = 1
  MaxCrashes = 1
SPECIFICATION FairSpec
INVARIANT TypeOK
INVARIANT AtMostOnce
INVARIANT AppliedIsSettled
PROPERTY EveryCallAnswered
PROPERTY CommandsEnd
CHECK_DEADLOCK FALSE
