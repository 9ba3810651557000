CONSTANTS
  c1 = c1
  c2 = c2
  c3 = c3
  fa = fa
  fb = fb
  Commander = Commander
  None = None
  Torn = Torn
  UsizeMax = 99
  Calls = {c1, c2}
  NsCalls = {}
  Reqs = {1, 2}
  ReqOf <- OwnRequest
  Files = {fa}
  EditsOf <- OneFile
  Cosmetic = {}
  AutoCalls = {}
  MaxVersion = 0
  MaxCommands = 2
  MaxCrashes = 0
SPECIFICATION Spec
INVARIANT BulkPlanSound
PROPERTY ResolvedIsFinal
PROPERTY DeniedStaysDiscarded
CHECK_DEADLOCK FALSE
