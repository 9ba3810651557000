CONSTANTS
  x = x
  y = y
  fa = fa
  fb = fb
  save = save
  undo = undo
  None = None
  Batches = {x}
  Requests <- OneEach
  Files = {fa}
  Saves = {save}
  Reverts = {}
  Cosmetic <- ACommentSaved
  MaxCrashes = 0
SPECIFICATION Spec
INVARIANT SplicesWhatItWasMadeFor
CHECK_DEADLOCK FALSE
