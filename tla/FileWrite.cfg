CONSTANTS
  x = x
  y = y
  fa = fa
  fb = fb
  save = save
  undo = undo
  None = None
  Batches = {x, y}
  Requests <- TwiceOrTwoFiles
  Files = {fa, fb}
  Saves = {save, undo}
  Reverts = {undo}
  Cosmetic <- SecondOfX
  MaxCrashes = 1
SPECIFICATION FairSpec
INVARIANT TypeOK
INVARIANT OnePerVersion
PROPERTY StoreSpec
PROPERTY BatchEnds
CHECK_DEADLOCK FALSE
