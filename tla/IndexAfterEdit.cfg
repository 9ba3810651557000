CONSTANTS
  f1 = f1
  f2 = f2
  ma = ma
  mb = mb
  mc = mc
  Nodes = {1, 2, 3, 4}
  Files = {f1, f2}
  Models = {ma}
  Kinds = 2
  FileOf <- File
  KindOf <- Kind
  PresentIn <- Steady
  Versions = 2
  HashOf <- Distinct
  Dims <- Lengths
  Runs = {1, 2}
  BatchSize = 2
  MaxUpsets = 1
  FirstModel = ma
  Edited = {f1}
  Commands = {"index", "update"}
SPECIFICATION Spec
INVARIANT UpdateReEmbeds
CHECK_DEADLOCK FALSE
