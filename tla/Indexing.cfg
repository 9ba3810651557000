CONSTANTS
  f1 = f1
  f2 = f2
  ma = ma
  mb = mb
  mc = mc
  Nodes = {1, 2, 3, 4}
  Files = {f1, f2}
  Models = {ma, mb, mc}
  Kinds = 2
  FileOf <- File
  KindOf <- Kind
  PresentIn <- Present
  Versions = 3
  HashOf <- Hashes
  Dims <- Lengths
  Runs = {1, 2}
  BatchSize = 2
  MaxUpsets = 2
  FirstModel = ma
  Edited = {f1}
  Commands = {"index", "scan", "update", "switch"}
SPECIFICATION FairSpec
INVARIANT TypeOK
PROPERTY CompletedAccounts
PROPERTY CancelledIsHonest
INVARIANT LiveIsCurrent
INVARIANT OwnModel
INVARIANT VerdictIsOwn
PROPERTY UpdateEnds
CHECK_DEADLOCK FALSE
