CONSTANTS
  f1 = f1
  m = m
  question = question
  tool = tool
  Nodes = {1, 2, 3}
  Files = {f1}
  Models = {m}
  Kinds = 2
  FileOf <- File
  KindOf <- Kind
  PresentIn <- Present
  Versions = 3
  HashOf <- Hashes
  Dims <- Length
  Requests = {question, tool}
  Questions = {question}
  Strategies = {"dense", "sparse", "strict", "hybrid"}
  FirstLive = {2, 3}
  Near <- Nearest
  Match <- Matching
  TopK = 2
  Retries = 1
  ChannelCap = 1
  Edited = {f1}
  MaxRebuilds = 1
SPECIFICATION FairSpec
INVARIANT TypeOK
PROPERTY RebuildHeard
 
PROPERTY LabelsTrue
PROPERTY SearchEnds
CHECK_DEADLOCK FALSE
