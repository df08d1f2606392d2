SPECIFICATION Spec
CONSTANTS
  JFirst = 1
  JLast = 12
  Word = 256
  MaxTransRatio = 4
  MinBatchBlocks = 2
  MetadataOverhead = 2
  DescriptorRatio = 32
  CommitMargin = 2
  LowWaterRatio = 8
  b1 = b1
  b2 = b2
  c1 = c1
  c2 = c2
  Blocks = {b1, b2}
  Clients = {c1, c2}
  Program <- Crowded
  Kjournald = Kjournald
  Pager = Pager
  NodeWriter = NodeWriter
  InCore = {}
  MaxTid = 5
  LifeboatCapacity = 4
  MaxDeferred = 2
  TagsPerDescriptor = 2
  WriteCache = FALSE
  Writeback = FALSE
  Evicts = FALSE
  WriteErrors = FALSE
CHECK_DEADLOCK FALSE
INVARIANTS PendingReplays
