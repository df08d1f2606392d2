SPECIFICATION Spec
CONSTANTS
  JFirst = 1
  JLast = 7
  Word = 256
  MaxTransRatio = 4
  MinBatchBlocks = 0
  MetadataOverhead = 0
  DescriptorRatio = 32
  CommitMargin = 2
  LowWaterRatio = 8
  b1 = b1
  b2 = b2
  c1 = c1
  c2 = c2
  Blocks = {b1, b2}
  Clients = {c1}
  Program <- Lifetime
  Kjournald = Kjournald
  Pager = Pager
  NodeWriter = NodeWriter
  InCore = {}
  MaxTid = 7
  LifeboatCapacity = 4
  MaxDeferred = 2
  TagsPerDescriptor = 2
  WriteCache = FALSE
  Writeback = FALSE
  Evicts = FALSE
  WriteErrors = FALSE
CHECK_DEADLOCK FALSE
INVARIANTS TypeOK ReplayedAreLive PendingReplays SyncSurvives CleanUnmount
