SPECIFICATION Spec
CONSTANTS
  JFirst = 1
  JLast = 7
  Word = 256
  MaxTransRatio = 4
  MinBatchBlocks = 0
  MetadataOverhead = 0
  DescriptorRatio = 1
  CommitMargin = 2
  LowWaterRatio = 8
  b1 = b1
  b2 = b2
  c1 = c1
  c2 = c2
  Blocks = {b1, b2}
  Clients = {c1}
  Program <- TwiceTwoBlocks
  Kjournald = Kjournald
  Pager = Pager
  NodeWriter = NodeWriter
  InCore = {}
  MaxTid = 3
  LifeboatCapacity = 4
  MaxDeferred = 2
  TagsPerDescriptor = 1
  WriteCache = TRUE
  Writeback = FALSE
  Evicts = TRUE
  WriteErrors = FALSE
CHECK_DEADLOCK FALSE
INVARIANTS ReplayFaithful LogIntact
