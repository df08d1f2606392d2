SPECIFICATION MapSpec
CONSTANTS
  NumKeys = 6
  HashRange = 8
  InitCapacity = 4
  LoadPercent = 60
CHECK_DEADLOCK FALSE
INVARIANTS MapFaithful IterationExact ProbeDistances
