SPECIFICATION FairSpec
CONSTANTS
  Consumers = {c1, c2}
  None = None
  Length = 3
  Malformed = {3}
  Unhandled = {2}
  IgnoreMissing = TRUE
  MaxRebalances = 3
  MaxFaults = 2
INVARIANTS TypeOK PassedOverLeavesTrace HandledOnceUnlessDisturbed
PROPERTIES ProcessedIsFinal PartitionAdvances
CHECK_DEADLOCK FALSE
