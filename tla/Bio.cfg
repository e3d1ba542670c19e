CONSTANTS
  Types = {fsync, lazyfree}
  MaxJobs = 2
SPECIFICATION BioFairSpec
INVARIANTS PendingZeroMeansDone ProcessedInOrder
PROPERTIES NoWakeupLost
