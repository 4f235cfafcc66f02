CONSTANTS
  SyncMs = 2
  RetryMs = 2
  FaultMs = 1
  AnnLeft = {0, 2}
  SeqSize = 3
  QueueSize = 1
  Frames <- MCFrames
SPECIFICATION FairSpec
INVARIANTS
  SlaveNeverMaster
  EveryFrameStamped
PROPERTIES
  SyncSpacing
  IsSource
  IsFairSource
