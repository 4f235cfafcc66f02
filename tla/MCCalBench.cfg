CONSTANTS
  SyncMs = 2
  RetryMs = 2
  FaultMs = 1
  AnnLeft = {0}
  SeqSize = 5
  QueueSize = 2
  Frames <- MCFrames
  PpsMs = 2
  Outputs = {"t1", "t4"}
  Disturbances = {"lost", "foreign", "request", "unsent", "missed"}
  MaxEvents = 2
SPECIFICATION BenchSpec
INVARIANTS
  T1Paired
  T4Paired
  ReadingsInSecond
  T14SameFrame
  NothingDropped
CHECK_DEADLOCK FALSE
