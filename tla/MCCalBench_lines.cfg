CONSTANTS
  SyncMs = 2
  RetryMs = 2
  FaultMs = 1
  AnnLeft = {0}
  SeqSize = 5
  QueueSize = 2
  Frames <- MCFrames
  PpsMs = 2
  Outputs = {"t1"}
  Disturbances = {"lost", "foreign", "request", "unsent", "missed"}
  MaxEvents = 2
SPECIFICATION BenchSpec
INVARIANT LinesAreT1T4
CHECK_DEADLOCK FALSE
