CONSTANTS
  Runs = {"a", "b"}
  NumMeas = 2
  NumAvg = 2
  Channels = 2
  Delays <- MCDelays
  Estimate = 0
  Tolerance = 2
  MaxSec = 1
SPECIFICATION FairSpec
INVARIANTS
  OwnWaveform
  OneAcquisition
  FilesKept
PROPERTY RunEnds
CHECK_DEADLOCK FALSE
