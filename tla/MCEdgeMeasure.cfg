CONSTANTS
  Scripts = {"edge_sfd", "edge_edge"}
  Sfd <- MCSfd
  Frame <- MCFrame
  SfdAt = 10
  BitTime = 4
  Period = 2
  BitWidth = 4
  Records <- MCRecords
  Estimates <- MCEstimates
  ArgLists <- MCArgLists
  DefaultTol = 1000
  DelTol = 10
  GivenTol = 40
  EstimatedDelay = 2
  NumMeas = 2
  Q = 2
SPECIFICATION Spec
INVARIANTS
  DelayRight
  FailsForAReason
  CircularRight
  LinearRight
PROPERTY ToleranceKept
CHECK_DEADLOCK FALSE
