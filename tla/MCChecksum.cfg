CONSTANTS
  Radix = 8
  MaxWords = 5
SPECIFICATION Spec
INVARIANTS
  OwnAccepted
  ExcessSeen
CHECK_DEADLOCK FALSE
