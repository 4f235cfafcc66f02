CONSTANTS
  PsPerNs = 5
  NsPerSec = 7
  RawStamps <- MCRawStamps
  Bitslides <- MCBitslides
SPECIFICATION Spec
INVARIANTS
  PrintedNormalised
  ValuePreserved
CHECK_DEADLOCK FALSE
