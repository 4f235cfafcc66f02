CONSTANTS
  Size = 8
  MaxReserv = 3
  OffSize = 4
  Payload = 1
  Frames <- MCFrames
  MaxFrames = 3
SPECIFICATION Spec
INVARIANT InStep
