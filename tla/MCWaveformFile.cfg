CONSTANTS
  Channels = {1, 3}
  Lists <- MCLists
  Settings <- MCSettings
  TimeBase <- MCTimeBase
  Signals <- MCSignals
  Readings <- MCReadings
SPECIFICATION Spec
INVARIANTS
  OwnSamples
  WholeOrLess
  CounterBack
  QuietMeansAlike
