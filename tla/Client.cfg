SPECIFICATION MCSpec
CONSTANTS
  Workers = {w1, w2}
  tssItemCap = 2
  Era = 128
  Idle = Idle
  NoStamp = NoStamp
  self = self
  other = other
  Window = 8
  Theta = 2
  Start = 1
  NoSample = NoSample
  MaxMeasurements = 2
  MaxFaults = 1
SYMMETRY Symmetry
INVARIANTS TypeOK ErrorWithinDelay InterleavedAgain
