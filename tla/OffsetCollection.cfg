SPECIFICATION MCSpec
CONSTANTS
  c1 = c1
  c2 = c2
  c3 = c3
  c4 = c4
  Clocks = {c1, c2, c3, c4}
  Offsets <- MCOffsets
  Faulty = {c4}
  Rounds = {1, 2}
  Failed = Failed
  NoClock = NoClock
INVARIANTS TypeOK CurrentMeasurements FaultTolerance
PROPERTIES NoGoroutineLeak RoundEnds
