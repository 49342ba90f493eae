SPECIFICATION MCSpec
CONSTANTS
  Clients = {c1, c2}
  Workers = {w1, w2}
  tssCap = 1
  tssItemCap = 2
  Era = 4
  MaxReading = 2
  MaxRequests = 4
  Clock <- ClockReadings
  Requests <- ClientRequests
  Idle = Idle
  NoStamp = NoStamp
SYMMETRY Symmetry
INVARIANTS TypeOK QueueTracksMap StoredIsStamped GaugesExact RxtsUnique QvalCovers
PROPERTIES InterleavedServesStamp
