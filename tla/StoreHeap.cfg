SPECIFICATION MCSpec
CONSTANTS
  Clients = {c1, c2, c3, c4}
  Workers = {w1}
  tssCap = 3
  tssItemCap = 2
  Era = 4
  MaxReading = 2
  MaxRequests = 4
  Clock <- ClockReadings
  Requests <- ClientRequests
  Idle = Idle
  NoStamp = NoStamp
  None = None
SYMMETRY Symmetry
INVARIANTS QidxIsPosition FrontIsMin
PROPERTIES ClientIsolation
