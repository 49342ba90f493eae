SPECIFICATION Spec

CONSTANTS
  Setups <- SyncSetups
  StepThreshold = 10
  PeerCutoff = 1
  MaxFreq = 100
  MaxAge = 3
  MaxFailures = 1
  Band = 260

  Steps <- ClockSteps
  StepDelay = 2
  PllDelay = 6
  Long = 8
  MaxGoroutines = 3

  Servers = {"s", "s2"}
  Clients = {"c"}
  Requests <- ScionRequests
  ServerPort = 10123
  EndhostPort = 30041
  MaxSent = 2
  MaxEpoch = 2

  IdRange = 4
  MaxLate = 2

  Lookups <- PathLookups
  NumClients = 2
  LocalPath = "local"

  Offset = 5
  Corrections = {0, 98304}
  MaxTime = 2
  MaxExchanges = 2
  MaxReads = 3
  MaxNumRetries = 1

  NumSamples = 2
  MaxRetries = 2

INVARIANTS
  TypeOK
  SlewOwned
  NoPanic
  ForwardedOnce
  AuthKeyCurrent
  StampResync
  LearntOnPath
  PathsDistinct
  OffsetWithinDelay

PROPERTIES
  Synchronized
  AnswerArrives
  SampleUntorn

\* Exchanges and requests are bounded; the components stop at their bounds.
CHECK_DEADLOCK FALSE
