SPECIFICATION Spec

CONSTANTS
  Setups <- DefaultSetups
  StepThreshold = 10
  PeerCutoff = 1
  MaxFreq = 100
  MaxAge = 3
  MaxFailures = 0
  Band = 260

PROPERTIES
  StepJustified
