SPECIFICATION Spec
CONSTANTS
  s1 = s1
  s2 = s2
  Stories <- OneStory
  Wirings <- OnlyNoComponents
  Fingerprints <- OneFingerprint
  GeneratorErrors <- NoErrors
  WindowSize = 4
  StuckThreshold = 3
  MaxIterations = 2
  MaxRetries = 5
  RetryThreshold = 3
  GateEnabled = FALSE
INVARIANT NothingFailedMeansDone
