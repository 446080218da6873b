SPECIFICATION Spec
CONSTANTS
  s1 = s1
  s2 = s2
  Stories <- TwoStories
  Wirings <- NoChecks
  Fingerprints <- OneFingerprint
  GeneratorErrors <- NoErrors
  WindowSize = 4
  StuckThreshold = 3
  MaxIterations = 1
  MaxRetries = 1
  RetryThreshold = 1
  GateEnabled = TRUE
PROPERTY ImplementsService
