SPECIFICATION Spec
CONSTANTS
  s1 = s1
  s2 = s2
  Stories <- OneStory
  Wirings <- OnlyWorking
  Fingerprints <- OneFingerprint
  GeneratorErrors <- NoErrors
  WindowSize = 4
  StuckThreshold = 3
  MaxIterations = 2
  MaxRetries = 5
  RetryThreshold = 3
  GateEnabled = TRUE
INVARIANT AwaitedStoryIsAlive
