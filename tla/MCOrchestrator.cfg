SPECIFICATION FairSpec
CONSTANTS
  s1 = s1
  s2 = s2
  Stories <- OneStory
  Wirings <- AllWirings
  Fingerprints <- OneFingerprint
  GeneratorErrors <- SomeErrors
  WindowSize = 3
  StuckThreshold = 2
  MaxIterations = 3
  MaxRetries = 5
  RetryThreshold = 2
  GateEnabled = TRUE
INVARIANTS ReturnsFinished DeployedCodePassedTests BoundedWork
PROPERTIES DeploysOnlyWhenCleared Finishes FinalIsFinal
