SPECIFICATION RouterSpec
CONSTANTS
  t1 = t1
  t2 = t2
  Tasks <- MCTasks
  Providers <- MCProviders
  Configs <- MCConfigs
  Enabled <- MCProviders
  Initialized <- MCProviders
  Models <- MCModels
  FallbackChain <- MCChain
  MaxCompletions = 5
  FailureThreshold = 2
  RecoveryTimeout = 1
  HalfOpenMaxCalls = 2
INVARIANT QuietIsTriedAgain
