SPECIFICATION Spec
CONSTANTS
  a = a
  c1 = c1
  c2 = c2
  i = i
  j = j
  k1 = k1
  k2 = k2
  s1 = s1
  s2 = s2
  p1 = p1
  p2 = p2
  f1 = f1
  f2 = f2
  f3 = f3
  t1 = t1
  t2 = t2
  g1 = g1
  g2 = g2
  shared = shared
  Objects <- MCObjects
  Ids <- MCIds
  IdOf <- MCIdOf
  MaxMoves = 8
  RetryKeys <- MCKeys
  Fingerprints <- MCFingerprints
  RetryFingerprints <- MCFingerprints
  MaxRetries = 4
  Threshold = 3
  BaseBackoff = 1
  BackoffFactor = 2
  MaxBackoff = 5
  MaxAttempts = 4
  WindowSize = 4
  StuckThreshold = 3
  MaxErrors = 6
  Stories <- MCStories
  Gates <- MCGates
  EnabledGates <- MCEnabledGates
  Providers <- MCProviders
  FailureThreshold = 3
  RecoveryTimeout = 2
  HalfOpenMaxCalls = 2
  MaxStreak = 4
  Clients <- MCKeys
  Burst = 3
  Rate = 1
  Ttl = 3
  MaxTime = 8
  Files <- MCSourceFiles
  MaxEdits = 1
  Replies <- MCReplies
  StoryKinds <- MCStoryKinds
  MaxRevisions = 2
  Projects <- MCProjects
  Policies <- MCPolicySet
  Answers <- MCAnswers
  Targets <- MCTargets
  Conditions = {"ok", "late", "silent"}
  Threads <- MCThreads
  SharedProviders <- MCSharedProviders
  Sources <- MCSources
  MaxDeaths = 1
  MaxEnrichments = 2
INVARIANTS HistoryExplainsState BreakerAgreesWithAttempts TrendIsNoticed PendingIsUndecided
           CountersAreRuns DroppingIsInvisible CyclesAreFound PlannedInOrder EveryModeDecidesAlike
           NoScannerHidesAnother BuiltOnce MarkedIsEnriched
PROPERTIES AnswerIsOwn MovesAreEarned
CHECK_DEADLOCK FALSE
