SPECIFICATION Spec
CONSTANTS
  t1 = t1
  t2 = t2
  Tasks <- MCTasks
  Providers <- MCProviders
  Configs <- MCConfigs
  Enabled <- MCProviders
  Initialized <- MCProviders
  Models <- MCModels
  FallbackChain <- MCChain
  MaxCompletions = 3
  FailureThreshold = 2
  RecoveryTimeout = 1
  HalfOpenMaxCalls = 2
  Emails = {"root", "ann"}
  SuperEmail = "root"
  Passwords = {"p"}
  LoginStates = {"s"}
  Callbacks = {k1, k2}
  Requests = {r1, r2}
  MaxUsers = 3
  MaxBoots = 2
  MaxFailedSaves = 1
  Subjects = {"ann", "bob"}
  ScimUserIds = {"ann"}
  OidcStates = {"x"}
  ApiKeys = {"key"}
  MaxSsoSessions = 2
  ScimIds = {"ann", "bob"}
  ScimNames = {"n"}
  GroupIds = {"g"}
  ScimRoles = {}
  ScimBodies <- MCBodies
  MaxScimRequests = 4
  MaxScimFailures = 1
  Vendors = {"openai", "ollama"}
  CloudVendors = {"openai"}
  Places = {"here", "there"}
  DefaultPlace = "here"
  VendorLists <- MCLists
  Logins = {"google"}
  MaxSettings = 4
  MaxLoginFailures = 1
  ApiStories = {"s1", "s2"}
  Projects = {"p"}
  LogCap = 2
  MaxCalls = 6
  MaxCommands = 3
INVARIANTS SentOnceEach AnswerIsHonest AccountsAgree StatesUsedOnce
           AnsweredSurvives WithdrawnStaysOut FeedbackAgreesWithLog
PROPERTIES NotGivenUpEarly LastAdminLeavesByOthers OneLoginOneSession
SYMMETRY MCSymmetry
CHECK_DEADLOCK FALSE
