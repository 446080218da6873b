SPECIFICATION FairApiSpec
CONSTANTS
  ApiStories = {"s1", "s2"}
  Projects = {"p"}
  LogCap = 2
  MaxCalls = 2
PROPERTY SubmittedIsProcessed
CHECK_DEADLOCK FALSE
