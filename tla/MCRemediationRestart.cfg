SPECIFICATION FairSpec
CONSTANTS
  None = None
  good = good
  other = other
  api = api
  cli = cli
  Patches = {good, other}
  Foreign = {}
  Valid = {good}
  Commits = {0, 1, 2, 3}
  Descendants = {0, 1, 2, 3}
  Plan <- TwoWorkloads
  Assessed <- MCAssessed
  MaxAutonomy = 3
  CandidateRegression = TRUE
  MaxAttempts = 2
  MaxWall = 1
  MaxTokens = 1
  MaxCost = 1
  Ticks = {0, 2}
  Usages <- NoUsage
  Executors = {api}
  Faults = {"crash", "step", "verifier", "abandon"}
  MaxRequests = 3
CHECK_DEADLOCK FALSE
PROPERTY ImplementsOrchestrator
PROPERTY WorkEnds
