SPECIFICATION Spec
CONSTANTS
  None = None
  good = good
  other = other
  api = api
  cli = cli
  Patches = {good, other}
  Foreign = {}
  Valid = {good, other}
  Commits = {0, 1, 2}
  Descendants = {0, 1, 2}
  Plan <- OneWorkload
  Assessed <- MCAssessed
  MaxAutonomy = 3
  CandidateRegression = TRUE
  MaxAttempts = 2
  MaxWall = 1
  MaxTokens = 1
  MaxCost = 1
  Ticks = {0}
  Usages <- NoUsage
  Executors = {api, cli}
  Faults = {"step"}
  MaxRequests = 1
SYMMETRY Symmetry
CHECK_DEADLOCK FALSE
INVARIANT EvidenceBacked
INVARIANT TerminalBacked
