SPECIFICATION FairSpec
CONSTANTS
  None = None
  good = good
  other = other
  huge = huge
  wrong = wrong
  stray = stray
  Plan <- TwoWorkloads
  Patches = {good, other, wrong, stray}
  Foreign = {stray}
  Valid = {good, other, stray}
  Commits = {"fix", "elsewhere"}
  Descendants = {"fix"}
  Assessed <- MCAssessed
  MaxAutonomy = 3
  CandidateRegression = TRUE
  MaxAttempts = 2
  MaxWall = 1
  MaxTokens = 0
  MaxCost = 0
  Ticks = {0, 1}
  Usages <- SomeUsage
CHECK_DEADLOCK FALSE
INVARIANT VerifiedIsVerified
INVARIANT NoPatchVerifiedTwice
INVARIANT OpenPRNeverRefuted
INVARIANT EveryAttemptReported
INVARIANT ReasonHonest
PROPERTY Terminates
