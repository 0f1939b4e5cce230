SPECIFICATION Spec
CONSTANTS
  None = None
  analysis = analysis
  remediation = remediation
  Runs = {analysis, remediation}
  Kind <- MCKind
  Checks <- MCChecks
  Worlds <- MCWorlds
  Editions <- MCEditions
  Fixture = "fixture"
  Repetitions = 2
  MaxVariance = 20
  MinQueryIncrease = 10
  MinQueryRatio = 5
  MinP95Ratio = 2
  Disturbance = 4
  Faults = {"worktree", "build", "create", "timeout", "start", "summary", "noise", "rm", "ready", "edit"}
  MaxFaults = 1
CHECK_DEADLOCK FALSE
INVARIANT DecidedIsUndisturbed
INVARIANT FixEarned
INVARIANT NothingElseLeft
