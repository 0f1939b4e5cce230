SPECIFICATION Spec
CONSTANTS
  None = None
  c1 = c1
  c2 = c2
  c3 = c3
  Clients = {c1}
  Releases <- TwoReleases
  Canaries <- AllCanaries
  RunFacts <- MCRunFacts
  TraceFacts <- MCTraceFacts
  Backend = "file"
  Faults = {"crash", "controller", "lookup"}
  MaxRequests = 3
CHECK_DEADLOCK FALSE
INVARIANT AloneSingleOutcome
INVARIANT AloneAgreement
