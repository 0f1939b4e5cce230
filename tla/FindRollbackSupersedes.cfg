SPECIFICATION Spec
CONSTANTS
  None = None
  c1 = c1
  c2 = c2
  c3 = c3
  Clients = {c1, c2}
  Releases <- OneRelease
  Canaries <- FewCanaries
  RunFacts <- MCRunFacts
  TraceFacts <- MCTraceFacts
  Backend = "sql"
  Faults = {}
  MaxRequests = 1
SYMMETRY Symmetry
CHECK_DEADLOCK FALSE
INVARIANT RollbackSupersedes
