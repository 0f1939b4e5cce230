SPECIFICATION Spec
CONSTANTS
  None = None
  c1 = c1
  c2 = c2
  c3 = c3
  Clients = {c1, c2}
  Releases <- TwoReleases
  Canaries <- AllCanaries
  RunFacts <- MCRunFacts
  TraceFacts <- MCTraceFacts
  Backend = "sql"
  Faults = {"crash", "controller"}
  MaxRequests = 1
SYMMETRY Symmetry
CHECK_DEADLOCK FALSE
INVARIANT TypeOK
INVARIANT SqlChainIntact
INVARIANT PromotionBacked
INVARIANT IntentRecorded
INVARIANT ReleasedFirst
PROPERTY OkMeansRecorded
PROPERTY LifecycleSpec
