SPECIFICATION Spec
CONSTANTS
  None = None
  api = api
  cli = cli
  first = first
  second = second
  pytest = pytest
  Clients = {api, cli}
  Keys = {first, second}
  Workloads = {pytest}
  Faults = {"crash", "stage", "store", "telemetry"}
  MaxEdits = 1
  MaxRequests = 1
SYMMETRY Symmetry
CHECK_DEADLOCK FALSE
INVARIANT OneDriver
INVARIANT StatusMatchesEvidence
INVARIANT AnswersFinal
INVARIANT NoRunLeftBehind
PROPERTY ImplementsRegistry
