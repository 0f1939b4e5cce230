SPECIFICATION Spec
CONSTANTS
  None = None
  api = api
  cli = cli
  Clients = {api, cli}
  Faults = {"crash", "timeout", "refused"}
  MaxEvidence = 1
  MaxRequests = 2
SYMMETRY Symmetry
CHECK_DEADLOCK FALSE
INVARIANT PullsAuthorized
INVARIANT AnswersRecorded
INVARIANT PublishedNamesItsPull
