SPECIFICATION ImpactSpec
CONSTANTS
  None = None
  Nodes = {1, 2, 3, 4, 5, 6, 7, 8, 9, 10}
  Graphs <- NoGraphs
  PytestId = "checkout-pytest"
  K6Id = "checkout-k6"
  Sources <- MCSources
  Types <- MCTypes
  Manifests <- MCManifests
  SearchLimits <- MCSearchLimits
  PlanningLimits <- MCPlanningLimits
  RegistryLimits <- MCRegistryLimits
  Configured = {}
  MaxEdits = 1
CHECK_DEADLOCK FALSE
INVARIANT SearchExact
INVARIANT ShortestDistances
INVARIANT NoFalseCertainty
INVARIANT SelectionRepeats
