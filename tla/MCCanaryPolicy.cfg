SPECIFICATION EvaluationSpec
CONSTANTS
  None = None
  Links <- MCLinks
  Payloads <- MCPayloads
  Ages <- MCAges
  Instants <- MCInstants
PROPERTY OnlyEvidenceHelps
