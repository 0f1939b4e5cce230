SPECIFICATION FairSpec
CONSTANTS
  None = None
  Inputs <- MCInputs
  MaxCalls = 2
  MaxRetries = 1
CHECK_DEADLOCK FALSE
INVARIANT AnswersOwn
INVARIANT FewThreadsStuck
INVARIANT NothingThatFitsIsOmitted
PROPERTY EveryCallAnswered
