SPECIFICATION FairSpec
CONSTANTS
  Prompts = {p1}
  MaxRetries = 1
  Outcomes <- NoMatterWhat
  MaxSteers = 1
  MaxAborts = 1
  MayReset = TRUE
INVARIANTS RequestsBounded
PROPERTIES AbortEndsBackoff PromptReturns
CHECK_DEADLOCK FALSE
