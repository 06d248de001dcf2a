SPECIFICATION Spec
CONSTANTS
  Prompts = {p1, p2}
  MaxRetries = 1
  Outcomes <- FailOrAnswer
  MaxSteers = 0
  MaxAborts = 0
  MayReset = TRUE
PROPERTY OnlyFailureLeaves
CHECK_DEADLOCK FALSE
