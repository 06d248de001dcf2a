SPECIFICATION FairSpec
CONSTANTS
  MaxWorkers = 2
  MaxThreads = 2
  MaxAsked = 3
  MaxPrompts = 1
  MaxRuns = 2
INVARIANTS EachQuestionOnce
PROPERTIES ShownIsOwn AnswersSaved
CHECK_DEADLOCK FALSE
