SPECIFICATION JudgeSpec
CONSTANTS
  NumRubrics = 6
  Blocked = {2}
  BatchSize = 2
  BatchConcurrency = 2
  RetryConcurrency = 2
  MaxAttempts = 2
INVARIANTS
  JudgeTypeOK
  ScoresAreOwn
  ErrorsWereRetried
PROPERTIES
  JudgeEnds
