SPECIFICATION Spec
CONSTANTS
  s1 = s1
  s2 = s2
  s3 = s3
  Searches = {s1, s2, s3}
  NumKeys = 2
  MaxInflight = 1
  MaxRetries = 1
  MaxAbandoned = 1
INVARIANTS
  NoCallWithDeadKey
  PermanentErrorsAreTrue
PROPERTIES
  EverySearchEnds
CHECK_DEADLOCK FALSE
