SPECIFICATION Spec
CONSTANTS
  Ids = {1, 2, 3, 4, 5}
  Planned = {1, 2, 3}
  Priorities = {1}
  MaxWorkers = 2
  MinFacts = 2
  MaxReplans = 2
  FactCounts = {0, 1}
PROPERTIES
  AlwaysEnds
CHECK_DEADLOCK FALSE
