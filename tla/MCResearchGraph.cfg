SPECIFICATION Spec
CONSTANTS
  Ids = {1, 2, 3, 4, 5, 6}
  Planned = {1, 2, 3}
  Priorities = {1}
  MaxWorkers = 2
  MinFacts = 2
  MaxReplans = 2
  FactCounts = {0, 1}
INVARIANTS
  OnlyFailuresBlock
PROPERTIES
  BoardRefined
  EndsWithoutChain
CHECK_DEADLOCK FALSE
