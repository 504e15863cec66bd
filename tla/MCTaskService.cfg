SPECIFICATION Spec
CONSTANTS
  t1 = t1
  t2 = t2
  Tasks = {t1, t2}
  Watched = t1
  MaxTasks = 1
  MaxStops = 1
  MaxFailures = 1
INVARIANTS
  ServiceTypeOK
  OneFinalEvent
  ReceivedInOrder
PROPERTIES
  CompletedSurvives
  EveryTaskEnds
CHECK_DEADLOCK FALSE
