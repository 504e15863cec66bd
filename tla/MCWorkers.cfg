SPECIFICATION WorkersSpec
CONSTANTS
  t1 = t1
  t2 = t2
  u1 = u1
  u2 = u2
  Tasks = {t1, t2}
  Urls = {u1, u2}
  Findable <- MCFindable
  NoCap = NoCap
  GlobalCap = 4
  TaskCap = 3
  MaxRounds = 2
  MaxReplans = 1
  WarningPct = 50
  CriticalPct = 75
  MaxTickets = 4
  Slices = {2}
  Usages = {1, 4}
  MaxIterations = 3
  MaxSearchRetries = 1
  FactCounts = {0, 3}
INVARIANTS
  WorkersTypeOK
  TicketsClosed
  CitationsUnique
  FactsDelivered
  SlicesHonoured
  LedgersShowAllCharges
PROPERTIES
  CancelStops
  Termination
CHECK_DEADLOCK FALSE
