SPECIFICATION WorkersSpec
CONSTANTS
  t1 = t1
  t2 = t2
  t3 = t3
  u1 = u1
  u2 = u2
  Tasks = {t1, t2, t3}
  Urls = {u1}
  Findable <- MCFindable
  NoCap = NoCap
  GlobalCap = 4
  TaskCap = 1
  MaxRounds = 1
  MaxReplans = 0
  WarningPct = 80
  CriticalPct = 90
  MaxTickets = 3
  Slices = {1}
  Usages = {2, 3}
  MaxIterations = 1
  MaxSearchRetries = 0
  FactCounts = {1}
INVARIANTS
  SomePromiseHolds
SYMMETRY WorkersSymmetry
CHECK_DEADLOCK FALSE
