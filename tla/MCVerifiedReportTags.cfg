SPECIFICATION ReportSpec
CONSTANTS
  a = a
  b = b
  c = c
  blocked = blocked
  late = late
  stray = stray
  t1 = t1
  t2 = t2
  Texts = {1, 2, 3, 4, 5}
  Tasks = {t1, t2}
  Sources = {a, b, c, blocked, late, stray}
  Inputs <- MCInputs
  Citations <- MCCitations
  Blocked = {blocked}
  Late = {late}
  MaxClaims = 3
  VerifyConcurrency = 2
  MaxCitations = 2
INVARIANT
  TagsResolve
