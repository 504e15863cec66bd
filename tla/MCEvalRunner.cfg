SPECIFICATION EvalSpec
CONSTANTS
  N = 3
  Concurrency = 2
  Known = {2, 3}
  d1 = d1
  d2 = d2
  Datasets = {d1, d2}
  MaxStarts = 3
INVARIANTS
  OneDataset
  ReportsAreDisk
PROPERTIES
  LedgerRefined
  RunSummarises
