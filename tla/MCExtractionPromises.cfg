SPECIFICATION ExtractionSpec
CONSTANTS
  e1 = e1
  e2 = e2
  Calls = {e1, e2}
  InFlight = 1
  MaxRetries = 1
  NDocs = 2
  Sizes = {1, 2}
  Bound = 5
  System = 2
  Repair = 1
  Intros = {1, 4}
INVARIANTS
  SomePromiseHolds
