CONSTANTS
  MaxRecords = 2
  ScanLimit = 2
  MaxOps = 3
  MaxEarly = 1
  MaxRuns = 2
  MaxDrains = 2
  Durations = {1}
SPECIFICATION Spec
INVARIANT
  DiscardsAreCounted
