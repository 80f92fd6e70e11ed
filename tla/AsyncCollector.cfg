CONSTANTS
  MaxRecords = 2
  ScanLimit = 2
  MaxOps = 3
  MaxEarly = 1
  MaxRuns = 2
  MaxDrains = 1
  Durations = {1, 2}
SPECIFICATION Spec
INVARIANTS
  Conservation
  InflightAgrees
  ActiveNeverUnder
PROPERTY
  EvictionSparesTheSlow
  KeepsCustody
