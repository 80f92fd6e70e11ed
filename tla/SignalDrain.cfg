CONSTANTS
  Cap = 2
  Chunk = 1
  MaxSamples = 5
  MaxCalls = 4
SPECIFICATION Spec
INVARIANTS
  Conservation
  CapIsExact
  LossIsReported
PROPERTY
  StopEnds
  KeepsCustody
