SPECIFICATION Spec
CONSTANTS
  MaxSignals = 1
  MaxPolls = 1
INVARIANTS SpawnFailureIsTold
CHECK_DEADLOCK FALSE
