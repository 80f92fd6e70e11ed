SPECIFICATION FairSpec
CONSTANTS
  MaxSignals = 2
  MaxPolls = 2
INVARIANTS NothingLeftBehind EvidenceKept
PROPERTIES StopEndsCommand
CHECK_DEADLOCK FALSE
