CONSTANTS
  MaxBeats = 2
  BatchSize = 2
SPECIFICATION Spec
INVARIANTS
  HighestCounterWins
