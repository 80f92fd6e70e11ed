SPECIFICATION Spec
CONSTANTS
  Pids = {"p", "q"}
  Requested = "p"
  Ports = {1, 2}
  MaxRounds = 2
INVARIANTS NoConnectionLeft SignalsOnlyNode RightTarget
PROPERTIES SearchEnds
