CONSTANTS
  Cpu = Cpu
  Memory = Memory
  None = None
  Kinds <- MCOneKind
  Drainable <- MCOneKind
  Disposable <- MCOneKind
  UntimedStop <- MCOneKind
SPECIFICATION FairSpec
PROPERTY
  StopEndsCapture
