CONSTANTS
  Cpu = Cpu
  Memory = Memory
  None = None
  Kinds <- MCOneKind
  Drainable <- MCOneKind
  Disposable <- MCOneKind
  UntimedStop <- MCNoKind
SPECIFICATION Spec
INVARIANT
  AbortedMeansDisposed
